---------------------------- MODULE DesktopProofs ----------------------------
(***************************************************************************)
(* The settings writer, the follow star and the refresher, for any number  *)
(* of saves, shows, plays, slots and jobs; and the player's control, for   *)
(* any number of episodes and of user actions.                             *)
(***************************************************************************)
EXTENDS Integers, PlayerControl, FollowStar, SettingsWriter, Refresher, TLAPS

-----------------------------------------------------------------------------
(* The settings writer. Changes are numbered as they are made, so each     *)
(* place that holds one is compared with those it can replace.             *)

WriterTypeOK ==
  /\ made \in Nat /\ waiting \in Nat /\ writing \in Nat /\ row \in Nat
  /\ saver \in {"none", "picks", "writes"} /\ failed \in BOOLEAN
  /\ closing \in {"no", "waits", "returned"}

\* Nothing is newer than what was made, and what is not pending is being
\* written; close returns only once no saver is left, and none begins again.
WriterInv ==
  /\ WriterTypeOK /\ LastChoiceIsSaved
  /\ row <= made
  /\ saver = "writes" => writing <= made /\ (waiting = 0 => writing = made)
  /\ closing = "returned" => saver = "none"

\* However saves, the saver and close interleave, and whichever writes fail: an
\* older choice is never written over a newer one, and after close the last
\* choice is in the settings row unless close says it is not.
THEOREM LastChoiceSaved == WriterSpec => []LastChoiceIsSaved
<1>1. WriterInit => WriterInv
  <2> SUFFICES ASSUME WriterInit PROVE WriterInv
    OBVIOUS
  <2>1. WriterTypeOK /\ saver = "none" /\ waiting = 0 /\ row = made /\ closing = "no"
    BY DEF WriterInit, WriterTypeOK
  <2> QED
    BY <2>1 DEF WriterInv, WriterTypeOK, LastChoiceIsSaved
<1>2. WriterInv /\ [WriterNext]_writerVars => WriterInv'
  <2> SUFFICES ASSUME WriterInv, [WriterNext]_writerVars PROVE WriterInv'
    OBVIOUS
  <2> USE DEF WriterInv, WriterTypeOK, LastChoiceIsSaved, NothingWaits
  <2>1. CASE Save
    BY <2>1 DEF Save
  <2>2. CASE Pick
    BY <2>2 DEF Pick
  <2>3. CASE SaverLeaves
    BY <2>3 DEF SaverLeaves
  <2>4. CASE Write
    <3>1. row' \in {row, writing} /\ (failed' \/ row' = writing)
      BY <2>4 DEF Write
    <3> QED
      BY <2>4, <3>1 DEF Write
  <2>5. CASE CloseWriter
    BY <2>5 DEF CloseWriter
  <2>6. CASE WriterClosed
    BY <2>6 DEF WriterClosed
  <2>7. CASE UNCHANGED writerVars
    BY <2>7 DEF writerVars
  <2> QED
    BY <2>1, <2>2, <2>3, <2>4, <2>5, <2>6, <2>7 DEF WriterNext
<1>3. WriterInv => LastChoiceIsSaved
  BY DEF WriterInv
<1> QED
  BY <1>1, <1>2, <1>3, PTL DEF WriterSpec

-----------------------------------------------------------------------------
(* The follow star. A read of the list may come back from before or after  *)
(* the change of a press that is under way; what saves the star is that    *)
(* the press, once answered, takes back every read that began before.      *)

Reads == [of : Shows \cup {""}, valid : BOOLEAN, got : {"none", "on", "off", "failed"}]

StarTypeOK ==
  /\ watching \in Shows \cup {""} /\ star \in {"hidden", "on", "off"} /\ reads \subseteq Reads
  /\ press \in [at : {"none", "calling", "answered"}, of : Shows \cup {""}, to : BOOLEAN, ok : BOOLEAN]
  /\ unread \in BOOLEAN

\* The press has changed what the list has for the show, and is not yet told.
ChangedBehind(show) == press.at = "answered" /\ press.ok /\ press.of = show

StarInv ==
  /\ StarTypeOK
  \* The star, and a read that counts, tell what the list has, or had before the press.
  /\ star # "hidden" => star = Star(watching \in followed) \/ ChangedBehind(watching)
  /\ \A r \in reads : r.valid /\ r.got \in {"on", "off"} =>
       r.got = Star(r.of \in followed) \/ ChangedBehind(r.of)
  /\ press.at = "answered" /\ press.ok => (press.of \in followed <=> press.to)
  \* A star that is hidden is being read.
  /\ press.at = "none" /\ star = "hidden" /\ watching # "" /\ ~unread =>
       \E r \in reads : r.valid /\ r.of = watching

LEMMA NewRead ==
  ASSUME NEW show \in Shows \cup {""}, NEW rs \in SUBSET Reads
  PROVE  /\ Reading(show, rs) \in SUBSET Reads
         /\ \E r \in Reading(show, rs) : r.valid /\ r.of = show
         /\ \A r \in Reading(show, rs) : r.got \in {"on", "off"} => r \in rs
<1> DEFINE new == [of |-> show, valid |-> TRUE, got |-> "none"]
<1>1. new \in Reads /\ new.valid /\ new.of = show /\ new.got = "none"
  BY DEF Reads
<1>2. Reading(show, rs) = rs \cup {new}
  BY DEF Reading
<1> HIDE DEF new
<1> QED
  BY <1>1, <1>2

LEMMA ChangedReads ==
  ASSUME reads \in SUBSET Reads
  PROVE  Changed \in SUBSET Reads /\ \A r \in Changed : ~r.valid
<1> SUFFICES ASSUME NEW r \in reads PROVE [r EXCEPT !.valid = FALSE] \in Reads /\ ~[r EXCEPT !.valid = FALSE].valid
  BY DEF Changed
<1> QED
  BY DEF Reads

Presses == [at : {"none", "calling", "answered"}, of : Shows \cup {""}, to : BOOLEAN, ok : BOOLEAN]

LEMMA StarStep == StarInv /\ [StarNext]_starVars => StarInv'
<1> SUFFICES ASSUME StarInv, [StarNext]_starVars PROVE StarInv'
  OBVIOUS
<1>0. /\ StarTypeOK /\ reads \in SUBSET Reads /\ press \in Presses /\ unread \in BOOLEAN
      /\ watching \in Shows \cup {""} /\ star \in {"hidden", "on", "off"}
  BY DEF StarInv, StarTypeOK, Presses
<1>1. CASE \E show \in Shows : PlayShow(show)
  <2> PICK show \in Shows : PlayShow(show)
    BY <1>1
  <2>1. /\ watching' = show /\ star' = "hidden" /\ unread' = FALSE
        /\ reads' = Reading(show, reads) /\ UNCHANGED <<followed, press>>
    BY DEF PlayShow
  <2>2. /\ reads' \in SUBSET Reads /\ \E r \in reads' : r.valid /\ r.of = show
        /\ \A r \in reads' : r.got \in {"on", "off"} => r \in reads
    BY <1>0, <2>1, NewRead
  <2> QED
    BY <2>1, <2>2 DEF StarInv, StarTypeOK, ChangedBehind, Star
<1>2. CASE ReadsList
  <2> PICK r \in reads, ok \in BOOLEAN :
        /\ r.got = "none"
        /\ reads' = (reads \ {r}) \cup
             {[r EXCEPT !.got = IF ok THEN Star(r.of \in followed) ELSE "failed"]}
    BY <1>2 DEF ReadsList
  <2> DEFINE s == [r EXCEPT !.got = IF ok THEN Star(r.of \in followed) ELSE "failed"]
  <2>1. r \in Reads
    BY <1>0
  <2>2. s \in Reads /\ s.of = r.of /\ s.valid = r.valid
        /\ (s.got \in {"on", "off"} => s.got = Star(r.of \in followed))
    BY <2>1 DEF Reads, Star
  <2>3. reads' = (reads \ {r}) \cup {s} /\ UNCHANGED <<followed, watching, star, press, unread>>
    BY <1>2 DEF ReadsList
  <2> HIDE DEF s
  <2>4. reads' \in SUBSET Reads
    BY <1>0, <2>2, <2>3
  <2>5. \A q \in reads' : q.valid /\ q.got \in {"on", "off"} =>
          q.got = Star(q.of \in followed) \/ ChangedBehind(q.of)
    BY <2>2, <2>3 DEF StarInv
  <2>6. ASSUME NEW q \in reads, q.valid, q.of = watching
        PROVE  \E p \in reads' : p.valid /\ p.of = watching
    <3>1. CASE q = r
      BY <2>2, <2>3, <2>6, <3>1
    <3>2. CASE q # r
      BY <2>3, <2>6, <3>2
    <3> QED
      BY <3>1, <3>2
  <2> QED
    BY <2>3, <2>4, <2>5, <2>6 DEF StarInv, StarTypeOK, ChangedBehind
<1>3. CASE ReadAnswers
  <2> PICK r \in reads :
        /\ r.got # "none" /\ reads' = reads \ {r}
        /\ star' = IF r.got # "failed" /\ r.valid /\ r.of = watching THEN r.got ELSE star
        /\ unread' = (unread \/ (r.got = "failed" /\ r.of = watching))
    BY <1>3 DEF ReadAnswers
  <2>1. r \in Reads /\ r.got \in {"on", "off", "failed"} /\ UNCHANGED <<followed, watching, press>>
    BY <1>0, <1>3 DEF ReadAnswers, Reads
  <2>2. unread' \in BOOLEAN /\ (~unread' => ~unread /\ ~(r.got = "failed" /\ r.of = watching))
    BY <1>0
  <2>3. star' \in {"hidden", "on", "off"}
    BY <1>0, <2>1
  <2>4. star' # "hidden" => star' = Star(watching \in followed) \/ ChangedBehind(watching)
    BY <2>1 DEF StarInv
  <2>5. ASSUME press.at = "none", star' = "hidden", watching # "", ~unread'
        PROVE  \E q \in reads' : q.valid /\ q.of = watching
    <3>1. star = "hidden" /\ ~(r.valid /\ r.of = watching)
      BY <2>1, <2>2, <2>5
    <3>2. PICK q \in reads : q.valid /\ q.of = watching
      BY <2>2, <2>5, <3>1 DEF StarInv
    <3>3. q # r
      BY <3>1, <3>2
    <3> QED
      BY <3>2, <3>3
  <2>6. StarTypeOK'
    BY <1>0, <2>1, <2>2, <2>3 DEF StarTypeOK
  <2> QED
    BY <2>1, <2>4, <2>5, <2>6 DEF StarInv, ChangedBehind
<1>4. CASE Press
  <2>1. /\ star # "hidden" /\ press.at = "none"
        /\ press' = [at |-> "calling", of |-> watching, to |-> star = "off", ok |-> FALSE]
        /\ reads' = Changed /\ UNCHANGED <<followed, watching, star, unread>>
    BY <1>4 DEF Press
  <2>2. (star = "off") \in BOOLEAN
    OBVIOUS
  <2>3. press' \in Presses /\ press'.at = "calling"
    BY <1>0, <2>1, <2>2 DEF Presses
  <2>4. reads' \in SUBSET Reads /\ \A q \in reads' : ~q.valid
    BY <1>0, <2>1, ChangedReads
  <2>5. star = Star(watching \in followed)
    BY <2>1 DEF StarInv, ChangedBehind
  <2> QED
    BY <1>0, <2>1, <2>3, <2>4, <2>5 DEF StarInv, StarTypeOK, Presses
<1>5. CASE PressStores
  <2> PICK ok \in BOOLEAN :
        /\ press' = [press EXCEPT !.at = "answered", !.ok = ok]
        /\ followed' = IF ~ok THEN followed
                       ELSE IF press.to THEN followed \cup {press.of} ELSE followed \ {press.of}
    BY <1>5 DEF PressStores
  <2>1. press.at = "calling" /\ UNCHANGED <<watching, star, reads, unread>>
    BY <1>5 DEF PressStores
  <2>2. /\ press'.at = "answered" /\ press'.ok = ok /\ press'.of = press.of /\ press'.to = press.to
        /\ press' \in Presses
    BY <1>0, <2>1 DEF Presses
  <2>3. /\ \A show : show # press.of \/ ~ok => (show \in followed' <=> show \in followed)
        /\ ok => (press.of \in followed' <=> press.to)
    OBVIOUS
  <2>4. ASSUME NEW show, NEW value, value = Star(show \in followed)
        PROVE  value = Star(show \in followed') \/ (press'.at = "answered" /\ press'.ok /\ press'.of = show)
    BY <2>2, <2>3, <2>4 DEF Star
  <2>5. star # "hidden" => star = Star(watching \in followed)
    BY <2>1 DEF StarInv, ChangedBehind
  <2>6. \A r \in reads : r.valid /\ r.got \in {"on", "off"} => r.got = Star(r.of \in followed)
    BY <2>1 DEF StarInv, ChangedBehind
  <2>7. StarTypeOK'
    BY <1>0, <2>1, <2>2 DEF StarTypeOK
  <2>8. /\ star # "hidden" => star = Star(watching \in followed') \/ (press'.at = "answered" /\ press'.ok /\ press'.of = watching)
        /\ \A r \in reads : r.valid /\ r.got \in {"on", "off"} =>
              r.got = Star(r.of \in followed') \/ (press'.at = "answered" /\ press'.ok /\ press'.of = r.of)
    BY <2>4, <2>5, <2>6
  <2>9. press'.at = "answered" /\ press'.ok => (press'.of \in followed' <=> press'.to)
    BY <2>2, <2>3
  <2>10. press'.at # "none"
    BY <2>2
  <2> QED
    BY <2>1, <2>7, <2>8, <2>9, <2>10 DEF StarInv, ChangedBehind
<1>6. CASE PressAnswers
  <2>1. press.at = "answered" /\ press' = NoPress /\ UNCHANGED <<followed, watching, unread>>
    BY <1>6 DEF PressAnswers
  <2>2. Changed \in SUBSET Reads /\ \A q \in Changed : ~q.valid
    BY <1>0, ChangedReads
  <2>3. press' \in Presses /\ press'.at = "none"
    BY <2>1 DEF NoPress, Presses
  <2>4. CASE press.ok /\ press.of = watching
    <3>1. star' = Star(press.to) /\ reads' = Changed
      BY <1>6, <2>4 DEF PressAnswers
    <3>2. star' = Star(watching \in followed) /\ star' \in {"on", "off"}
      BY <2>1, <2>4, <3>1 DEF StarInv, Star
    <3> QED
      BY <1>0, <2>1, <2>2, <2>3, <3>1, <3>2 DEF StarInv, StarTypeOK, Presses
  <2>5. CASE ~(press.ok /\ press.of = watching)
    <3>1. star' = star /\ reads' = Reading(watching, Changed)
      BY <1>6, <2>5 DEF PressAnswers
    <3>2. /\ reads' \in SUBSET Reads /\ \E r \in reads' : r.valid /\ r.of = watching
          /\ \A r \in reads' : r.got \in {"on", "off"} => r \in Changed
      BY <1>0, <2>2, <3>1, NewRead
    <3>3. star # "hidden" => star = Star(watching \in followed)
      BY <2>5 DEF StarInv, ChangedBehind
    <3> QED
      BY <1>0, <2>1, <2>2, <2>3, <3>1, <3>2, <3>3 DEF StarInv, StarTypeOK, Presses
  <2> QED
    BY <2>4, <2>5
<1>7. CASE UNCHANGED starVars
  BY <1>7 DEF starVars, StarInv, StarTypeOK, ChangedBehind
<1> QED
  BY <1>1, <1>2, <1>3, <1>4, <1>5, <1>6, <1>7 DEF StarNext

\* In whatever order reads, presses and switches to other anime answer: with no
\* press under way the star is the stored one, and a hidden star is being read.
THEOREM StarShowsList == StarSpec => []StarIsStored
<1>1. StarInit => StarInv
  <2> SUFFICES ASSUME StarInit PROVE StarInv
    OBVIOUS
  <2>1. press \in Presses /\ press.at = "none"
    BY DEF StarInit, NoPress, Presses
  <2> QED
    BY <2>1 DEF StarInit, StarInv, StarTypeOK, Presses
<1>2. StarInv => StarIsStored
  BY DEF StarInv, StarIsStored, ChangedBehind
<1> QED
  BY <1>1, <1>2, StarStep, PTL DEF StarSpec

-----------------------------------------------------------------------------
(* The refresher. Every slot a background run holds goes with a token, and *)
(* there is one token fewer than slots; a step changes what one run holds. *)

Phases == {"idle", "token", "slot", "check", "wait", "done"}
RunRecords == [at : Phases, background : BOOLEAN, left : 0..MaxJobs, live : 0..MaxJobs, ended : BOOLEAN]

\* The jobs of a run that acquires are still to be started, and one that is
\* over, or has not begun, holds nothing.
RunSound(q) ==
  /\ q.left + q.live <= MaxJobs
  /\ q.at \in {"token", "slot", "check"} => q.left > 0
  /\ q.at \in {"idle", "done"} => q.live = 0

RefresherInv ==
  /\ RefresherTypeOK
  /\ \A r \in Runs : RunSound(run[r])
  /\ Slots <= Limit /\ Tokens <= Reserved
  /\ stopping = "closed" => \A r \in Runs : run[r].at \in {"idle", "done"}

LEMMA HeldTypes ==
  ASSUME RefresherTypeOK, NEW r \in Runs
  PROVE  SlotsOf(r) \in Nat /\ TokensOf(r) \in Nat
BY RefresherAssumption DEF RefresherTypeOK, SlotsOf, TokensOf

\* A step of one run keeps the limits if it takes no more than there is.
LEMMA RunChanges ==
  ASSUME RefresherTypeOK, RefresherTypeOK', NEW r \in Runs, NEW q, run' = [run EXCEPT ![r] = q]
  PROVE  /\ run'[r] = q /\ \A s \in Runs \ {r} : run'[s] = run[s]
         /\ Slots' - SlotsOf(r)' = Slots - SlotsOf(r)
         /\ Tokens' - TokensOf(r)' = Tokens - TokensOf(r)
<1>1. run'[r] = q /\ \A s \in Runs \ {r} : run'[s] = run[s]
  BY DEF RefresherTypeOK
<1>2. \A s \in Runs \ {r} : SlotsOf(s)' = SlotsOf(s) /\ TokensOf(s)' = TokensOf(s)
  BY <1>1 DEF SlotsOf, TokensOf
<1>3. \A s \in Runs : SlotsOf(s) \in Nat /\ TokensOf(s) \in Nat
  BY HeldTypes
<1>4. \A s \in Runs : SlotsOf(s)' \in Nat /\ TokensOf(s)' \in Nat
  <2> SUFFICES ASSUME NEW s \in Runs PROVE SlotsOf(s)' \in Nat /\ TokensOf(s)' \in Nat
    OBVIOUS
  <2> QED
    BY RefresherAssumption DEF RefresherTypeOK, SlotsOf, TokensOf
<1> HIDE DEF SlotsOf, TokensOf
<1>5. r = "following" \/ r = "schedule" \/ r = "lookup"
  BY DEF Runs
<1>6. {"following", "schedule", "lookup"} = Runs
  BY DEF Runs
<1>7. Slots' - SlotsOf(r)' = Slots - SlotsOf(r) /\ Tokens' - TokensOf(r)' = Tokens - TokensOf(r)
  <2>1. CASE r = "following"
    <3>1. "schedule" \in Runs \ {r} /\ "lookup" \in Runs \ {r} /\ r \in Runs
      BY <2>1, <1>6
    <3> QED
      BY <1>2, <1>3, <1>4, <2>1, <3>1 DEF Slots, Tokens
  <2>2. CASE r = "schedule"
    <3>1. "following" \in Runs \ {r} /\ "lookup" \in Runs \ {r} /\ r \in Runs
      BY <2>2, <1>6
    <3> QED
      BY <1>2, <1>3, <1>4, <2>2, <3>1 DEF Slots, Tokens
  <2>3. CASE r = "lookup"
    <3>1. "schedule" \in Runs \ {r} /\ "following" \in Runs \ {r} /\ r \in Runs
      BY <2>3, <1>6
    <3> QED
      BY <1>2, <1>3, <1>4, <2>3, <3>1 DEF Slots, Tokens
  <2> QED
    BY <1>5, <2>1, <2>2, <2>3
<1> QED
  BY <1>1, <1>7

\* What a run in state q holds.
SlotsIn(q)  == q.live + (IF q.at = "check" THEN 1 ELSE 0)
TokensIn(q) == IF q.background THEN SlotsIn(q) + (IF q.at = "slot" THEN 1 ELSE 0) ELSE 0

LEMMA OneRunSteps ==
  ASSUME RefresherInv, NEW r \in Runs, NEW q \in RunRecords, run' = [run EXCEPT ![r] = q],
         RunSound(q), stopping' = stopping, recent' \subseteq {"following", "schedule"},
         stopping = "closed" => q.at \in {"idle", "done"},
         SlotsIn(q) <= SlotsIn(run[r]) \/ (SlotsIn(q) = SlotsIn(run[r]) + 1 /\ Slots < Limit),
         TokensIn(q) <= TokensIn(run[r]) \/ (TokensIn(q) = TokensIn(run[r]) + 1 /\ Tokens < Reserved)
  PROVE  RefresherInv'
<1>1. RefresherTypeOK /\ RefresherTypeOK'
  BY DEF RefresherInv, RefresherTypeOK, RunRecords, Phases
<1>2. /\ run'[r] = q /\ \A s \in Runs \ {r} : run'[s] = run[s]
      /\ Slots' - SlotsOf(r)' = Slots - SlotsOf(r)
      /\ Tokens' - TokensOf(r)' = Tokens - TokensOf(r)
  BY <1>1, RunChanges
<1>3. /\ SlotsOf(r) = SlotsIn(run[r]) /\ SlotsOf(r)' = SlotsIn(q)
      /\ TokensOf(r) = TokensIn(run[r]) /\ TokensOf(r)' = TokensIn(q)
  BY <1>2 DEF SlotsOf, TokensOf, SlotsIn, TokensIn
<1>4. /\ SlotsOf(r) \in Nat /\ SlotsOf(r)' \in Nat /\ TokensOf(r) \in Nat /\ TokensOf(r)' \in Nat
      /\ Slots \in Nat /\ Slots' \in Nat /\ Tokens \in Nat /\ Tokens' \in Nat
  <2>1. \A s \in Runs : SlotsOf(s) \in Nat /\ TokensOf(s) \in Nat
    BY <1>1, HeldTypes
  <2>2. \A s \in Runs : SlotsOf(s)' \in Nat /\ TokensOf(s)' \in Nat
    BY <1>1, RefresherAssumption DEF RefresherTypeOK, SlotsOf, TokensOf
  <2> HIDE DEF SlotsOf, TokensOf
  <2> QED
    BY <2>1, <2>2 DEF Slots, Tokens, Runs
<1>5. Slots' <= Limit /\ Tokens' <= Reserved
  <2>1. Limit \in Nat /\ Reserved \in Int /\ Reserved' = Reserved /\ Slots <= Limit /\ Tokens <= Reserved
    BY RefresherAssumption DEF RefresherInv, Reserved
  <2> HIDE DEF Slots, Tokens, SlotsOf, TokensOf, SlotsIn, TokensIn, Reserved
  <2>2. Slots' <= Limit
    BY <1>2, <1>3, <1>4, <2>1
  <2>3. Tokens' <= Reserved
    BY <1>2, <1>3, <1>4, <2>1
  <2> QED
    BY <2>2, <2>3
<1>6. \A s \in Runs : RunSound(run'[s])
  BY <1>2 DEF RefresherInv
<1>7. stopping' = "closed" => \A s \in Runs : run'[s].at \in {"idle", "done"}
  BY <1>2 DEF RefresherInv
<1> QED
  BY <1>1, <1>5, <1>6, <1>7 DEF RefresherInv, Reserved

LEMMA RefresherStep == RefresherInv /\ [RefresherNext]_refresherVars => RefresherInv'
<1> SUFFICES ASSUME RefresherInv, [RefresherNext]_refresherVars PROVE RefresherInv'
  OBVIOUS
<1>0. /\ RefresherTypeOK /\ \A r \in Runs : run[r] \in RunRecords /\ RunSound(run[r])
      /\ recent \subseteq {"following", "schedule"} /\ Limit \in Nat /\ MaxJobs \in Nat
  BY RefresherAssumption DEF RefresherInv, RefresherTypeOK, RunRecords, Phases
<1>1. ASSUME NEW r \in Runs, Call(r) PROVE RefresherInv'
  <2> PICK force \in BOOLEAN, count \in 0..MaxJobs :
        /\ IF r = "lookup" THEN UNCHANGED recent ELSE Attempt(r, force) /\ recent' = recent \cup {r}
        /\ StartRun(r, r = "following" \/ (r = "schedule" /\ ~force), count)
    BY <1>1 DEF Call
  <2>1. PICK background \in BOOLEAN : StartRun(r, background, count)
    OBVIOUS
  <2> DEFINE q == IF stopping # "no" \/ count = 0 THEN [NoRun EXCEPT !.at = "done"]
                  ELSE [NoRun EXCEPT !.at = IF background THEN "token" ELSE "slot",
                                    !.background = background, !.left = count]
  <2>2. run' = [run EXCEPT ![r] = q]
    BY <2>1 DEF StartRun
  <2>3. q \in RunRecords /\ RunSound(q) /\ q.live = 0 /\ q.at # "check" /\ (stopping = "closed" => q.at = "done")
        /\ (q.at = "slot" => ~q.background)
    <3>1. CASE stopping # "no" \/ count = 0
      <4>1. q = [at |-> "done", background |-> FALSE, left |-> 0, live |-> 0, ended |-> FALSE]
        BY <3>1 DEF NoRun
      <4> HIDE DEF q
      <4> QED
        BY <1>0, <4>1 DEF RunRecords, Phases, RunSound
    <3>2. CASE ~(stopping # "no" \/ count = 0)
      <4>1. q = [at |-> IF background THEN "token" ELSE "slot", background |-> background,
                 left |-> count, live |-> 0, ended |-> FALSE]
        BY <3>2 DEF NoRun
      <4> HIDE DEF q
      <4>2. q \in RunRecords /\ q.left = count /\ q.live = 0 /\ q.background = background
            /\ q.at = (IF background THEN "token" ELSE "slot")
        BY <1>0, <4>1 DEF RunRecords, Phases
      <4>3. count + 0 <= MaxJobs /\ count > 0
        BY <1>0, <3>2
      <4> QED
        BY <3>2, <4>2, <4>3 DEF RunSound
    <3> QED
      BY <3>1, <3>2
  <2>4. run[r].at = "idle" /\ run[r].live = 0 /\ stopping' = stopping
    BY <1>0, <1>1 DEF Call, RunSound
  <2>5. recent' \subseteq {"following", "schedule"}
    BY <1>0 DEF Runs
  <2> HIDE DEF q
  <2>6. SlotsIn(q) <= SlotsIn(run[r]) /\ TokensIn(q) <= TokensIn(run[r])
    BY <2>3, <2>4 DEF SlotsIn, TokensIn
  <2> QED
    BY <2>2, <2>3, <2>4, <2>5, <2>6, OneRunSteps
<1>2. ASSUME NEW r \in Runs, RunStep(r) PROVE RefresherInv'
  <2>0. recent' = recent /\ stopping' = stopping
    BY <1>2 DEF RunStep
  <2>1. CASE TakeToken(r)
    <3> DEFINE q == [run[r] EXCEPT !.at = "slot"]
    <3>1. run' = [run EXCEPT ![r] = q] /\ run[r].at = "token" /\ Tokens < Reserved
      BY <2>1 DEF TakeToken
    <3>2. q \in RunRecords /\ RunSound(q) /\ stopping # "closed"
      BY <1>0, <3>1 DEF RunRecords, Phases, RunSound, RefresherInv
    <3>3. SlotsIn(q) <= SlotsIn(run[r])
      BY <1>0, <3>1 DEF RunRecords, SlotsIn
    <3>4. TokensIn(q) <= TokensIn(run[r]) \/ (TokensIn(q) = TokensIn(run[r]) + 1 /\ Tokens < Reserved)
      BY <1>0, <3>1 DEF RunRecords, SlotsIn, TokensIn
    <3> HIDE DEF q
    <3> QED
      BY <1>0, <2>0, <3>1, <3>2, <3>3, <3>4, OneRunSteps
  <2>2. CASE TakeSlot(r)
    <3> DEFINE q == [run[r] EXCEPT !.at = "check"]
    <3>1. run' = [run EXCEPT ![r] = q] /\ run[r].at = "slot" /\ Slots < Limit
      BY <2>2 DEF TakeSlot
    <3>2. q \in RunRecords /\ RunSound(q) /\ stopping # "closed"
      BY <1>0, <3>1 DEF RunRecords, Phases, RunSound, RefresherInv
    <3>3. SlotsIn(q) = SlotsIn(run[r]) + 1 /\ Slots < Limit
      BY <1>0, <3>1 DEF RunRecords, SlotsIn
    <3>4. TokensIn(q) <= TokensIn(run[r])
      BY <1>0, <3>1 DEF RunRecords, SlotsIn, TokensIn
    <3> HIDE DEF q
    <3> QED
      BY <1>0, <2>0, <3>1, <3>2, <3>3, <3>4, OneRunSteps
  <2>3. CASE StartJob(r)
    <3>0. PICK next : /\ next = (IF run[r].left = 1 THEN "wait" ELSE IF run[r].background THEN "token" ELSE "slot")
                      /\ run' = [run EXCEPT ![r] = [run[r] EXCEPT !.live = @ + 1, !.left = @ - 1, !.at = next]]
      BY <2>3 DEF StartJob
    <3> DEFINE q == [run[r] EXCEPT !.live = @ + 1, !.left = @ - 1, !.at = next]
    <3>1. run' = [run EXCEPT ![r] = q] /\ run[r].at = "check" /\ stopping = "no"
      <4>1. run' = [run EXCEPT ![r] = q]
        BY <3>0
      <4> QED
        BY <2>3, <4>1 DEF StartJob
    <3>2. /\ next \in {"wait", "token", "slot"} /\ (next # "wait" => run[r].left # 1)
          /\ (run[r].background => next # "slot")
      <4>1. CASE run[r].left = 1
        BY <3>0, <4>1
      <4>2. CASE run[r].left # 1 /\ run[r].background
        BY <3>0, <4>2
      <4>3. CASE run[r].left # 1 /\ ~run[r].background
        BY <3>0, <4>3
      <4> QED
        BY <4>1, <4>2, <4>3
    <3>3. q \in RunRecords /\ RunSound(q)
      <4>1. /\ run[r] \in RunRecords /\ run[r].left \in Nat /\ run[r].live \in Nat /\ run[r].left > 0
            /\ run[r].left + run[r].live <= MaxJobs
        BY <1>0, <3>1 DEF RunRecords, RunSound
      <4>2. q.left = run[r].left - 1 /\ q.live = run[r].live + 1 /\ q.at = next
        BY <4>1 DEF RunRecords
      <4>3. q.left \in 0..MaxJobs /\ q.live \in 0..MaxJobs /\ q.left + q.live <= MaxJobs /\ (next # "wait" => q.left > 0)
        BY <1>0, <3>2, <4>1, <4>2
      <4>4. q \in RunRecords
        BY <3>2, <4>1, <4>2, <4>3 DEF RunRecords, Phases
      <4> QED
        BY <3>2, <4>2, <4>3, <4>4 DEF RunSound
    <3>4. SlotsIn(q) <= SlotsIn(run[r]) /\ TokensIn(q) <= TokensIn(run[r])
      <4>1. run[r] \in RunRecords /\ run[r].live \in Nat
        BY <1>0 DEF RunRecords
      <4>2. q.live = run[r].live + 1 /\ q.at = next /\ q.background = run[r].background
        BY <4>1 DEF RunRecords
      <4> HIDE DEF q
      <4>3. SlotsIn(q) = run[r].live + 1 /\ SlotsIn(run[r]) = run[r].live + 1
        BY <3>1, <3>2, <4>1, <4>2 DEF SlotsIn
      <4>4. TokensIn(q) = TokensIn(run[r])
        BY <3>1, <3>2, <4>2, <4>3, <4>1 DEF TokensIn
      <4>5. TokensIn(run[r]) \in Nat
        BY <4>1, <4>3 DEF TokensIn
      <4> QED
        BY <4>1, <4>3, <4>4, <4>5
    <3> HIDE DEF q
    <3> QED
      BY <1>0, <2>0, <3>1, <3>3, <3>4, OneRunSteps
  <2>4. CASE RunReturns(r)
    <3> DEFINE q == [run[r] EXCEPT !.at = "done"]
    <3>1. run' = [run EXCEPT ![r] = q] /\ run[r].at = "wait" /\ run[r].live = 0
      BY <2>4 DEF RunReturns
    <3>2. q \in RunRecords /\ RunSound(q) /\ q.at = "done"
      BY <1>0, <3>1 DEF RunRecords, Phases, RunSound
    <3>3. SlotsIn(q) <= SlotsIn(run[r]) /\ TokensIn(q) <= TokensIn(run[r])
      BY <1>0, <3>1 DEF RunRecords, SlotsIn, TokensIn
    <3> HIDE DEF q
    <3> QED
      BY <1>0, <2>0, <3>1, <3>2, <3>3, OneRunSteps
  <2>5. CASE EndContext(r)
    <3> DEFINE q == [run[r] EXCEPT !.ended = TRUE]
    <3>1. run' = [run EXCEPT ![r] = q] /\ run[r].at \notin {"idle", "done"}
      BY <2>5 DEF EndContext
    <3>2. q \in RunRecords /\ RunSound(q) /\ stopping # "closed"
      BY <1>0, <3>1 DEF RunRecords, Phases, RunSound, RefresherInv
    <3>3. SlotsIn(q) <= SlotsIn(run[r]) /\ TokensIn(q) <= TokensIn(run[r])
      BY <1>0 DEF RunRecords, SlotsIn, TokensIn
    <3> HIDE DEF q
    <3> QED
      BY <1>0, <2>0, <3>1, <3>2, <3>3, OneRunSteps
  <2> QED
    BY <1>2, <2>1, <2>2, <2>3, <2>4, <2>5 DEF RunStep
<1>3. ASSUME NEW r \in Runs, GiveUp(r) PROVE RefresherInv'
  <2> DEFINE q == [run[r] EXCEPT !.left = 0, !.at = "wait"]
  <2>1. run' = [run EXCEPT ![r] = q] /\ run[r].at \in {"token", "slot", "check"} /\ recent' = recent /\ stopping' = stopping
    BY <1>3 DEF GiveUp
  <2>2. q \in RunRecords /\ RunSound(q) /\ stopping # "closed"
    <3>0. 0 \in 0..MaxJobs /\ run[r] \in RunRecords
      BY <1>0
    <3>1. q \in RunRecords /\ q.left = 0 /\ q.at = "wait" /\ q.live = run[r].live /\ q.live \in 0..MaxJobs
      BY <3>0 DEF RunRecords, Phases
    <3> HIDE DEF q
    <3>2. RunSound(q)
      BY <1>0, <3>1 DEF RunSound
    <3> QED
      BY <2>1, <3>1, <3>2 DEF RefresherInv
  <2>3. SlotsIn(q) <= SlotsIn(run[r]) /\ TokensIn(q) <= TokensIn(run[r])
    BY <1>0, <2>1 DEF RunRecords, SlotsIn, TokensIn
  <2> HIDE DEF q
  <2> QED
    BY <1>0, <2>1, <2>2, <2>3, OneRunSteps
<1>4. ASSUME NEW r \in Runs, JobEnds(r) PROVE RefresherInv'
  <2> DEFINE q == [run[r] EXCEPT !.live = @ - 1]
  <2>1. run' = [run EXCEPT ![r] = q] /\ run[r].live > 0 /\ recent' = recent /\ stopping' = stopping
    BY <1>4 DEF JobEnds
  <2>2. q \in RunRecords /\ RunSound(q) /\ stopping # "closed"
    BY <1>0, <2>1 DEF RunRecords, Phases, RunSound, RefresherInv
  <2>3. SlotsIn(q) <= SlotsIn(run[r]) /\ TokensIn(q) <= TokensIn(run[r])
    BY <1>0, <2>1 DEF RunRecords, SlotsIn, TokensIn
  <2> HIDE DEF q
  <2> QED
    BY <1>0, <2>1, <2>2, <2>3, OneRunSteps
<1>5. ASSUME NEW r \in Runs, ReturnTold(r) PROVE RefresherInv'
  <2>1. run' = [run EXCEPT ![r] = NoRun] /\ run[r].at = "done" /\ recent' = recent /\ stopping' = stopping
    BY <1>5 DEF ReturnTold
  <2>2. NoRun \in RunRecords /\ RunSound(NoRun) /\ NoRun.at = "idle"
    BY <1>0 DEF NoRun, RunRecords, Phases, RunSound
  <2>3. SlotsIn(NoRun) <= SlotsIn(run[r]) /\ TokensIn(NoRun) <= TokensIn(run[r])
    BY <1>0 DEF NoRun, RunRecords, SlotsIn, TokensIn
  <2> QED
    BY <1>0, <2>1, <2>2, <2>3, OneRunSteps
<1>6. CASE LeaveDetail
  <2> DEFINE r == "lookup"
             q == [run[r] EXCEPT !.ended = TRUE]
  <2>1. r \in Runs /\ run' = [run EXCEPT ![r] = q] /\ run[r].at \notin {"idle", "done"}
        /\ recent' = recent /\ stopping' = stopping
    BY <1>6 DEF LeaveDetail, Runs
  <2>2. q \in RunRecords /\ RunSound(q) /\ stopping # "closed"
    BY <1>0, <2>1 DEF RunRecords, Phases, RunSound, RefresherInv
  <2>3. SlotsIn(q) <= SlotsIn(run[r]) /\ TokensIn(q) <= TokensIn(run[r])
    BY <1>0, <2>1 DEF RunRecords, SlotsIn, TokensIn
  <2> HIDE DEF q
  <2> QED
    BY <1>0, <2>1, <2>2, <2>3, OneRunSteps
<1>7. CASE IntervalPasses \/ CloseRefresher \/ RefresherClosed \/ UNCHANGED refresherVars
  <2>1. run' = run /\ recent' \subseteq recent /\ stopping' \in {"no", "closing", "closed"}
        /\ (stopping' = "closed" => \A r \in Runs : run[r].at \in {"idle", "done"})
    BY <1>7 DEF IntervalPasses, CloseRefresher, RefresherClosed, refresherVars, RefresherInv, RefresherTypeOK
  <2>2. RefresherTypeOK'
    BY <1>0, <2>1 DEF RefresherTypeOK
  <2>3. Slots' = Slots /\ Tokens' = Tokens
    BY <2>1 DEF Slots, Tokens, SlotsOf, TokensOf
  <2> QED
    BY <1>0, <2>1, <2>2, <2>3 DEF RefresherInv, Reserved
<1> QED
  BY <1>1, <1>2, <1>3, <1>4, <1>5, <1>6, <1>7 DEF RefresherNext

\* For any number of slots of at least two, and of jobs a run: when every slot
\* is taken, one of them is held by a run the user asked for, and no job runs
\* once Close has returned.
THEOREM UserIsNotKeptWaiting == RefresherSpec => []BackgroundLeavesOne
<1>1. RefresherInit => RefresherInv
  <2> SUFFICES ASSUME RefresherInit PROVE RefresherInv
    OBVIOUS
  <2>1. RefresherTypeOK /\ \A r \in Runs : run[r] = NoRun
    BY RefresherAssumption DEF RefresherInit, RefresherTypeOK, NoRun
  <2>2. \A r \in Runs : RunSound(run[r]) /\ SlotsOf(r) = 0 /\ TokensOf(r) = 0
    BY <2>1, RefresherAssumption DEF NoRun, RunSound, SlotsOf, TokensOf
  <2>3. Slots = 0 /\ Tokens = 0
    BY <2>2 DEF Slots, Tokens, Runs
  <2> QED
    BY <2>1, <2>2, <2>3, RefresherAssumption DEF RefresherInv, Reserved, RefresherInit
<1>2. RefresherInv => BackgroundLeavesOne
  <2> SUFFICES ASSUME RefresherInv PROVE BackgroundLeavesOne
    OBVIOUS
  <2>1. \A r \in Runs : SlotsOf(r) \in Nat /\ TokensOf(r) \in Nat
    BY HeldTypes DEF RefresherInv
  <2>2. ASSUME \A r \in Runs : ~(~run[r].background /\ SlotsOf(r) > 0) PROVE Slots # Limit
    <3>1. \A r \in Runs : SlotsOf(r) <= TokensOf(r)
      BY <2>1, <2>2 DEF RefresherInv, RefresherTypeOK, TokensOf
    <3> HIDE DEF SlotsOf, TokensOf
    <3>2. Slots <= Tokens
      BY <2>1, <3>1 DEF Slots, Tokens, Runs
    <3>3. Slots \in Nat /\ Tokens \in Nat
      BY <2>1 DEF Slots, Tokens, Runs
    <3> QED
      BY <3>2, <3>3, RefresherAssumption DEF RefresherInv, Reserved
  <2>3. stopping = "closed" => Slots = 0
    <3>1. stopping = "closed" => \A r \in Runs : SlotsOf(r) = 0
      BY DEF RefresherInv, RefresherTypeOK, RunSound, SlotsOf
    <3> HIDE DEF SlotsOf
    <3> QED
      BY <3>1 DEF Slots, Runs
  <2> QED
    BY <2>2, <2>3 DEF RefresherInv, BackgroundLeavesOne
<1> QED
  BY <1>1, <1>2, RefresherStep, PTL DEF RefresherSpec

-----------------------------------------------------------------------------
(* The player's control. Views are numbered as they begin: what is left to *)
(* do is compared with the view, and each job ends before a later one is   *)
(* begun. The invariant says which job, load, file and posted update can   *)
(* still be of the view, and of which views a failure was shown.           *)

PlaySteps   == {"play", "loading", "loaded", "returned", "select", "clear", "erred", "revert", "report"}
LoadedSteps == {"loaded", "returned", "select", "clear"}
CloseSteps  == {"close", "endClear", "deactivate"}
Files       == {"none", "loading", "playing", "failed", "ended"}
TellKinds   == {"start", "failure", "end"}

Ends    == [view : Nat, gen : Nat \ {0}, ep : Episodes \ {Last}, file : Episodes]
Updates == [kind : {"load"}]
           \cup [kind : TellKinds, id : Nat \ {0}, gen : Nat \ {0}, view : Nat \ {0}, ep : Episodes]
           \cup [kind : {"list", "stopped", "timeout"}, view : Nat \ {0}]
           \cup [kind : {"decide"}, end : Ends, next : BOOLEAN]
           \cup [kind : {"failed"}, job : Jobs]

ControlTyped ==
  /\ {view, actionView, expected, handled, active, engines} \subseteq Nat
  /\ {awaiting, known, revived} \subseteq BOOLEAN
  /\ selection \in Episodes \cup {None} /\ (selection = None => view = 0 /\ ~screen.shown)
  /\ screen \in [shown : BOOLEAN, playing : BOOLEAN, loading : BOOLEAN]
  /\ watch \in [view : Nat, armed : BOOLEAN] /\ (watch.armed => watch.view # None)
  /\ deciding \subseteq Ends
  /\ jobs \in Seq(Jobs) /\ updates \in Seq(Updates)
  /\ worker \in [job : Jobs, step : PlaySteps \cup CloseSteps \cup {"idle"}]
  /\ engine \in [id : Nat, gen : Nat, view : Nat, ep : Episodes \cup {None}, file : Files]
  /\ engine.id \in {None, engines} /\ active \in {None, engines}
  /\ notices = [v \in DOMAIN notices |-> notices[v]]

\* The job a posted outcome is of.
IsOutcome(u) == u.kind \in {"failed", "stopped"}
Of(u) == IF u.kind = "failed" THEN u.job.view ELSE u.view

\* Jobs run in the order of their views, each to its outcome.
JobsInOrder ==
  /\ \A i, j \in DOMAIN jobs : i < j => jobs[i].view < jobs[j].view
  /\ \A i \in DOMAIN jobs : /\ jobs[i].kind # "none" /\ 0 < jobs[i].view /\ jobs[i].view <= view
                            /\ jobs[i].kind \in {"play", "select"} => jobs[i].ep # None
  /\ worker.step = "idle" <=> worker.job = NoJob
  /\ worker.step # "idle" => 
       /\ 0 < worker.job.view /\ worker.job.view <= view
       /\ \A i \in DOMAIN jobs : worker.job.view < jobs[i].view
       /\ \A i \in DOMAIN updates : IsOutcome(updates[i]) => Of(updates[i]) < worker.job.view
  /\ worker.step \in PlaySteps => worker.job.kind \in {"play", "select"} /\ worker.job.ep # None
                                  /\ actionView = worker.job.view
  /\ worker.step \in CloseSteps => worker.job.kind \in {"end", "stop"}
  /\ \A i \in DOMAIN updates : IsOutcome(updates[i]) =>
       /\ 0 < Of(updates[i]) /\ Of(updates[i]) <= view
       /\ \A k \in DOMAIN jobs : Of(updates[i]) < jobs[k].view
  /\ \A i, k \in DOMAIN updates : IsOutcome(updates[i]) /\ IsOutcome(updates[k]) /\ i # k =>
       Of(updates[i]) # Of(updates[k])

\* The load that waits for the UI thread is the worker's.
OneLoad ==
  /\ worker.step = "loading" <=> \E i \in DOMAIN updates : updates[i].kind = "load"
  /\ \A i, k \in DOMAIN updates : updates[i].kind = "load" /\ updates[k].kind = "load" => i = k

\* What the open engine has loaded, and what is told of it.
OfEngine(u) == u.kind \in TellKinds /\ u.id = engine.id /\ u.gen = engine.gen
Loaded == engine.file # "none"

EngineIsOwn ==
  /\ engine.file = "none" <=> engine.gen = None
  /\ engine.id # None => active = engine.id
  /\ worker.step \in {"endClear", "deactivate"} => engine.id = None
  /\ worker.step = "loading" => engine.id # None
  /\ Loaded => /\ engine.id # None /\ 0 < engine.view /\ engine.view <= view /\ engine.ep # None
               /\ engine.view = view => expected = engine.gen
               /\ \A i \in DOMAIN jobs : engine.view < jobs[i].view
               /\ worker.step # "idle" => engine.view <= worker.job.view
               /\ worker.step # "idle" /\ engine.view = worker.job.view =>
                    worker.step \in LoadedSteps \/ (worker.step \in {"erred", "report"} /\ ~Current)
               /\ \A i \in DOMAIN updates : updates[i].kind = "failed" /\ updates[i].job.view = engine.view =>
                    engine.view # view
  /\ \A i \in DOMAIN updates : updates[i].kind \in TellKinds =>
       /\ updates[i].id <= engines /\ updates[i].view <= view
       /\ updates[i].id = engine.id => updates[i].gen <= engine.gen
       /\ OfEngine(updates[i]) => updates[i].view = engine.view

\* The first frame of what the view loaded is heard.
FrameIsHeard ==
  engine.file = "playing" /\ engine.view = view /\ watch.view = view =>
    \E i \in DOMAIN updates : updates[i].kind = "start" /\ OfEngine(updates[i])

\* A failure of the open file is told once.
FailureIsOnce ==
  /\ \A i \in DOMAIN updates : updates[i].kind = "failure" /\ OfEngine(updates[i]) => engine.file = "failed"
  /\ \A i, k \in DOMAIN updates : updates[i].kind = "failure" /\ OfEngine(updates[i])
       /\ updates[k].kind = "failure" /\ OfEngine(updates[k]) => i = k

\* The open file can still be heard to fail.
MayFail ==
  \/ engine.file \in {"loading", "playing"}
  \/ \E i \in DOMAIN updates : updates[i].kind = "failure" /\ OfEngine(updates[i])

\* The worker's job can still be reverted.
MayRevert == \/ worker.step \in {"play", "loading", "revert"}
             \/ worker.step = "erred" /\ Current

\* A start that was reported is not reported again, by any of the ways.
Notices ==
  /\ \A v \in DOMAIN notices : notices[v] = 1 /\ v \in Nat /\ v <= view /\ 0 < v
  /\ view \in DOMAIN notices =>
       /\ watch.view # view
       /\ \A i \in DOMAIN updates : updates[i].kind = "failed" => updates[i].job.view # view
       /\ \A i \in DOMAIN jobs : jobs[i].view # view
       /\ worker.step # "idle" /\ Current => worker.step \in LoadedSteps
  /\ Loaded /\ engine.view \in DOMAIN notices /\ MayFail =>
       /\ expected = None
       /\ \A i \in DOMAIN jobs : jobs[i].before = None
       /\ MayRevert => worker.job.before = None

\* The start of the view has not loaded yet, or was refused.
Unloaded(kind) ==
  \/ \E i \in DOMAIN jobs : jobs[i].kind = kind /\ jobs[i].view = view
  \/ worker.job.kind = kind /\ Current /\ worker.step \notin LoadedSteps
  \/ \E i \in DOMAIN updates : updates[i].kind = "failed" /\ updates[i].job.kind = kind /\ updates[i].job.view = view

\* A player that is being left, or waits for its first episode, hears nothing;
\* one that was left has nothing to do, and its file is closed or reported.
Silent ==
  /\ (\E i \in DOMAIN updates : updates[i].kind = "stopped" /\ updates[i].view = view) => engine.file = "none"
  /\ ~revived =>
       /\ Leaving(view) => expected = None /\ watch.view # view
       /\ Unloaded("play") => expected = None
       /\ ~screen.shown => /\ expected = None /\ (watch.view # view \/ view = 0)
                           /\ jobs = <<>> /\ worker.step = "idle"
                           /\ \A i \in DOMAIN updates : updates[i].kind = "failed" => updates[i].job.view # view
                           /\ engine.file = "none" \/ view \in DOMAIN notices

ControlInv == /\ ControlTyped /\ JobsInOrder /\ OneLoad /\ EngineIsOwn /\ FrameIsHeard /\ FailureIsOnce
              /\ Notices /\ Silent

\* What an append does to the places of a sequence.
LEMMA Appended ==
  ASSUME NEW S, NEW s \in Seq(S), NEW e \in S
  PROVE  /\ Append(s, e) \in Seq(S)
         /\ Len(s) + 1 \in DOMAIN Append(s, e) /\ Append(s, e)[Len(s) + 1] = e
         /\ \A i \in DOMAIN s : i \in Nat /\ i < Len(s) + 1 /\ i \in DOMAIN Append(s, e) /\ Append(s, e)[i] = s[i]
         /\ \A i \in DOMAIN Append(s, e) : i \in Nat /\ (i \in DOMAIN s \/ i = Len(s) + 1)
         /\ Len(s) + 1 \in Nat
OBVIOUS

\* What a removal of the head does to them.
LEMMA Shifted ==
  ASSUME NEW S, NEW s \in Seq(S), s # <<>>
  PROVE  /\ Tail(s) \in Seq(S) /\ 1 \in DOMAIN s /\ Head(s) = s[1] /\ s[1] \in S
         /\ \A i \in DOMAIN Tail(s) : i \in Nat /\ i + 1 \in DOMAIN s /\ Tail(s)[i] = s[i + 1] /\ 1 < i + 1
         /\ \A i \in DOMAIN s : i \in Nat /\ (i = 1 \/ (i - 1 \in DOMAIN Tail(s) /\ Tail(s)[i - 1] = s[i]))
OBVIOUS

\* What a step does to the updates: n of them have run, and e may be new.
Moved(n, e) ==
  /\ n \in {0, 1}
  /\ \A i \in DOMAIN updates' : /\ i \in Nat
                                /\ \/ i + n \in DOMAIN updates /\ updates'[i] = updates[i + n]
                                   \/ n = 0 /\ i = Len(updates) + 1 /\ updates'[i] = e
  /\ \A i \in DOMAIN updates : \/ n = 1 /\ i = 1
                               \/ \E k \in DOMAIN updates' : i = k + n /\ updates'[k] = updates[i]

Nothing == [kind |-> "nothing"]
Quiet(e) == e.kind \in {"nothing", "list", "timeout", "decide"}

\* A step that leaves the updates as they are.
LEMMA Rested == ControlTyped /\ updates' = updates => Moved(0, Nothing)
<1> SUFFICES ASSUME ControlTyped, updates' = updates PROVE Moved(0, Nothing)
  OBVIOUS
<1>1. updates \in Seq(Updates)
  BY DEF ControlTyped
<1>2. \A i \in DOMAIN updates : i \in Nat /\ i + 0 = i
  BY <1>1
<1> QED
  BY <1>2 DEF Moved

\* A step that posts one.
LEMMA Posted ==
  ASSUME ControlTyped, NEW u \in Updates, Post(u)
  PROVE  Moved(0, u) /\ updates' \in Seq(Updates) /\ \E i \in DOMAIN updates' : updates'[i] = u
<1>1. updates \in Seq(Updates) /\ updates' = Append(updates, u)
  BY DEF ControlTyped, Post
<1>2. /\ Append(updates, u) \in Seq(Updates)
      /\ Len(updates) + 1 \in DOMAIN Append(updates, u) /\ Append(updates, u)[Len(updates) + 1] = u
      /\ \A i \in DOMAIN updates : i \in Nat /\ i < Len(updates) + 1 /\ i \in DOMAIN Append(updates, u) /\ Append(updates, u)[i] = updates[i]
      /\ \A i \in DOMAIN Append(updates, u) : i \in Nat /\ (i \in DOMAIN updates \/ i = Len(updates) + 1)
  BY <1>1, Appended
<1>3. \A i \in DOMAIN updates' : /\ i \in Nat
                                /\ \/ i + 0 \in DOMAIN updates /\ updates'[i] = updates[i + 0]
                                   \/ i = Len(updates) + 1 /\ updates'[i] = u
  <2> TAKE i \in DOMAIN updates'
  <2>1. i \in Nat /\ i + 0 = i
    BY <1>1, <1>2
  <2> QED
    BY <1>1, <1>2, <2>1
<1>4. \A i \in DOMAIN updates : \E k \in DOMAIN updates' : i = k + 0 /\ updates'[k] = updates[i]
  <2> TAKE i \in DOMAIN updates
  <2>1. i \in DOMAIN updates' /\ i = i + 0 /\ updates'[i] = updates[i]
    BY <1>1, <1>2
  <2> QED
    BY <2>1
<1> QED
  BY <1>1, <1>2, <1>3, <1>4 DEF Moved

\* A step that runs the first.
LEMMA Ran ==
  ASSUME ControlTyped, NEW kind, Next1(kind)
  PROVE  /\ Moved(1, Nothing) /\ updates' \in Seq(Updates)
         /\ 1 \in DOMAIN updates /\ Update = updates[1] /\ Update.kind = kind /\ Update \in Updates
<1>1. updates \in Seq(Updates) /\ updates # <<>> /\ updates' = Tail(updates) /\ Update = Head(updates) /\ Update.kind = kind
  BY DEF ControlTyped, Next1, Update
<1>2. /\ Tail(updates) \in Seq(Updates) /\ 1 \in DOMAIN updates /\ Head(updates) = updates[1] /\ updates[1] \in Updates
      /\ \A i \in DOMAIN Tail(updates) : i \in Nat /\ i + 1 \in DOMAIN updates /\ Tail(updates)[i] = updates[i + 1] /\ 1 < i + 1
      /\ \A i \in DOMAIN updates : i \in Nat /\ (i = 1 \/ (i - 1 \in DOMAIN Tail(updates) /\ Tail(updates)[i - 1] = updates[i]))
  BY <1>1, Shifted
<1>3. \A i \in DOMAIN updates : i = 1 \/ \E k \in DOMAIN updates' : i = k + 1 /\ updates'[k] = updates[i]
  <2> TAKE i \in DOMAIN updates
  <2>1. CASE i = 1
    BY <2>1
  <2>2. CASE i # 1
    <3>1. i - 1 \in DOMAIN updates' /\ updates'[i - 1] = updates[i] /\ i \in Nat
      BY <1>1, <1>2, <2>2
    <3>2. i = (i - 1) + 1
      BY <3>1
    <3> QED
      BY <3>1, <3>2
  <2> QED
    BY <2>1, <2>2
<1> QED
  BY <1>1, <1>2, <1>3 DEF Moved

\* What the views, generations and engines are numbered with.
LEMMA Numbers ==
  ASSUME ControlTyped
  PROVE  /\ view \in Nat /\ engine.view \in Nat /\ engine.gen \in Nat /\ engine.id \in Nat /\ engines \in Nat
         /\ worker.job.view \in Nat /\ worker.job \in Jobs /\ expected \in Nat
         /\ \A i \in DOMAIN jobs : i \in Nat /\ jobs[i].view \in Nat /\ jobs[i] \in Jobs
         /\ \A i \in DOMAIN updates :
              /\ i \in Nat /\ updates[i] \in Updates
              /\ IsOutcome(updates[i]) => Of(updates[i]) \in Nat
              /\ updates[i].kind = "failed" => updates[i].job \in Jobs /\ updates[i].job.view \in Nat
              /\ updates[i].kind \in TellKinds => updates[i].id \in Nat \ {0} /\ updates[i].gen \in Nat \ {0} /\ updates[i].view \in Nat
<1>1. worker.job \in Jobs /\ jobs \in Seq(Jobs) /\ updates \in Seq(Updates)
      /\ view \in Nat /\ engine.view \in Nat /\ engine.gen \in Nat /\ engine.id \in Nat /\ engines \in Nat /\ expected \in Nat
  BY DEF ControlTyped
<1>2. \A j \in Jobs : j.view \in Nat
  BY DEF Jobs
<1>3. ASSUME NEW u \in Updates
      PROVE  /\ IsOutcome(u) => Of(u) \in Nat
             /\ u.kind = "failed" => u.job \in Jobs
             /\ u.kind \in TellKinds => u.id \in Nat \ {0} /\ u.gen \in Nat \ {0} /\ u.view \in Nat
  <2>1. u.kind = "failed" => u.job \in Jobs
    BY DEF Updates, TellKinds
  <2>2. u.kind \in TellKinds => u.id \in Nat \ {0} /\ u.gen \in Nat \ {0} /\ u.view \in Nat
    BY DEF Updates, TellKinds
  <2>3. u.kind = "stopped" => u.view \in Nat
    BY DEF Updates, TellKinds
  <2> QED
    BY <1>2, <2>1, <2>2, <2>3 DEF IsOutcome, Of
<1> QED
  BY <1>1, <1>2, <1>3

\* The order of the jobs when none comes or goes, and the worker ends its job at most.
LEMMA JobsStay ==
  ASSUME ControlTyped, JobsInOrder, NEW n, NEW e, Moved(n, e),
         IsOutcome(e) => worker.step # "idle" /\ worker' = Idle /\ Of(e) = worker.job.view,
         UNCHANGED <<view, jobs, actionView>>,
         \/ worker' = Idle
         \/ /\ worker'.job = worker.job /\ worker'.step # "idle" /\ worker.step # "idle"
            /\ worker'.step \in PlaySteps => worker.step \in PlaySteps
            /\ worker'.step \in CloseSteps => worker.step \in CloseSteps
         \/ worker' = worker
  PROVE  JobsInOrder'
<1>1. /\ \A i \in DOMAIN updates' : IsOutcome(updates'[i]) =>
           \/ i + n \in DOMAIN updates /\ updates'[i] = updates[i + n]
           \/ i = Len(updates) + 1 /\ updates'[i] = e
      /\ \A i \in DOMAIN updates' : i \in Nat
      /\ n \in Nat
  BY DEF Moved
<1>2. \A i \in DOMAIN updates' : IsOutcome(updates'[i]) =>
       /\ 0 < Of(updates'[i]) /\ Of(updates'[i]) <= view
       /\ \A k \in DOMAIN jobs : Of(updates'[i]) < jobs[k].view
  BY <1>1 DEF JobsInOrder
<1>3. \A i, k \in DOMAIN updates' : IsOutcome(updates'[i]) /\ IsOutcome(updates'[k]) /\ i # k =>
       Of(updates'[i]) # Of(updates'[k])
  <2> SUFFICES ASSUME NEW i \in DOMAIN updates', NEW k \in DOMAIN updates', IsOutcome(updates'[i]), IsOutcome(updates'[k]), i # k
               PROVE  Of(updates'[i]) # Of(updates'[k])
    OBVIOUS
  <2>1. CASE i + n \in DOMAIN updates /\ updates'[i] = updates[i + n] /\ k + n \in DOMAIN updates /\ updates'[k] = updates[k + n]
    <3>1. i + n # k + n
      BY <1>1
    <3> HIDE DEF IsOutcome, Of
    <3> QED
      BY <2>1, <3>1 DEF JobsInOrder
  <2>2. ASSUME NEW j \in DOMAIN updates, IsOutcome(updates[j]), IsOutcome(e) PROVE Of(updates[j]) # Of(e)
    BY <2>2, Numbers DEF JobsInOrder
  <2>3. CASE i = Len(updates) + 1 /\ updates'[i] = e
    <3>1. k + n \in DOMAIN updates /\ updates'[k] = updates[k + n]
      BY <1>1, <2>3
    <3> QED
      BY <2>2, <2>3, <3>1
  <2>4. CASE k = Len(updates) + 1 /\ updates'[k] = e
    <3>1. i + n \in DOMAIN updates /\ updates'[i] = updates[i + n]
      BY <1>1, <2>4
    <3> QED
      BY <2>2, <2>4, <3>1
  <2> QED
    BY <1>1, <2>1, <2>3, <2>4
<1>4. CASE worker' = Idle
  BY <1>2, <1>3, <1>4 DEF JobsInOrder, Idle, NoJob, PlaySteps, CloseSteps, IsOutcome, Of
<1>5. ASSUME worker'.job = worker.job, worker'.step = "idle" <=> worker.step = "idle", ~IsOutcome(e)
      PROVE  worker'.step # "idle" => \A i \in DOMAIN updates' : IsOutcome(updates'[i]) => Of(updates'[i]) < worker'.job.view
  BY <1>1, <1>5 DEF JobsInOrder
<1>6. CASE ~IsOutcome(e) /\ worker'.step # "idle" /\ worker.step # "idle" /\ worker'.job = worker.job
           /\ (worker'.step \in PlaySteps => worker.step \in PlaySteps)
           /\ (worker'.step \in CloseSteps => worker.step \in CloseSteps)
  BY <1>2, <1>3, <1>5, <1>6 DEF JobsInOrder, IsOutcome, Of
<1>7. CASE ~IsOutcome(e) /\ worker' = worker
  BY <1>2, <1>3, <1>5, <1>7 DEF JobsInOrder, IsOutcome, Of
<1> QED
  BY <1>4, <1>6, <1>7 DEF Idle

\* A job joins the queue.
LEMMA Enqueued ==
  ASSUME ControlTyped, NEW job \in Jobs, Enqueue(job)
  PROVE  /\ jobs' \in Seq(Jobs) /\ Len(jobs) + 1 \in Nat
         /\ Len(jobs) + 1 \in DOMAIN jobs' /\ jobs'[Len(jobs) + 1] = job
         /\ \A i \in DOMAIN jobs : i \in Nat /\ i < Len(jobs) + 1 /\ i \in DOMAIN jobs' /\ jobs'[i] = jobs[i]
         /\ \A i \in DOMAIN jobs' : i \in Nat /\ (i \in DOMAIN jobs \/ i = Len(jobs) + 1)
BY Appended DEF ControlTyped, Enqueue

\* The order of the jobs when a view begins: its job is the newest.
LEMMA JobsBegin ==
  ASSUME ControlTyped, JobsInOrder, NEW n, Moved(n, Nothing),
         NEW job \in Jobs, Enqueue(job), job.view = view + 1, job.kind # "none",
         job.kind \in {"play", "select"} => job.ep # None,
         view' = view + 1, UNCHANGED <<worker, actionView>>
  PROVE  JobsInOrder'
<1> DEFINE m == Len(jobs) + 1
<1>1. /\ m \in Nat /\ m \in DOMAIN jobs' /\ jobs'[m] = job
      /\ \A i \in DOMAIN jobs : i \in Nat /\ i < m /\ i \in DOMAIN jobs' /\ jobs'[i] = jobs[i]
      /\ \A i \in DOMAIN jobs' : i \in Nat /\ (i \in DOMAIN jobs \/ i = m)
  BY Enqueued
<1> HIDE DEF m
<1>2. /\ view \in Nat /\ worker.job.view \in Nat
      /\ \A i \in DOMAIN jobs : jobs[i].view \in Nat
      /\ \A i \in DOMAIN updates : i \in Nat /\ (IsOutcome(updates[i]) => Of(updates[i]) \in Nat)
  BY Numbers
<1>3. /\ \A i \in DOMAIN updates' : IsOutcome(updates'[i]) => i \in Nat /\ i + n \in DOMAIN updates /\ updates'[i] = updates[i + n]
      /\ n \in Nat
  BY DEF Moved, Nothing, IsOutcome
<1>4. \A i, j \in DOMAIN jobs' : i < j => jobs'[i].view < jobs'[j].view
  BY <1>1, <1>2 DEF JobsInOrder
<1>5. \A i \in DOMAIN jobs' : /\ jobs'[i].kind # "none" /\ 0 < jobs'[i].view /\ jobs'[i].view <= view'
                              /\ jobs'[i].kind \in {"play", "select"} => jobs'[i].ep # None
  BY <1>1, <1>2 DEF JobsInOrder
<1>6. worker.step # "idle" => 
       /\ 0 < worker.job.view /\ worker.job.view <= view'
       /\ \A i \in DOMAIN jobs' : worker.job.view < jobs'[i].view
       /\ \A i \in DOMAIN updates' : IsOutcome(updates'[i]) => Of(updates'[i]) < worker.job.view
  BY <1>1, <1>2, <1>3 DEF JobsInOrder
<1>7. \A i \in DOMAIN updates' : IsOutcome(updates'[i]) =>
       /\ 0 < Of(updates'[i]) /\ Of(updates'[i]) <= view'
       /\ \A k \in DOMAIN jobs' : Of(updates'[i]) < jobs'[k].view
  BY <1>1, <1>2, <1>3 DEF JobsInOrder
<1>8. \A i, k \in DOMAIN updates' : IsOutcome(updates'[i]) /\ IsOutcome(updates'[k]) /\ i # k =>
       Of(updates'[i]) # Of(updates'[k])
  <2> SUFFICES ASSUME NEW i \in DOMAIN updates', NEW k \in DOMAIN updates', IsOutcome(updates'[i]), IsOutcome(updates'[k]), i # k
               PROVE  Of(updates'[i]) # Of(updates'[k])
    OBVIOUS
  <2>1. i + n # k + n /\ i + n \in DOMAIN updates /\ k + n \in DOMAIN updates
        /\ updates'[i] = updates[i + n] /\ updates'[k] = updates[k + n]
    BY <1>3
  <2> QED
    BY <2>1 DEF JobsInOrder
<1> QED
  BY <1>4, <1>5, <1>6, <1>7, <1>8 DEF JobsInOrder, IsOutcome, Of

\* The worker takes the oldest job or skips it.
LEMMA Taken ==
  ASSUME ControlTyped, JobsInOrder, Take
  PROVE  /\ JobsInOrder' /\ jobs' \in Seq(Jobs) /\ 1 \in DOMAIN jobs
         /\ \A i \in DOMAIN jobs' : i \in Nat /\ i + 1 \in DOMAIN jobs /\ jobs'[i] = jobs[i + 1]
         /\ \/ worker' = worker
            \/ /\ worker'.job = jobs[1] /\ worker'.step \in {"play", "close"}
               /\ worker'.step = "play" <=> jobs[1].kind \in {"play", "select"}
               /\ worker'.step = "play" => jobs[1].view = view
<1>1. /\ Tail(jobs) \in Seq(Jobs) /\ 1 \in DOMAIN jobs /\ Head(jobs) = jobs[1] /\ jobs[1] \in Jobs
      /\ \A i \in DOMAIN Tail(jobs) : i \in Nat /\ i + 1 \in DOMAIN jobs /\ Tail(jobs)[i] = jobs[i + 1] /\ 1 < i + 1
  BY Shifted DEF ControlTyped, Take
<1>2. /\ jobs' = Tail(jobs) /\ worker.step = "idle" /\ worker.job = NoJob
      /\ UNCHANGED <<view, updates>>
      /\ \/ worker' = worker /\ actionView' = actionView
         \/ /\ worker' = [job |-> jobs[1], step |-> "play"] /\ actionView' = jobs[1].view
            /\ jobs[1].kind \in {"play", "select"} /\ jobs[1].view = view
         \/ /\ worker' = [job |-> jobs[1], step |-> "close"] /\ actionView' = actionView
            /\ jobs[1].kind \notin {"play", "select"}
  BY <1>1 DEF Take, Skips, JobsInOrder, ui
<1>3. /\ \A i \in DOMAIN jobs' : i \in Nat /\ i + 1 \in DOMAIN jobs /\ jobs'[i] = jobs[i + 1] /\ jobs[1].view < jobs'[i].view
      /\ \A i, j \in DOMAIN jobs' : i < j => jobs'[i].view < jobs'[j].view
  BY <1>1, <1>2 DEF JobsInOrder
<1>4. jobs[1] # NoJob /\ jobs[1].kind \in {"play", "select", "end", "stop"}
  BY <1>1 DEF JobsInOrder, NoJob, Jobs
<1>5. CASE worker' = worker
  BY <1>1, <1>2, <1>3, <1>5 DEF JobsInOrder, IsOutcome, Of, PlaySteps, CloseSteps
<1>6. CASE worker' = [job |-> jobs[1], step |-> "play"]
  BY <1>1, <1>2, <1>3, <1>4, <1>6 DEF JobsInOrder, IsOutcome, Of, PlaySteps, CloseSteps
<1>7. CASE worker' = [job |-> jobs[1], step |-> "close"]
  BY <1>1, <1>2, <1>3, <1>4, <1>7 DEF JobsInOrder, IsOutcome, Of, PlaySteps, CloseSteps
<1>8. JobsInOrder'
  BY <1>2, <1>5, <1>6, <1>7
<1> QED
  BY <1>1, <1>2, <1>3, <1>8

\* A posted load stays the only one until it runs.
LEMMA LoadStays ==
  ASSUME ControlTyped, OneLoad, NEW n, NEW e, Moved(n, e), e.kind # "load",
         n = 1 => updates[1].kind # "load",
         worker'.step = "loading" <=> worker.step = "loading"
  PROVE  OneLoad'
<1>1. \A i \in DOMAIN updates' : updates'[i].kind = "load" => i \in Nat /\ i + n \in DOMAIN updates /\ updates'[i] = updates[i + n]
  BY DEF Moved
<1>2. \A i \in DOMAIN updates : updates[i].kind = "load" => \E k \in DOMAIN updates' : updates'[k] = updates[i]
  BY DEF Moved
<1>3. \A i, k \in DOMAIN updates' : i + n = k + n => i = k
  BY DEF Moved
<1> QED
  BY <1>1, <1>2, <1>3 DEF OneLoad

\* The worker posts one.
LEMMA LoadPosted ==
  ASSUME ControlTyped, OneLoad, worker.step # "loading", NEW e, Moved(0, e), e.kind = "load",
         \E i \in DOMAIN updates' : updates'[i] = e,
         worker'.step = "loading"
  PROVE  OneLoad'
<1>1. \A i \in DOMAIN updates' : updates'[i].kind = "load" => i = Len(updates) + 1
  BY DEF OneLoad, Moved
<1> QED
  BY <1>1 DEF OneLoad

\* It runs.
LEMMA LoadRan ==
  ASSUME ControlTyped, OneLoad, Moved(1, Nothing), 1 \in DOMAIN updates, updates[1].kind = "load",
         worker'.step # "loading"
  PROVE  OneLoad'
<1>1. \A i \in DOMAIN updates' : i \in Nat /\ i + 1 \in DOMAIN updates /\ updates'[i] = updates[i + 1] /\ i + 1 # 1
  <2>1. updates \in Seq(Updates)
    BY DEF ControlTyped
  <2>2. \A i \in DOMAIN updates' : i \in Nat /\ i + 1 \in DOMAIN updates /\ updates'[i] = updates[i + 1]
    BY DEF Moved
  <2>3. \A i \in DOMAIN updates' : i # 0
    BY <2>1, <2>2
  <2> QED
    BY <2>2, <2>3
<1> QED
  BY <1>1 DEF OneLoad

\* The worker, where the open engine is concerned.
WorkerFits ==
  /\ worker.step \in {"endClear", "deactivate"} => engine.id = None
  /\ worker.step = "loading" => engine.id # None
  /\ Loaded => /\ worker.step # "idle" => engine.view <= worker.job.view
               /\ worker.step # "idle" /\ engine.view = worker.job.view =>
                    worker.step \in LoadedSteps \/ (worker.step \in {"erred", "report"} /\ ~Current)

\* The worker goes on with its job and the engine stays.
LEMMA WorkerGoes ==
  ASSUME EngineIsOwn, UNCHANGED <<view, engine>>,
         \/ worker' = Idle \/ worker' = worker
         \/ /\ worker'.job = worker.job /\ worker.step # "idle"
            /\ worker'.step \in {"endClear", "deactivate"} => worker.step \in {"endClear", "deactivate"}
            /\ worker'.step = "loading" => engine.id # None
            /\ \/ worker.step \in LoadedSteps /\ worker'.step \in LoadedSteps
               \/ worker'.step \in {"erred", "report"} /\ ~Current
               \/ worker.step \notin LoadedSteps /\ worker.step \notin {"erred", "report"}
               \/ worker.step \in {"erred", "report"} /\ Current
  PROVE  WorkerFits'
<1>1. CASE worker' = Idle
  BY <1>1 DEF WorkerFits, Idle
<1>2. CASE worker' = worker
  BY <1>2 DEF WorkerFits, EngineIsOwn, Loaded, Current
<1>3. CASE worker'.job = worker.job /\ worker.step # "idle"
  BY <1>1, <1>2, <1>3 DEF WorkerFits, EngineIsOwn, Loaded, Current, LoadedSteps
<1> QED
  BY <1>1, <1>2, <1>3

\* The jobs are some of the former ones, or begin a view.
JobsOf == \A i \in DOMAIN jobs' : view < jobs'[i].view \/ \E k \in DOMAIN jobs : jobs'[i] = jobs[k]

\* The engine stays, and nothing new is told of it.
LEMMA EngineStays ==
  ASSUME ControlTyped, EngineIsOwn, NEW n, NEW e, Moved(n, e), e.kind \notin TellKinds,
         e.kind = "failed" => e.job.view = worker.job.view /\ worker.step = "report",
         \/ view' = view /\ (expected' = expected \/ (Loaded => engine.view # view))
         \/ view' = view + 1,
         UNCHANGED <<engine, engines>>, active' = active \/ engine.id = None, jobs' \in Seq(Jobs), JobsOf, WorkerFits'
  PROVE  EngineIsOwn'
<1>1. /\ view \in Nat /\ engine.view \in Nat /\ \A i \in DOMAIN jobs : jobs[i].view \in Nat
      /\ \A i \in DOMAIN updates :
              /\ updates[i].kind = "failed" => updates[i].job.view \in Nat
              /\ updates[i].kind \in TellKinds => updates[i].view \in Nat
  BY Numbers
<1>2. \A i \in DOMAIN updates' : \/ \E k \in DOMAIN updates : updates'[i] = updates[k]
                                 \/ updates'[i] = e
  BY DEF Moved
<1>3. Loaded => engine.view < view'  \/ (view' = view /\ engine.view <= view)
  BY <1>1 DEF EngineIsOwn
<1>4. Loaded /\ engine.view = view' => expected' = engine.gen
  BY <1>1, <1>3 DEF EngineIsOwn
<1>5. Loaded => \A i \in DOMAIN jobs' : engine.view < jobs'[i].view
  <2>1. ASSUME Loaded, NEW i \in DOMAIN jobs', view < jobs'[i].view, jobs'[i].view \in Nat PROVE engine.view < jobs'[i].view
    BY <1>1, <2>1 DEF EngineIsOwn
  <2>2. \A i \in DOMAIN jobs' : jobs'[i].view \in Nat
    <3>1. \A j \in Jobs : j.view \in Nat
      BY DEF Jobs
    <3>2. \A i \in DOMAIN jobs' : jobs'[i] \in Jobs
      OBVIOUS
    <3> QED
      BY <3>1, <3>2
  <2> QED
    BY <1>1, <2>1, <2>2 DEF EngineIsOwn, JobsOf
<1>6. Loaded => \A i \in DOMAIN updates' : updates'[i].kind = "failed" /\ updates'[i].job.view = engine.view => engine.view # view'
  <2> SUFFICES ASSUME Loaded, NEW i \in DOMAIN updates', updates'[i].kind = "failed", updates'[i].job.view = engine.view,
                      engine.view = view'
               PROVE  FALSE
    OBVIOUS
  <2>1. view' = view
    BY <1>1, <1>3
  <2>2. CASE updates'[i] = e
    BY <2>1, <2>2 DEF EngineIsOwn, LoadedSteps, Current
  <2>3. CASE \E k \in DOMAIN updates : updates'[i] = updates[k]
    BY <2>1, <2>3 DEF EngineIsOwn
  <2> QED
    BY <1>2, <2>2, <2>3
<1>7. \A i \in DOMAIN updates' : updates'[i].kind \in TellKinds =>
       /\ updates'[i].id <= engines /\ updates'[i].view <= view'
       /\ updates'[i].id = engine.id => updates'[i].gen <= engine.gen
       /\ updates'[i].kind \in TellKinds /\ updates'[i].id = engine.id /\ updates'[i].gen = engine.gen => updates'[i].view = engine.view
  BY <1>1, <1>2 DEF EngineIsOwn, OfEngine
<1>8. view' \in Nat /\ (Loaded => engine.view <= view')
  BY <1>1, <1>3
<1>9. /\ (engine.file = "none" <=> engine.gen = None) /\ (engine.id # None => active' = engine.id)
      /\ Loaded => engine.id # None /\ 0 < engine.view /\ engine.ep # None
  BY DEF EngineIsOwn
<1> QED
  BY <1>4, <1>5, <1>6, <1>7, <1>8, <1>9 DEF EngineIsOwn, WorkerFits, Loaded, OfEngine

\* The session is closed: nothing that is still told is of an open engine.
LEMMA EngineCloses ==
  ASSUME ControlTyped, EngineIsOwn, NEW n, NEW e, Moved(n, e), e.kind \notin TellKinds,
         engine' = NoEngine, UNCHANGED <<view, engines>>, WorkerFits'
  PROVE  EngineIsOwn' /\ FrameIsHeard' /\ FailureIsOnce'
<1>1. \A i \in DOMAIN updates : updates[i].kind \in TellKinds => updates[i].id # None
  BY Numbers DEF None
<1>2. \A i \in DOMAIN updates' : updates'[i].kind \in TellKinds => \E k \in DOMAIN updates : updates'[i] = updates[k]
  BY DEF Moved
<1>3. engine'.id = None /\ engine'.gen = None /\ engine'.file = "none"
  BY DEF NoEngine
<1>4. \A i \in DOMAIN updates' : updates'[i].kind \in TellKinds =>
        updates'[i].id # engine'.id /\ updates'[i].id <= engines' /\ updates'[i].view <= view'
  BY <1>1, <1>2, <1>3 DEF EngineIsOwn
<1>5. EngineIsOwn'
  BY <1>3, <1>4 DEF EngineIsOwn, WorkerFits, Loaded, OfEngine
<1> QED
  BY <1>3, <1>4, <1>5 DEF FrameIsHeard, FailureIsOnce, OfEngine, TellKinds

\* A new engine: nothing that is still told is of it.
LEMMA EngineMade ==
  ASSUME ControlTyped, EngineIsOwn, NEW e, Moved(0, e), e.kind \notin TellKinds,
         engine' = [NoEngine EXCEPT !.id = engines + 1], engines' = engines + 1, active' = engines + 1,
         view' = view, worker'.step = "loading"
  PROVE  EngineIsOwn' /\ FrameIsHeard' /\ FailureIsOnce'
<1>1. \A i \in DOMAIN updates : updates[i].kind \in TellKinds => updates[i].id \in Nat /\ updates[i].id <= engines
  BY Numbers DEF EngineIsOwn
<1>2. \A i \in DOMAIN updates' : updates'[i].kind \in TellKinds => \E k \in DOMAIN updates : updates'[i] = updates[k]
  BY DEF Moved
<1>3. /\ engine'.id = engines + 1 /\ engine'.gen = None /\ engine'.file = "none"
      /\ engines \in Nat /\ engine'.id # None
  BY Numbers DEF NoEngine, None
<1>4. \A i \in DOMAIN updates' : updates'[i].kind \in TellKinds =>
        updates'[i].id # engine'.id /\ updates'[i].id <= engines' /\ updates'[i].view <= view'
  BY <1>1, <1>2, <1>3 DEF EngineIsOwn
<1>5. EngineIsOwn'
  BY <1>3, <1>4 DEF EngineIsOwn, Loaded, OfEngine
<1> QED
  BY <1>3, <1>4, <1>5 DEF FrameIsHeard, FailureIsOnce, OfEngine, TellKinds

\* The file goes on, and that is told.
LEMMA EngineTells ==
  ASSUME ControlTyped, EngineIsOwn, FailureIsOnce,
         NEW kind \in TellKinds, NEW to \in {"playing", "failed", "ended"},
         Moved(0, Told(kind)), Loaded,
         kind = "failure" <=> to = "failed",
         kind = "failure" => engine.file # "failed", engine.file # "failed",
         to = "playing" => kind = "start" /\ \E i \in DOMAIN updates' : updates'[i] = Told(kind),
         engine' = [engine EXCEPT !.file = to],
         UNCHANGED <<view, expected, jobs, worker, active, engines>>
  PROVE  EngineIsOwn' /\ FrameIsHeard' /\ FailureIsOnce'
<1>1. \A i \in DOMAIN updates' : \/ \E k \in DOMAIN updates : updates'[i] = updates[k]
                                 \/ i = Len(updates) + 1 /\ updates'[i] = Told(kind)
  BY DEF Moved
<1>2. engine'.id = engine.id /\ engine'.gen = engine.gen /\ engine'.view = engine.view /\ engine'.ep = engine.ep /\ engine'.file = to
  BY DEF ControlTyped
<1>3. Told(kind).kind = kind /\ Told(kind).id = engine.id /\ Told(kind).gen = engine.gen /\ Told(kind).view = engine.view
  BY DEF Told
<1>4. \A i \in DOMAIN updates' : updates'[i].kind \in TellKinds =>
       /\ updates'[i].id <= engines /\ updates'[i].view <= view
       /\ updates'[i].id = engine.id => updates'[i].gen <= engine.gen
       /\ updates'[i].id = engine.id /\ updates'[i].gen = engine.gen => updates'[i].view = engine.view
  <2>1. engine.id <= engines /\ engine.view <= view /\ engine.gen <= engine.gen
    <3>1. engine.id \in {None, engines} /\ engines \in Nat /\ engine.gen \in Nat
      BY DEF ControlTyped
    <3> QED
      BY <3>1 DEF EngineIsOwn, None
  <2> QED
    BY <1>1, <1>3, <2>1 DEF EngineIsOwn, OfEngine
<1>5. \A i \in DOMAIN updates' : updates'[i].kind = "failed" => \E k \in DOMAIN updates : updates'[i] = updates[k]
  BY <1>1, <1>3 DEF TellKinds
<1>6. EngineIsOwn'
  BY <1>2, <1>4, <1>5 DEF EngineIsOwn, Loaded, OfEngine, Current
<1>7. FrameIsHeard'
  BY <1>2, <1>3 DEF FrameIsHeard, OfEngine, TellKinds
<1>8. \A i \in DOMAIN updates : ~(updates[i].kind = "failure" /\ OfEngine(updates[i]))
  BY DEF FailureIsOnce
<1>9. \A i \in DOMAIN updates' : updates'[i].kind = "failure" /\ updates'[i].id = engine.id /\ updates'[i].gen = engine.gen =>
        i = Len(updates) + 1 /\ kind = "failure"
  BY <1>1, <1>3, <1>8 DEF OfEngine, TellKinds
<1> QED
  BY <1>2, <1>6, <1>7, <1>9 DEF FailureIsOnce, OfEngine

\* The load runs: what was told of the engine's former file is not of this one.
LEMMA EngineLoads ==
  ASSUME ControlTyped, JobsInOrder, EngineIsOwn, Moved(1, Nothing),
         worker.step = "loading", Current,
         engine' = [engine EXCEPT !.gen = @ + 1, !.view = worker.job.view, !.ep = worker.job.ep, !.file = "loading"],
         expected' = IF actionView = view THEN engine.gen + 1 ELSE expected,
         worker' = [worker EXCEPT !.step = "loaded"],
         UNCHANGED <<view, jobs, active, engines>>
  PROVE  EngineIsOwn' /\ FrameIsHeard' /\ FailureIsOnce'
<1>1. \A i \in DOMAIN updates' : updates'[i].kind # "nothing" => \E k \in DOMAIN updates : updates'[i] = updates[k]
  BY DEF Moved, Nothing
<1>2. /\ engine'.id = engine.id /\ engine'.gen = engine.gen + 1 /\ engine'.view = view
      /\ engine'.ep = worker.job.ep /\ engine'.file = "loading"
      /\ worker'.step = "loaded" /\ worker'.job = worker.job
  BY DEF ControlTyped, Current
<1>3. /\ engine.gen \in Nat /\ view \in Nat /\ worker.job.view = view
      /\ \A i \in DOMAIN updates :
              /\ updates[i].kind = "failed" => updates[i].job.view \in Nat
              /\ updates[i].kind \in TellKinds => updates[i].gen \in Nat
  BY Numbers DEF Current
<1>4. \A i \in DOMAIN updates' : updates'[i].kind \in TellKinds =>
       /\ updates'[i].id <= engines /\ updates'[i].view <= view
       /\ updates'[i].id = engine.id => updates'[i].gen <= engine.gen /\ updates'[i].gen \in Nat
  BY <1>1, <1>3 DEF EngineIsOwn, TellKinds
<1>5. \A i \in DOMAIN updates' : updates'[i].kind \in TellKinds /\ updates'[i].id = engine'.id =>
       updates'[i].gen <= engine'.gen /\ updates'[i].gen # engine'.gen
  BY <1>2, <1>3, <1>4
<1>6. \A i \in DOMAIN updates' : updates'[i].kind = "failed" => updates'[i].job.view # view
  BY <1>1, <1>3 DEF JobsInOrder, IsOutcome, Of
<1>7. \A i \in DOMAIN jobs : view < jobs[i].view
  BY <1>3 DEF JobsInOrder
<1>8. engine.id # None /\ active = engine.id /\ worker.job.ep # None /\ 0 < view /\ expected' = engine.gen + 1
  BY <1>3 DEF EngineIsOwn, JobsInOrder, PlaySteps
<1>9. engine'.gen # None /\ view <= view
  BY <1>2, <1>3 DEF None
<1>10. EngineIsOwn'
  BY <1>2, <1>3, <1>4, <1>5, <1>6, <1>7, <1>8, <1>9 DEF EngineIsOwn, Loaded, OfEngine, LoadedSteps
<1>11. FrameIsHeard'
  BY <1>2 DEF FrameIsHeard
<1> QED
  BY <1>5, <1>10, <1>11 DEF FailureIsOnce, OfEngine, TellKinds

\* The first frame is heard when it runs, or waits on.
LEMMA FrameStays ==
  ASSUME ControlTyped, EngineIsOwn, FrameIsHeard, NEW n, NEW e, Moved(n, e), engine' = engine,
         \/ /\ view' = view /\ watch'.view \in {watch.view, None}
            /\ n = 1 => updates[1].kind # "start" \/ (OfEngine(updates[1]) /\ engine.view = view => watch'.view # view)
         \/ view' = view + 1
  PROVE  FrameIsHeard'
<1> SUFFICES ASSUME engine.file = "playing", engine.view = view', watch'.view = view'
             PROVE  \E i \in DOMAIN updates' : updates'[i].kind = "start" /\ OfEngine(updates'[i])
  BY DEF FrameIsHeard, OfEngine
<1>1. Loaded /\ 0 < engine.view /\ engine.view <= view /\ view \in Nat /\ engine.view \in Nat
  BY Numbers DEF EngineIsOwn, Loaded
<1>2. view' = view /\ watch'.view = watch.view
  BY <1>1 DEF None
<1>3. PICK i \in DOMAIN updates : updates[i].kind = "start" /\ OfEngine(updates[i])
  BY <1>2 DEF FrameIsHeard
<1>4. ~(n = 1 /\ i = 1)
  BY <1>1, <1>2, <1>3
<1> QED
  BY <1>3, <1>4 DEF Moved

\* No failure is told, and the engine stays.
LEMMA FailuresStay ==
  ASSUME ControlTyped, FailureIsOnce, NEW n, NEW e, Moved(n, e), e.kind # "failure", engine' = engine
  PROVE  FailureIsOnce'
<1>1. \A i \in DOMAIN updates' : updates'[i].kind = "failure" => i \in Nat /\ n \in Nat /\ i + n \in DOMAIN updates /\ updates'[i] = updates[i + n]
  BY DEF Moved
<1>2. \A i, k \in DOMAIN updates' : i \in Nat /\ k \in Nat /\ n \in Nat /\ i + n = k + n => i = k
  OBVIOUS
<1> QED
  BY <1>1, <1>2 DEF FailureIsOnce, OfEngine

\* What a step does to the worker and the queue when no view begins.
WorkerSteps ==
  \/ UNCHANGED <<worker, jobs>>
  \/ worker.step # "idle" /\ worker' = Idle /\ UNCHANGED jobs
  \/ /\ UNCHANGED jobs /\ worker'.job = worker.job
     /\ \/ worker.step = "play" /\ worker'.step \in {"erred", "loading"}
        \/ worker.step = "loading" /\ worker'.step = (IF Current THEN "loaded" ELSE "erred")
        \/ worker.step \in LoadedSteps /\ worker'.step \in {"returned", "select", "clear"}
        \/ worker.step = "loaded" /\ worker'.step = "erred" /\ ~Current
        \/ worker.step = "erred" /\ worker'.step = (IF Current THEN "revert" ELSE "report")
        \/ worker.step = "revert" /\ worker'.step = "report"
        \/ worker.step = "close" /\ worker'.step \in {"endClear", "deactivate"}
        \/ worker.step = "endClear" /\ worker'.step = "deactivate"
  \/ Take

\* The worker's outcomes are posted from its last step.
PostsOwn(e) ==
  /\ e.kind = "failed" => e.job = worker.job /\ worker.step = "report"
  /\ e.kind = "stopped" => /\ e.view = worker.job.view /\ worker.job.kind = "stop"
                           /\ worker.step = "deactivate" /\ engine' = engine

\* No failure is shown and no view begins: what was shown can not be shown again.
LEMMA NoticesStay ==
  ASSUME ControlTyped, JobsInOrder, EngineIsOwn, Notices,
         NEW n, NEW e, Moved(n, e), PostsOwn(e), e.kind = "failure" => MayFail /\ Loaded,
         UNCHANGED <<view, notices>>, watch'.view \in {watch.view, None}, WorkerSteps,
         \/ engine' = engine
         \/ ~Loaded'
         \/ MayFail /\ Loaded /\ engine'.view = engine.view
         \/ engine'.view = view /\ view \notin DOMAIN notices,
         \/ expected' = expected
         \/ worker.step = "revert" /\ expected' = Reverted
         \/ engine'.view = view /\ view \notin DOMAIN notices
  PROVE  Notices'
<1>1. view \in DOMAIN notices => 0 < view /\ view \in Nat
  BY DEF Notices
<1>2. \A i \in DOMAIN updates' : \/ \E k \in DOMAIN updates : updates'[i] = updates[k]
                                 \/ updates'[i] = e
  BY DEF Moved
<1>3. /\ \A i \in DOMAIN jobs' : \E k \in DOMAIN jobs : jobs'[i] = jobs[k]
      /\ Take => /\ 1 \in DOMAIN jobs
                 /\ worker' = worker \/ (worker'.job = jobs[1] /\ worker'.step \in {"play", "close"})
  BY Taken DEF WorkerSteps
<1>4. ASSUME view \in DOMAIN notices
      PROVE  /\ watch'.view # view
             /\ \A i \in DOMAIN updates' : updates'[i].kind = "failed" => updates'[i].job.view # view
             /\ \A i \in DOMAIN jobs' : jobs'[i].view # view
             /\ worker'.step # "idle" /\ worker'.job.view = view => worker'.step \in LoadedSteps
  <2>1. watch'.view # view
    BY <1>1, <1>4 DEF Notices, None
  <2>2. \A i \in DOMAIN updates' : updates'[i].kind = "failed" => updates'[i].job.view # view
    BY <1>2, <1>4 DEF Notices, PostsOwn, Current, LoadedSteps
  <2>3. \A i \in DOMAIN jobs' : jobs'[i].view # view
    BY <1>3, <1>4 DEF Notices
  <2>4. worker'.step # "idle" /\ worker'.job.view = view => worker'.step \in LoadedSteps
    BY <1>3, <1>4 DEF Notices, WorkerSteps, Current, LoadedSteps, Idle
  <2> QED
    BY <2>1, <2>2, <2>3, <2>4
<1>5. ASSUME Loaded', engine'.view \in DOMAIN notices, MayFail'
      PROVE  /\ expected' = None
             /\ \A i \in DOMAIN jobs' : jobs'[i].before = None
             /\ MayRevert' => worker'.job.before = None
  <2>1. Loaded /\ engine.view \in DOMAIN notices /\ MayFail
    <3>1. CASE engine' = engine
      <4>1. MayFail
        BY <1>2, <1>5, <3>1 DEF MayFail, OfEngine
      <4> QED
        BY <1>5, <3>1, <4>1 DEF Loaded
    <3> QED
      BY <1>5, <3>1
  <2>2. /\ expected = None
        /\ \A i \in DOMAIN jobs : jobs[i].before = None
        /\ MayRevert => worker.job.before = None
    BY <2>1 DEF Notices
  <2>3. expected' = None
    BY <1>5, <2>2 DEF Reverted, MayRevert
  <2>4. \A i \in DOMAIN jobs' : jobs'[i].before = None
    BY <1>3, <2>2
  <2>5. MayRevert' => worker'.job.before = None
    <3>1. MayRevert' => worker'.step \in {"play", "loading", "revert"} \/ (worker'.step = "erred" /\ worker'.job.view = view)
      BY DEF MayRevert, Current
    <3>2. CASE Take
      BY <1>3, <2>2, <3>1, <3>2 DEF MayRevert, Current
    <3>3. CASE ~Take
      BY <2>2, <3>1, <3>3 DEF WorkerSteps, MayRevert, Current, LoadedSteps, Idle
    <3> QED
      BY <3>2, <3>3
  <2> QED
    BY <2>3, <2>4, <2>5
<1>6. (view \in DOMAIN notices)' <=> view \in DOMAIN notices
  OBVIOUS
<1>7. (engine.view \in DOMAIN notices)' <=> engine'.view \in DOMAIN notices
  OBVIOUS
<1> QED
  BY <1>4, <1>5, <1>6, <1>7 DEF Notices, Current

HiddenIsAtRest ==
  /\ expected = None /\ (watch.view # view \/ view = 0)
  /\ jobs = <<>> /\ worker.step = "idle"
  /\ \A i \in DOMAIN updates : updates[i].kind = "failed" => updates[i].job.view # view
  /\ engine.file = "none" \/ view \in DOMAIN notices

\* Nothing that is left to do is of an earlier view than the worker's job.
LEMMA OnlyWorker ==
  ASSUME ControlTyped, JobsInOrder, worker.step # "idle", Current
  PROVE  /\ \A i \in DOMAIN jobs : jobs[i].view # view
         /\ \A i \in DOMAIN updates : IsOutcome(updates[i]) => Of(updates[i]) # view
<1>1. /\ view \in Nat /\ \A i \in DOMAIN jobs : jobs[i].view \in Nat
      /\ \A i \in DOMAIN updates : IsOutcome(updates[i]) => Of(updates[i]) \in Nat
  BY Numbers
<1> QED
  BY <1>1 DEF JobsInOrder, Current

\* No view begins: a player that was left has nothing that plays.
LEMMA SilentStays ==
  ASSUME ControlTyped, JobsInOrder, EngineIsOwn, Silent,
         NEW n, NEW e, Moved(n, e), PostsOwn(e),
         view' = view, watch'.view \in {watch.view, None}, WorkerSteps,
         DOMAIN notices \subseteq DOMAIN notices', revived => revived',
         screen'.shown \/ screen'.shown = screen.shown \/ (~revived => HiddenIsAtRest'),
         \/ engine' = engine
         \/ engine'.file = "none"
         \/ Loaded
         \/ worker.step = "loading" /\ Current,
         \/ expected' = expected
         \/ revived'
         \/ /\ Current
            /\ \/ worker.step = "revert" /\ worker'.step = "report" /\ worker.job.kind = "select" /\ UNCHANGED <<worker.job, jobs, updates>>
               \/ worker.step = "loading" /\ worker'.step = "loaded" /\ UNCHANGED <<worker.job, jobs>> /\ e = Nothing
  PROVE  Silent'
<1>1. \A i \in DOMAIN updates' : \/ \E k \in DOMAIN updates : updates'[i] = updates[k]
                                 \/ updates'[i] = e
  BY DEF Moved
<1>2. /\ \A i \in DOMAIN jobs' : \E k \in DOMAIN jobs : jobs'[i] = jobs[k]
      /\ jobs' = jobs \/ 1 \in DOMAIN jobs
      /\ Take => /\ 1 \in DOMAIN jobs
                 /\ worker' = worker \/ (worker'.job = jobs[1] /\ worker'.step \in {"play", "close"})
  BY Taken DEF WorkerSteps
<1>3. worker.step = "idle" => worker' = worker \/ Take
  BY DEF WorkerSteps, LoadedSteps
<1>4. (\E i \in DOMAIN updates' : updates'[i].kind = "stopped" /\ updates'[i].view = view) => engine'.file = "none"
  <2> SUFFICES ASSUME NEW i \in DOMAIN updates', updates'[i].kind = "stopped", updates'[i].view = view
               PROVE  engine'.file = "none"
    OBVIOUS
  <2>1. CASE updates'[i] = e
    BY <2>1 DEF PostsOwn, EngineIsOwn, Loaded
  <2>2. CASE \E k \in DOMAIN updates : updates'[i] = updates[k]
    <3>1. PICK k \in DOMAIN updates : updates'[i] = updates[k]
      BY <2>2
    <3>2. engine.file = "none"
      BY <3>1 DEF Silent
    <3>3. ~(worker.step = "loading" /\ Current)
      BY <3>1, OnlyWorker DEF IsOutcome, Of
    <3> QED
      BY <3>2, <3>3 DEF Loaded
  <2> QED
    BY <1>1, <2>1, <2>2
<1> DEFINE Stops == \/ \E i \in DOMAIN jobs' : jobs'[i].kind = "stop" /\ jobs'[i].view = view
                    \/ worker'.job.kind = "stop" /\ worker'.job.view = view
                    \/ \E i \in DOMAIN updates' : updates'[i].kind = "stopped" /\ updates'[i].view = view
           Unplayed == \/ \E i \in DOMAIN jobs' : jobs'[i].kind = "play" /\ jobs'[i].view = view
                       \/ worker'.job.kind = "play" /\ worker'.job.view = view /\ worker'.step \notin LoadedSteps
                       \/ \E i \in DOMAIN updates' : updates'[i].kind = "failed" /\ updates'[i].job.kind = "play" /\ updates'[i].job.view = view
<1>5. worker'.job = worker.job \/ worker'.job.kind = "none" \/ (1 \in DOMAIN jobs /\ worker'.job = jobs[1] /\ worker'.step \in {"play", "close"})
  BY <1>2 DEF WorkerSteps, Idle, NoJob
<1>6. Stops => Leaving(view)
  <2>1. (\E i \in DOMAIN jobs' : jobs'[i].kind = "stop" /\ jobs'[i].view = view) => Leaving(view)
    BY <1>2 DEF Leaving
  <2>2. worker'.job.kind = "stop" /\ worker'.job.view = view => Leaving(view)
    BY <1>5 DEF Leaving
  <2>3. (\E i \in DOMAIN updates' : updates'[i].kind = "stopped" /\ updates'[i].view = view) => Leaving(view)
    BY <1>1 DEF Leaving, PostsOwn
  <2> QED
    BY <2>1, <2>2, <2>3
<1>7. Unplayed => Unloaded("play")
  <2>1. (\E i \in DOMAIN jobs' : jobs'[i].kind = "play" /\ jobs'[i].view = view) => Unloaded("play")
    BY <1>2 DEF Unloaded
  <2>2. worker'.job.kind = "play" /\ worker'.job.view = view /\ worker'.step \notin LoadedSteps => Unloaded("play")
    <3>1. CASE Take
      BY <1>2, <3>1 DEF Unloaded, Current
    <3>2. CASE ~Take
      BY <3>2 DEF WorkerSteps, Unloaded, Current, LoadedSteps, Idle, NoJob
    <3> QED
      BY <3>1, <3>2
  <2>3. (\E i \in DOMAIN updates' : updates'[i].kind = "failed" /\ updates'[i].job.kind = "play" /\ updates'[i].job.view = view) => Unloaded("play")
    BY <1>1 DEF Unloaded, PostsOwn, Current, LoadedSteps
  <2> QED
    BY <2>1, <2>2, <2>3
<1>8. ASSUME ~revived', expected' # expected PROVE ~Stops /\ ~Unplayed /\ screen.shown /\ worker'.step # "idle"
  <2>1. Current /\ worker.step \in {"revert", "loading"} /\ worker'.job = worker.job /\ jobs' = jobs
        /\ worker'.step \in {"report", "loaded"}
        /\ (worker.job.kind = "play" => worker'.step = "loaded")
        /\ (updates' = updates \/ e = Nothing)
    BY <1>8
  <2>2. /\ \A i \in DOMAIN jobs : jobs[i].view # view
        /\ \A i \in DOMAIN updates : IsOutcome(updates[i]) => Of(updates[i]) # view
    BY <2>1, OnlyWorker
  <2>3. \A i \in DOMAIN updates' : updates'[i].kind \in {"failed", "stopped"} => \E k \in DOMAIN updates : updates'[i] = updates[k]
    BY <1>1, <2>1 DEF Nothing
  <2>4. worker.job.kind # "stop"
    BY <2>1 DEF JobsInOrder, PlaySteps
  <2>5. ~Stops
    BY <2>1, <2>2, <2>3, <2>4 DEF IsOutcome, Of
  <2>6. ~Unplayed
    BY <2>1, <2>2, <2>3 DEF IsOutcome, Of, LoadedSteps
  <2>7. screen.shown
    BY <1>8, <2>1 DEF Silent
  <2> QED
    BY <2>1, <2>5, <2>6, <2>7
<1>9. Stops => 0 < view /\ view \in Nat
  <2>1. Leaving(view) => 0 < view
    BY DEF Leaving, JobsInOrder, IsOutcome, Of, NoJob
  <2> QED
    BY <1>6, <2>1, Numbers
<1>10. ASSUME ~revived', Stops PROVE expected' = None /\ watch'.view # view
  BY <1>6, <1>8, <1>9, <1>10 DEF Silent, None
<1>11. ASSUME ~revived', Unplayed PROVE expected' = None
  BY <1>7, <1>8, <1>11 DEF Silent
<1>12. ASSUME ~revived', ~screen'.shown PROVE HiddenIsAtRest'
  <2>1. CASE ~revived => HiddenIsAtRest'
    BY <1>12, <2>1
  <2>2. CASE screen'.shown = screen.shown
    <3>1. /\ expected = None /\ (watch.view # view \/ view = 0)
          /\ jobs = <<>> /\ worker.step = "idle"
          /\ \A i \in DOMAIN updates : updates[i].kind = "failed" => updates[i].job.view # view
          /\ engine.file = "none" \/ view \in DOMAIN notices
      BY <1>12, <2>2 DEF Silent
    <3>2. ~Take /\ worker' = worker /\ jobs' = jobs /\ expected' = expected
      <4>1. ~Take
        BY <3>1 DEF Take
      <4>2. worker' = worker /\ jobs' = jobs
        BY <3>1, <4>1 DEF WorkerSteps, LoadedSteps
      <4>3. expected' = expected
        BY <1>8, <1>12, <2>2
      <4> QED
        BY <4>1, <4>2, <4>3
    <3>3. \A i \in DOMAIN updates' : updates'[i].kind = "failed" => updates'[i].job.view # view
      BY <1>1, <3>1 DEF PostsOwn
    <3>4. engine'.file = "none" \/ view \in DOMAIN notices'
      BY <3>1 DEF Loaded
    <3> QED
      BY <3>1, <3>2, <3>3, <3>4 DEF HiddenIsAtRest, None
  <2> QED
    BY <1>12, <2>1, <2>2
<1> HIDE DEF Stops, Unplayed
<1>13. (Leaving(view))' <=> Stops
  BY DEF Leaving, Stops
<1>14. (Unloaded("play"))' <=> Unplayed
  BY DEF Unloaded, Unplayed, Current
<1> QED
  BY <1>4, <1>10, <1>11, <1>12, <1>13, <1>14 DEF Silent, HiddenIsAtRest

\* A failure that was not shown is shown once.
LEMMA NotifiedOnce ==
  ASSUME ControlTyped, NEW v, v \notin DOMAIN notices, \A x \in DOMAIN notices : notices[x] = 1
  PROVE  /\ DOMAIN Notified(v) = DOMAIN notices \cup {v}
         /\ \A x \in DOMAIN Notified(v) : Notified(v)[x] = 1
         /\ Notified(v) = [x \in DOMAIN Notified(v) |-> Notified(v)[x]]
BY DEF Notified

\* A view begins, with its job; before it a failure of the last one may be shown.
ViewStarts(job) ==
  /\ job \in Jobs /\ job.view = view + 1 /\ job.kind # "none"
  /\ job.kind \in {"play", "select"} => job.ep # None
  /\ job.before \in {None, expected}
  /\ Enqueue(job) /\ view' = view + 1 /\ expected' = None
  /\ UNCHANGED <<worker, actionView, engine, active, engines, revived>>
  /\ watch'.view \in {None, view + 1} /\ (job.kind = "stop" => watch'.view = None)
  /\ \/ notices' = notices
     \/ notices' = Notified(view) /\ view \notin DOMAIN notices /\ 0 < view /\ job.before = None
  /\ revived \/ screen'.shown

\* A view begins: nothing that is left to do is of it but its job.
LEMMA ViewBegins ==
  ASSUME ControlInv, NEW n, Moved(n, Nothing), n = 1 => updates[1].kind # "load",
         NEW job, ViewStarts(job)
  PROVE  JobsInOrder' /\ OneLoad' /\ EngineIsOwn' /\ FrameIsHeard' /\ FailureIsOnce' /\ Notices' /\ Silent'
<1> DEFINE m == Len(jobs) + 1
<1>1. ControlTyped /\ JobsInOrder /\ OneLoad /\ EngineIsOwn /\ FrameIsHeard /\ FailureIsOnce /\ Notices /\ Silent
  BY DEF ControlInv
<1>2. /\ job \in Jobs /\ job.view = view + 1 /\ job.kind # "none"
      /\ job.kind \in {"play", "select"} => job.ep # None
      /\ job.before \in {None, expected}
      /\ Enqueue(job) /\ view' = view + 1 /\ expected' = None
      /\ UNCHANGED <<worker, actionView, engine, active, engines, revived>>
      /\ watch'.view \in {None, view + 1} /\ (job.kind = "stop" => watch'.view = None)
      /\ \/ notices' = notices
         \/ notices' = Notified(view) /\ view \notin DOMAIN notices /\ 0 < view /\ job.before = None
      /\ revived \/ screen'.shown
  BY DEF ViewStarts
<1>3. /\ m \in Nat /\ m \in DOMAIN jobs' /\ jobs'[m] = job /\ jobs' \in Seq(Jobs)
      /\ \A i \in DOMAIN jobs : i \in Nat /\ i < m /\ i \in DOMAIN jobs' /\ jobs'[i] = jobs[i]
      /\ \A i \in DOMAIN jobs' : i \in Nat /\ (i \in DOMAIN jobs \/ i = m)
  BY <1>1, <1>2, Enqueued
<1> HIDE DEF m
<1>4. /\ view \in Nat /\ worker.job.view \in Nat /\ engine.view \in Nat
      /\ \A i \in DOMAIN jobs : jobs[i].view \in Nat
      /\ \A i \in DOMAIN updates : /\ updates[i].kind = "failed" => updates[i].job.view \in Nat
                                   /\ IsOutcome(updates[i]) => Of(updates[i]) \in Nat
  BY <1>1, Numbers
<1>5. \A i \in DOMAIN updates' : updates'[i].kind # "nothing" => \E k \in DOMAIN updates : updates'[i] = updates[k]
  BY DEF Moved, Nothing
<1>6. worker.step # "idle" => worker.job.view <= view /\ worker.job.view # view'
  BY <1>1, <1>2, <1>4 DEF JobsInOrder
<1>7. JobsInOrder'
  BY <1>1, <1>2, JobsBegin
<1>8. OneLoad'
  BY <1>1, <1>2, LoadStays DEF Nothing
<1>9. EngineIsOwn'
  <2>1. JobsOf
    BY <1>2, <1>3, <1>4 DEF JobsOf
  <2>2. WorkerFits'
    BY <1>1, <1>2, <1>6 DEF WorkerFits, EngineIsOwn, Loaded, Current
  <2>3. Nothing.kind = "nothing"
    BY DEF Nothing
  <2> QED
    BY <1>1, <1>2, <1>3, <2>1, <2>2, <2>3, EngineStays DEF TellKinds
<1>10. FrameIsHeard'
  BY <1>1, <1>2, FrameStays
<1>11. FailureIsOnce'
  BY <1>1, <1>2, FailuresStay DEF Nothing
<1>12. Notices'
  <2>1. /\ \A v \in DOMAIN notices' : notices'[v] = 1 /\ v \in Nat /\ v <= view /\ 0 < v
        /\ notices' = notices \/ (view \notin DOMAIN notices /\ DOMAIN notices' = DOMAIN notices \cup {view} /\ job.before = None)
    <3>1. \A v \in DOMAIN notices : notices[v] = 1 /\ v \in Nat /\ v <= view /\ 0 < v
      BY <1>1 DEF Notices
    <3>2. CASE notices' = notices
      BY <3>1, <3>2
    <3>3. CASE notices' = Notified(view) /\ view \notin DOMAIN notices /\ 0 < view /\ job.before = None
      <4>1. DOMAIN notices' = DOMAIN notices \cup {view} /\ \A v \in DOMAIN notices' : notices'[v] = 1
        BY <1>1, <3>1, <3>3, NotifiedOnce
      <4> QED
        BY <1>4, <3>1, <3>3, <4>1
    <3> QED
      BY <1>2, <3>2, <3>3
  <2>2. \A v \in DOMAIN notices' : v # view' /\ v <= view'
    BY <1>2, <1>4, <2>1
  <2>3. ASSUME Loaded, engine.view \in DOMAIN notices', MayFail'
        PROVE  /\ \A i \in DOMAIN jobs' : jobs'[i].before = None
               /\ MayRevert' => worker.job.before = None
    <3>1. MayFail
      BY <1>2, <1>5, <2>3 DEF MayFail, OfEngine
    <3>2. MayRevert' => worker.step \in {"play", "loading", "revert"}
      BY <1>2, <1>6 DEF MayRevert, Current
    <3>3. CASE engine.view \in DOMAIN notices
      <4>1. /\ expected = None
            /\ \A i \in DOMAIN jobs : jobs[i].before = None
            /\ MayRevert => worker.job.before = None
        BY <1>1, <2>3, <3>1, <3>3 DEF Notices
      <4> QED
        BY <1>2, <1>3, <3>2, <4>1 DEF MayRevert
    <3>4. CASE engine.view = view /\ job.before = None
      <4>1. \A i \in DOMAIN jobs : FALSE
        BY <1>1, <1>4, <2>3, <3>4 DEF EngineIsOwn, JobsInOrder
      <4>2. worker.step # "idle" => worker.step \in LoadedSteps
        BY <1>1, <1>4, <1>6, <2>3, <3>4 DEF EngineIsOwn, Current, LoadedSteps
      <4> QED
        BY <1>3, <3>2, <3>4, <4>1, <4>2 DEF LoadedSteps
    <3> QED
      BY <2>1, <2>3, <3>3, <3>4
  <2> QED
    BY <1>2, <2>1, <2>2, <2>3 DEF Notices, Loaded
<1>13. Silent'
  <2>1. \A i \in DOMAIN updates' : updates'[i].kind = "stopped" => updates'[i].view # view'
    BY <1>1, <1>2, <1>4, <1>5 DEF JobsInOrder, IsOutcome, Of
  <2>2. watch'.view = view' => ~(Leaving(view))'
    <3>1. \A i \in DOMAIN jobs' : jobs'[i].view = view' => i = m
      BY <1>1, <1>2, <1>3, <1>4 DEF JobsInOrder
    <3>2. worker.job.kind = "stop" => worker.step # "idle"
      BY <1>1 DEF JobsInOrder, NoJob
    <3>3. watch'.view = view' => job.kind # "stop"
      BY <1>2, <1>4 DEF None
    <3> QED
      BY <1>2, <1>3, <1>6, <2>1, <3>1, <3>2, <3>3 DEF Leaving
  <2> QED
    BY <1>2, <2>1, <2>2 DEF Silent
<1> QED
  BY <1>7, <1>8, <1>9, <1>10, <1>11, <1>12, <1>13

\* What jobs hold.
LEMMA JobTypes == \A j \in Jobs : j.view \in Nat /\ j.ep \in Episodes \cup {None} /\ j.before \in Nat
                                  /\ j.kind \in {"none", "play", "select", "end", "stop"} /\ j.auto \in BOOLEAN
BY DEF Jobs

\* What the updates and the ends hold.
LEMMA UpdateTypes ==
  ASSUME NEW u \in Updates
  PROVE  /\ u.kind \in {"load", "list", "stopped", "timeout", "decide", "failed"} \cup TellKinds
         /\ u.kind \in TellKinds => u.id \in Nat \ {0} /\ u.gen \in Nat \ {0} /\ u.view \in Nat \ {0} /\ u.ep \in Episodes
         /\ u.kind \in {"list", "stopped", "timeout"} => u.view \in Nat \ {0}
         /\ u.kind = "decide" => u.end \in Ends
         /\ u.kind = "failed" => u.job \in Jobs
<1>1. u.kind \in TellKinds => u.id \in Nat \ {0} /\ u.gen \in Nat \ {0} /\ u.view \in Nat \ {0} /\ u.ep \in Episodes
  BY DEF Updates, TellKinds
<1>2. u.kind \in {"list", "stopped", "timeout"} => u.view \in Nat \ {0}
  BY DEF Updates, TellKinds
<1>3. u.kind = "decide" => u.end \in Ends
  BY DEF Updates, TellKinds
<1>4. u.kind = "failed" => u.job \in Jobs
  BY DEF Updates, TellKinds
<1>5. u.kind \in {"load", "list", "stopped", "timeout", "decide", "failed"} \cup TellKinds
  BY DEF Updates, TellKinds
<1> QED
  BY <1>1, <1>2, <1>3, <1>4, <1>5

LEMMA EndTypes == \A d \in Ends : /\ d.view \in Nat /\ d.gen \in Nat /\ d.gen # 0
                                  /\ d.ep \in Episodes /\ d.ep # None /\ d.ep + 1 \in Episodes /\ d.ep + 1 # None
BY ControlAssumption DEF Ends, Episodes, None

LEMMA UpdateLiterals ==
  /\ [kind |-> "load"] \in Updates
  /\ \A k \in TellKinds, i \in Nat \ {0}, g \in Nat \ {0}, v \in Nat \ {0}, p \in Episodes :
       [kind |-> k, id |-> i, gen |-> g, view |-> v, ep |-> p] \in Updates
  /\ \A k \in {"list", "stopped", "timeout"}, v \in Nat \ {0} : [kind |-> k, view |-> v] \in Updates
  /\ \A d \in Ends, b \in BOOLEAN : [kind |-> "decide", end |-> d, next |-> b] \in Updates
  /\ \A j \in Jobs : [kind |-> "failed", job |-> j] \in Updates
BY DEF Updates

\* What a view that starts leaves typed, when its job is.
LEMMA StartTypes ==
  ASSUME ControlTyped, 
         NEW ep, NEW auto \in BOOLEAN,
         \/ Plays(ep) /\ ep \in Episodes
         \/ Selects(ep, auto) /\ ep \in Episodes /\ selection # None
         \/ EndsPlayback /\ selection # None
  PROVE  /\ view' \in Nat /\ expected' \in Nat /\ awaiting' \in BOOLEAN
         /\ selection' \in Episodes \cup {None} /\ (selection' = None => view' = 0 /\ ~screen'.shown)
         /\ known' \in BOOLEAN
         /\ screen' \in [shown : BOOLEAN, playing : BOOLEAN, loading : BOOLEAN]
         /\ watch' \in [view : Nat, armed : BOOLEAN] /\ (watch'.armed => watch'.view # None)
         /\ watch'.view \in {None, view + 1}
         /\ screen'.shown = screen.shown \/ screen'.shown
         /\ view' = view + 1 /\ expected' = None
         /\ \E job \in Jobs : /\ jobs' = Append(jobs, job) /\ job.view = view + 1 /\ job.kind \in {"play", "select", "end"}
                              /\ job.kind \in {"play", "select"} => job.ep # None
                              /\ job.before \in {None, expected} /\ (EndsPlayback => job.kind = "end" /\ job.before = None)
         /\ jobs' \in Seq(Jobs)
<1>1. view \in Nat /\ view + 1 \in Nat /\ view + 1 # 0 /\ expected \in Nat /\ 0 \in Nat /\ jobs \in Seq(Jobs)
  BY DEF ControlTyped
<1>2. \A p \in Episodes : p # None
  BY DEF Episodes, None
<1>3. CASE Plays(ep) /\ ep \in Episodes
  <2> DEFINE job == [NoJob EXCEPT !.kind = "play", !.view = view + 1, !.ep = ep]
  <2>1. job \in Jobs /\ job.view = view + 1 /\ job.kind = "play" /\ job.ep = ep /\ job.before = None
    BY <1>1, <1>3 DEF NoJob, Jobs, None
  <2>2. jobs' = Append(jobs, job) /\ ~EndsPlayback
    <3>1. jobs' = Append(jobs, job) /\ watch'.view = view + 1
      BY <1>3 DEF Plays, Enqueue
    <3> QED
      BY <1>1, <3>1 DEF EndsPlayback, NoWatch, None
  <2>3. jobs' \in Seq(Jobs)
    BY <1>1, <2>1, <2>2
  <2> HIDE DEF job
  <2> QED
    BY <1>1, <1>2, <1>3, <2>1, <2>2, <2>3 DEF Plays, ControlTyped, None
<1>4. CASE Selects(ep, auto) /\ ep \in Episodes /\ selection # None
  <2> DEFINE job == [kind |-> "select", view |-> view + 1, ep |-> ep, before |-> expected, auto |-> auto]
  <2>1. job \in Jobs /\ job.view = view + 1 /\ job.kind = "select" /\ job.ep = ep /\ job.before = expected
    BY <1>1, <1>4 DEF Jobs
  <2>2. jobs' = Append(jobs, job) /\ ~EndsPlayback
    <3>1. jobs' = Append(jobs, job) /\ watch'.view = view + 1
      BY <1>4 DEF Selects, Enqueue
    <3> QED
      BY <1>1, <3>1 DEF EndsPlayback, NoWatch, None
  <2>3. jobs' \in Seq(Jobs)
    BY <1>1, <2>1, <2>2
  <2> HIDE DEF job
  <2>4. screen' \in [shown : BOOLEAN, playing : BOOLEAN, loading : BOOLEAN] /\ screen'.shown = screen.shown
    BY <1>4 DEF Selects, ControlTyped
  <2> QED
    BY <1>1, <1>2, <1>4, <2>1, <2>2, <2>3, <2>4 DEF Selects, ControlTyped, None
<1>5. CASE EndsPlayback /\ selection # None
  <2> DEFINE job == [NoJob EXCEPT !.kind = "end", !.view = view + 1]
  <2>1. job \in Jobs /\ job.view = view + 1 /\ job.kind = "end" /\ job.before = None
    BY <1>1 DEF NoJob, Jobs, None
  <2>2. jobs' = Append(jobs, job)
    BY <1>5 DEF EndsPlayback, Enqueue
  <2>3. jobs' \in Seq(Jobs)
    BY <1>1, <2>1, <2>2
  <2> HIDE DEF job
  <2>4. screen' \in [shown : BOOLEAN, playing : BOOLEAN, loading : BOOLEAN] /\ screen'.shown = screen.shown
    BY <1>5 DEF EndsPlayback, ControlTyped
  <2> QED
    BY <1>1, <1>2, <1>5, <2>1, <2>2, <2>3, <2>4 DEF EndsPlayback, ControlTyped, None, NoWatch
<1> QED
  BY <1>3, <1>4, <1>5

\* Every way to begin a view but leaving keeps the invariant.
LEMMA Starts ==
  ASSUME ControlInv,
         \/ \E ep \in Episodes : Plays(ep)
         \/ /\ \/ \E ep \in Episodes, auto \in BOOLEAN : Selects(ep, auto)
               \/ EndsPlayback
            /\ selection # None /\ (revived \/ screen.shown),
         NEW n, Moved(n, Nothing), updates' \in Seq(Updates), n = 1 => updates[1].kind # "load",
         UNCHANGED <<actionView, worker, engine, active, engines, revived>>,
         deciding' \subseteq Ends, handled' \in Nat,
         \/ notices' = notices
         \/ EndsPlayback /\ notices' = Notified(view) /\ view \notin DOMAIN notices /\ 0 < view
  PROVE  ControlInv'
<1>1. ControlTyped
  BY DEF ControlInv
<1>2. /\ view' \in Nat /\ expected' \in Nat /\ awaiting' \in BOOLEAN
      /\ selection' \in Episodes \cup {None} /\ (selection' = None => view' = 0 /\ ~screen'.shown)
      /\ known' \in BOOLEAN
      /\ screen' \in [shown : BOOLEAN, playing : BOOLEAN, loading : BOOLEAN]
      /\ watch' \in [view : Nat, armed : BOOLEAN] /\ (watch'.armed => watch'.view # None)
      /\ watch'.view \in {None, view + 1}
      /\ view' = view + 1 /\ expected' = None
      /\ \E job \in Jobs : /\ jobs' = Append(jobs, job) /\ job.view = view + 1 /\ job.kind \in {"play", "select", "end"}
                           /\ job.kind \in {"play", "select"} => job.ep # None
                           /\ job.before \in {None, expected} /\ (EndsPlayback => job.kind = "end" /\ job.before = None)
      /\ jobs' \in Seq(Jobs)
  <2>1. CASE \E ep \in Episodes : Plays(ep)
    <3>1. PICK ep \in Episodes : Plays(ep)
      BY <2>1
    <3>2. TRUE \in BOOLEAN
      OBVIOUS
    <3> QED
      BY <1>1, <3>1, <3>2, StartTypes
  <2>2. CASE selection # None /\ \E ep \in Episodes, auto \in BOOLEAN : Selects(ep, auto)
    <3>1. PICK ep \in Episodes : \E auto \in BOOLEAN : Selects(ep, auto)
      BY <2>2
    <3>2. PICK auto \in BOOLEAN : Selects(ep, auto)
      BY <3>1
    <3> QED
      BY <1>1, <2>2, <3>2, StartTypes
  <2>3. CASE selection # None /\ EndsPlayback
    <3>1. TRUE \in BOOLEAN /\ None = None
      OBVIOUS
    <3> QED
      BY <1>1, <2>3, <3>1, StartTypes
  <2> QED
    BY <2>1, <2>2, <2>3
<1>3. PICK job \in Jobs : /\ jobs' = Append(jobs, job) /\ job.view = view + 1 /\ job.kind \in {"play", "select", "end"}
                          /\ job.kind \in {"play", "select"} => job.ep # None
                          /\ job.before \in {None, expected} /\ (EndsPlayback => job.kind = "end" /\ job.before = None)
  BY <1>2
<1>4. revived \/ screen'.shown
  <2>0. screen \in [shown : BOOLEAN, playing : BOOLEAN, loading : BOOLEAN]
    BY <1>1 DEF ControlTyped
  <2>1. CASE \E ep \in Episodes : Plays(ep)
    <3>1. PICK ep \in Episodes : Plays(ep)
      BY <2>1
    <3>2. screen'.shown
      BY <3>1 DEF Plays
    <3> QED
      BY <3>2
  <2>2. CASE (revived \/ screen.shown) /\ \E ep \in Episodes, auto \in BOOLEAN : Selects(ep, auto)
    BY <2>0, <2>2 DEF Selects
  <2>3. CASE (revived \/ screen.shown) /\ EndsPlayback
    BY <2>0, <2>3 DEF EndsPlayback
  <2> QED
    BY <2>1, <2>2, <2>3
<1>5. ViewStarts(job)
  BY <1>2, <1>3, <1>4 DEF ViewStarts, Enqueue
<1>6. JobsInOrder' /\ OneLoad' /\ EngineIsOwn' /\ FrameIsHeard' /\ FailureIsOnce' /\ Notices' /\ Silent'
  BY <1>5, ViewBegins
<1>7. notices' = [v \in DOMAIN notices' |-> notices'[v]]
  <2>1. \A v \in DOMAIN notices : notices[v] = 1
    BY DEF ControlInv, Notices
  <2>2. CASE notices' = notices
    BY <1>1, <2>2 DEF ControlTyped
  <2>3. CASE notices' = Notified(view) /\ view \notin DOMAIN notices
    BY <1>1, <2>1, <2>3, NotifiedOnce
  <2> QED
    BY <2>2, <2>3
<1>8. ControlTyped'
  BY <1>1, <1>2, <1>7 DEF ControlTyped
<1> QED
  BY <1>6, <1>8 DEF ControlInv

\* So does what the user does.
LEMMA UserStep == ControlInv /\ User => ControlInv'
<1> SUFFICES ASSUME ControlInv, User PROVE ControlInv'
  OBVIOUS
<1>0. /\ ControlTyped /\ Moved(0, Nothing) /\ updates \in Seq(Updates) /\ updates' = updates
      /\ UNCHANGED <<actionView, worker, engine, active, engines, revived, deciding, notices>>
      /\ deciding \subseteq Ends /\ view \in Nat /\ handled \in Nat
      /\ selection \in Episodes \cup {None} /\ (selection = None => view = 0 /\ ~screen.shown)
  <2>1. ControlTyped
    BY DEF ControlInv
  <2>2. updates' = updates /\ UNCHANGED <<actionView, worker, engine, active, engines, revived, deciding, notices>>
    BY DEF User, PlayFromHome, PlayPause, SelectEpisode, Leave, StopInPlayer, Acts, player
  <2> QED
    BY <2>1, <2>2, Rested DEF ControlTyped
<1>1. ASSUME NEW ep \in Episodes, PlayFromHome(ep) PROVE ControlInv'
  <2>1. Plays(ep) /\ handled' = handled
    BY <1>1 DEF PlayFromHome, Plays
  <2> QED
    BY <1>0, <2>1, Starts
<1>2. ASSUME NEW ep \in Episodes, SelectEpisode(ep) PROVE ControlInv'
  <2>1. Selects(ep, FALSE) /\ handled' = handled /\ screen.shown
    BY <1>2 DEF SelectEpisode
  <2>2. selection # None /\ \E p \in Episodes, auto \in BOOLEAN : Selects(p, auto)
    BY <1>0, <2>1
  <2> QED
    BY <1>0, <2>1, <2>2, Starts
<1>3. CASE PlayPause
  <2>1. Plays(selection) /\ handled' = handled /\ selection \in Episodes
    BY <1>0, <1>3 DEF PlayPause, Plays
  <2> QED
    BY <1>0, <2>1, Starts
<1>4. CASE StopInPlayer
  <2>1. EndsPlayback /\ handled' = handled /\ screen.shown
    BY <1>4 DEF StopInPlayer
  <2> QED
    BY <1>0, <2>1, Starts
<1>5. CASE Leave
  <2> DEFINE job == [NoJob EXCEPT !.kind = "stop", !.view = view + 1]
  <2>1. job \in Jobs /\ job.view = view + 1 /\ job.kind = "stop" /\ job.before = None
    <3>1. view + 1 \in Nat /\ 0 \in Nat
      BY <1>0
    <3> QED
      BY <3>1 DEF NoJob, Jobs, None
  <2>2. Enqueue(job) /\ screen.shown /\ view' = view + 1 /\ watch' = NoWatch /\ expected' = None /\ awaiting' = FALSE
        /\ UNCHANGED <<selection, known, screen, handled>>
    BY <1>5 DEF Leave
  <2> HIDE DEF job
  <2>3. ViewStarts(job)
    BY <1>0, <2>1, <2>2 DEF ViewStarts, NoWatch
  <2>4. JobsInOrder' /\ OneLoad' /\ EngineIsOwn' /\ FrameIsHeard' /\ FailureIsOnce' /\ Notices' /\ Silent'
    BY <1>0, <2>3, ViewBegins
  <2>5. jobs' \in Seq(Jobs)
    BY <1>0, <2>1, <2>2 DEF Enqueue, ControlTyped
  <2>6. view' \in Nat /\ 0 \in Nat
    BY <1>0, <2>2
  <2>7. watch' \in [view : Nat, armed : BOOLEAN] /\ ~watch'.armed
    BY <2>2, <2>6 DEF NoWatch, None
  <2>8. selection # None
    BY <1>0, <2>2
  <2>9. {view', actionView', expected', handled', active', engines'} \subseteq Nat
        /\ {awaiting', known', revived'} \subseteq BOOLEAN
    <3>1. {view, actionView, expected, handled, active, engines} \subseteq Nat /\ {awaiting, known, revived} \subseteq BOOLEAN
      BY <1>0 DEF ControlTyped
    <3>2. {view', actionView', expected', handled', active', engines'} \subseteq Nat
      BY <1>0, <2>2, <2>6, <3>1 DEF None
    <3>3. {awaiting', known', revived'} \subseteq BOOLEAN
      BY <1>0, <2>2, <3>1
    <3> QED
      BY <3>2, <3>3
  <2>10. ControlTyped'
    BY <1>0, <2>2, <2>5, <2>7, <2>8, <2>9 DEF ControlTyped
  <2> QED
    BY <2>4, <2>10 DEF ControlInv
<1> QED
  BY <1>1, <1>2, <1>3, <1>4, <1>5 DEF User

Others == JobsInOrder /\ OneLoad /\ EngineIsOwn /\ FrameIsHeard /\ FailureIsOnce /\ Notices /\ Silent

\* A step that begins no view and leaves the engine as it is.
LEMMA Calm ==
  ASSUME ControlInv, NEW n, NEW e, Moved(n, e), e.kind \notin {"load"} \cup TellKinds, PostsOwn(e),
         n = 1 => /\ updates[1].kind # "load"
                  /\ updates[1].kind = "start" /\ OfEngine(updates[1]) /\ engine.view = view => watch'.view # view,
         UNCHANGED <<view, engine, engines>>, active' = active \/ engine.id = None, watch'.view \in {watch.view, None},
         WorkerSteps, WorkerFits', worker'.step = "loading" <=> worker.step = "loading",
         Take \/ actionView' = actionView, IsOutcome(e) => worker' = Idle,
         notices' = notices \/ (Notices' /\ DOMAIN notices \subseteq DOMAIN notices'),
         revived => revived',
         screen'.shown \/ screen'.shown = screen.shown \/ (~revived => HiddenIsAtRest'),
         \/ expected' = expected
         \/ /\ worker.step = "revert" /\ worker'.step = "report" /\ UNCHANGED <<worker.job, jobs, updates>>
            /\ expected' = Reverted /\ (revived' \/ Current)
  PROVE  Others'
<1>1. ControlTyped /\ JobsInOrder /\ OneLoad /\ EngineIsOwn /\ FrameIsHeard /\ FailureIsOnce /\ Notices /\ Silent
  BY DEF ControlInv
<1>2. JobsInOrder'
  <2>1. CASE Take
    BY <1>1, <2>1, Taken
  <2>2. CASE ~Take /\ worker' = Idle
    <3>1. IsOutcome(e) => worker.step # "idle" /\ Of(e) = worker.job.view
      BY DEF PostsOwn, IsOutcome, Of
    <3>2. jobs' = jobs
      BY <2>2 DEF WorkerSteps
    <3> QED
      BY <1>1, <2>2, <3>1, <3>2, JobsStay
  <2>3. CASE ~Take /\ worker' # Idle
    <3>1. jobs' = jobs /\ actionView' = actionView /\ ~IsOutcome(e)
      BY <2>3 DEF WorkerSteps
    <3>2. CASE worker' = worker
      BY <1>1, <3>1, <3>2, JobsStay
    <3>3. CASE worker' # worker
      <4>1. /\ worker'.job = worker.job /\ worker'.step # "idle" /\ worker.step # "idle"
            /\ worker'.step \in PlaySteps => worker.step \in PlaySteps
            /\ worker'.step \in CloseSteps => worker.step \in CloseSteps
        BY <2>3, <3>3 DEF WorkerSteps, PlaySteps, CloseSteps, LoadedSteps
      <4> QED
        BY <1>1, <3>1, <4>1, JobsStay
    <3> QED
      BY <3>2, <3>3
  <2> QED
    BY <2>1, <2>2, <2>3
<1>3. OneLoad'
  BY <1>1, LoadStays
<1>4. JobsOf /\ jobs' \in Seq(Jobs)
  <2>1. CASE Take
    BY <1>1, <2>1, Taken DEF JobsOf
  <2>2. CASE jobs' = jobs
    BY <1>1, <2>2 DEF JobsOf, ControlTyped
  <2> QED
    BY <2>1, <2>2 DEF WorkerSteps
<1>5. expected' = expected \/ (Loaded => engine.view # view)
  BY <1>1 DEF Reverted, EngineIsOwn, Loaded
<1>6. EngineIsOwn'
  <2>1. e.kind = "failed" => e.job.view = worker.job.view /\ worker.step = "report"
    BY DEF PostsOwn
  <2>2. view' = view /\ (expected' = expected \/ (Loaded => engine.view # view))
    BY <1>5
  <2> QED
    BY <1>1, <1>4, <2>1, <2>2, EngineStays
<1>7. FrameIsHeard'
  BY <1>1, FrameStays
<1>8. FailureIsOnce'
  <2>1. e.kind # "failure"
    BY DEF TellKinds
  <2> QED
    BY <1>1, <2>1, FailuresStay
<1>9. Notices'
  <2>1. e.kind # "failure"
    BY DEF TellKinds
  <2>2. engine' = engine /\ view' = view
    OBVIOUS
  <2>3. expected' = expected \/ (worker.step = "revert" /\ expected' = Reverted)
    OBVIOUS
  <2>4. CASE notices' = notices
    BY <1>1, <2>1, <2>2, <2>3, <2>4, NoticesStay
  <2> QED
    BY <2>4
<1>10. Silent'
  <2>1. \/ expected' = expected
        \/ revived'
        \/ /\ Current
           /\ \/ worker.step = "revert" /\ worker'.step = "report" /\ worker.job.kind = "select" /\ UNCHANGED <<worker.job, jobs, updates>>
              \/ worker.step = "loading" /\ worker'.step = "loaded" /\ UNCHANGED <<worker.job, jobs>> /\ e = Nothing
    BY DEF Reverted
  <2>2. engine' = engine /\ view' = view /\ DOMAIN notices \subseteq DOMAIN notices'
    OBVIOUS
  <2> QED
    BY <1>1, <2>1, <2>2, SilentStays
<1> QED
  BY <1>2, <1>3, <1>6, <1>7, <1>8, <1>9, <1>10 DEF Others

\* The worker goes on to a step.
LEMMA GoesTo ==
  ASSUME ControlTyped, NEW step \in PlaySteps \cup CloseSteps, GoTo(step)
  PROVE  worker'.job = worker.job /\ worker'.step = step /\ worker' # Idle
         /\ worker' \in [job : Jobs, step : PlaySteps \cup CloseSteps \cup {"idle"}]
<1>1. worker \in [job : Jobs, step : PlaySteps \cup CloseSteps \cup {"idle"}]
  BY DEF ControlTyped
<1>2. step # "idle"
  BY DEF PlaySteps, CloseSteps
<1> QED
  BY <1>1, <1>2 DEF GoTo, Idle

\* The worker ends its job.
LEMMA IdleTypes == Idle \in [job : Jobs, step : PlaySteps \cup CloseSteps \cup {"idle"}] /\ Idle.step = "idle" /\ Idle.job.kind = "none"
<1>1. NoJob \in Jobs
  BY DEF NoJob, Jobs, None
<1> QED
  BY <1>1 DEF Idle, NoJob

\* What a step of the worker that leaves the engine as it is has to show.
LEMMA WorkerCalm ==
  ASSUME ControlInv, NEW e, Moved(0, e), e.kind \notin {"load"} \cup TellKinds, PostsOwn(e),
         UNCHANGED <<view, engine, engines, watch, notices, actionView, jobs>>,
         active' = active \/ engine.id = None, screen'.shown = screen.shown,
         worker.step \notin {"idle", "loading", "close"}, worker'.step # "loading", WorkerSteps, ~Take,
         IsOutcome(e) => worker' = Idle,
         revived => revived',
         \/ expected' = expected
         \/ /\ worker.step = "revert" /\ worker'.step = "report" /\ UNCHANGED <<worker.job, jobs, updates>>
            /\ expected' = Reverted /\ (revived' \/ Current)
  PROVE  Others'
<1>1. ControlTyped /\ EngineIsOwn
  BY DEF ControlInv
<1>2. \/ worker' = Idle \/ worker' = worker
      \/ /\ worker'.job = worker.job /\ worker.step # "idle"
         /\ worker'.step \in {"endClear", "deactivate"} => worker.step \in {"endClear", "deactivate"}
         /\ \/ worker.step \in LoadedSteps /\ worker'.step \in LoadedSteps
            \/ worker'.step \in {"erred", "report"} /\ ~Current
            \/ worker.step \notin LoadedSteps /\ worker.step \notin {"erred", "report"}
            \/ worker.step \in {"erred", "report"} /\ Current
  BY DEF WorkerSteps, LoadedSteps
<1>3. WorkerFits'
  BY <1>1, <1>2, WorkerGoes
<1> QED
  BY <1>3, Calm

LEMMA WorkerTyped ==
  ASSUME ControlTyped, worker' \in [job : Jobs, step : PlaySteps \cup CloseSteps \cup {"idle"}],
         updates' \in Seq(Updates),
         UNCHANGED <<view, actionView, handled, known, screen, watch, deciding, jobs, engine, engines, notices>>,
         awaiting' \in BOOLEAN, revived' \in BOOLEAN, expected' \in Nat, active' \in {active, None},
         selection' = selection \/ selection' \in Episodes
  PROVE  ControlTyped'
<1>1. {view', actionView', expected', handled', active', engines'} \subseteq Nat /\ active' \in {None, engines'}
  BY DEF ControlTyped, None
<1>2. {awaiting', known', revived'} \subseteq BOOLEAN
  BY DEF ControlTyped
<1>3. selection' \in Episodes \cup {None} /\ (selection' = None => view' = 0 /\ ~screen'.shown)
  BY DEF ControlTyped, Episodes, None
<1> QED
  BY <1>1, <1>2, <1>3 DEF ControlTyped

\* The steps of the worker that leave the engine as it is.
LEMMA WorkerCalmStep ==
  ASSUME ControlInv,
         \/ PlayErrs \/ PlayReturns \/ Confirm \/ SetSelection \/ ClearAwaiting
         \/ Refuse \/ Revert \/ ReportError \/ EndClears \/ Deactivate
  PROVE  ControlInv'
<1>1. /\ ControlTyped /\ JobsInOrder /\ EngineIsOwn /\ updates \in Seq(Updates)
      /\ worker \in [job : Jobs, step : PlaySteps \cup CloseSteps \cup {"idle"}]
  BY DEF ControlInv, ControlTyped
<1>2. Nothing.kind = "nothing" /\ PostsOwn(Nothing) /\ ~IsOutcome(Nothing) /\ Nothing.kind \notin {"load"} \cup TellKinds
  BY DEF Nothing, PostsOwn, IsOutcome, TellKinds
<1>3. /\ view \in Nat /\ awaiting \in BOOLEAN /\ revived \in BOOLEAN /\ expected \in Nat /\ worker.job \in Jobs
      /\ worker.job.before \in Nat /\ worker.job.ep \in Episodes \cup {None} /\ worker.job.view \in Nat
  BY <1>1, JobTypes DEF ControlTyped
<1>4. UNCHANGED <<view, engine, engines, watch, screen, handled, known, deciding, notices, actionView, jobs>>
  BY DEF PlayErrs, PlayReturns, Confirm, SetSelection, ClearAwaiting, Refuse, Revert, ReportError, EndClears, Deactivate, ui, player
<1>5. UNCHANGED <<expected, revived>> \/ Revert
  BY DEF PlayErrs, PlayReturns, Confirm, SetSelection, ClearAwaiting, Refuse, ReportError, EndClears, Deactivate, ui
<1>6. ASSUME updates' = updates,
             \/ worker' = Idle
             \/ \E step \in PlaySteps \cup CloseSteps : GoTo(step),
             worker.step \notin {"idle", "loading", "close"}, worker'.step # "loading", WorkerSteps,
             UNCHANGED active, awaiting' \in BOOLEAN, selection' = selection \/ selection' \in Episodes,
             \/ UNCHANGED <<expected, revived>>
             \/ /\ worker.step = "revert" /\ worker'.step = "report" /\ worker'.job = worker.job
                /\ expected' = Reverted /\ revived' \in BOOLEAN /\ (revived' \/ Current) /\ (revived => revived')
      PROVE  ControlInv'
  <2>1. Moved(0, Nothing)
    BY <1>1, <1>6, Rested
  <2>2. worker' \in [job : Jobs, step : PlaySteps \cup CloseSteps \cup {"idle"}]
    BY <1>1, <1>6, GoesTo, IdleTypes
  <2>3. expected' \in Nat /\ revived' \in BOOLEAN
    BY <1>3, <1>6 DEF Reverted
  <2>4. ControlTyped'
    BY <1>1, <1>4, <1>6, <2>2, <2>3, WorkerTyped
  <2>5. ~Take
    BY <1>6 DEF Take
  <2>6. Others'
    BY <1>2, <1>4, <1>6, <2>1, <2>5, WorkerCalm
  <2> QED
    BY <2>4, <2>6 DEF ControlInv, Others
<1>7. ASSUME NEW u \in Updates, Post(u), u.kind \notin {"load"} \cup TellKinds, PostsOwn(u), worker' = Idle,
             worker.step \notin {"idle", "loading", "close"}, ~Take,
             active' = active \/ (active' = None /\ engine.id = None),
             awaiting' \in BOOLEAN, UNCHANGED <<expected, revived, selection>>
      PROVE  ControlInv'
  <2>1. Moved(0, u) /\ updates' \in Seq(Updates)
    BY <1>1, <1>7, Posted
  <2>2. ControlTyped'
    BY <1>1, <1>3, <1>4, <1>7, <2>1, IdleTypes, WorkerTyped
  <2>3. WorkerSteps /\ worker'.step # "loading"
    BY <1>4, <1>7, IdleTypes DEF WorkerSteps
  <2>4. Others'
    BY <1>4, <1>7, <2>1, <2>3, WorkerCalm
  <2> QED
    BY <2>2, <2>4 DEF ControlInv, Others
<1>10. CASE PlayErrs
  <2>1. worker.step = "play" /\ GoTo("erred") /\ updates' = updates /\ UNCHANGED <<active, awaiting, selection, expected, revived>>
    BY <1>10 DEF PlayErrs, ui, player
  <2>2. worker'.job = worker.job /\ worker'.step = "erred" /\ "erred" \in PlaySteps \cup CloseSteps
    BY <1>1, <2>1, GoesTo DEF PlaySteps
  <2>3. WorkerSteps
    BY <1>4, <2>1, <2>2 DEF WorkerSteps
  <2> QED
    BY <1>3, <1>6, <2>1, <2>2, <2>3
<1>11. CASE PlayReturns
  <2>1. worker.step = "loaded" /\ updates' = updates /\ UNCHANGED <<active, awaiting, selection, expected, revived>>
        /\ (GoTo("returned") \/ (GoTo("erred") /\ ~Current))
    BY <1>11 DEF PlayReturns, ui, player
  <2>2. "erred" \in PlaySteps /\ "returned" \in PlaySteps /\ "loaded" \in LoadedSteps
    BY DEF PlaySteps, LoadedSteps
  <2>3. worker'.job = worker.job /\ (worker'.step = "returned" \/ (worker'.step = "erred" /\ ~Current))
    BY <1>1, <2>1, <2>2, GoesTo
  <2>4. WorkerSteps
    BY <1>4, <2>1, <2>2, <2>3 DEF WorkerSteps
  <2> QED
    BY <1>3, <1>6, <2>1, <2>2, <2>3, <2>4
<1>12. CASE Confirm
  <2>1. worker.step = "returned" /\ updates' = updates /\ UNCHANGED <<active, awaiting, selection, expected, revived>>
        /\ (GoTo("select") \/ worker' = Idle)
    BY <1>12 DEF Confirm, ui, player
  <2>2. "select" \in PlaySteps /\ "returned" \in LoadedSteps
    BY DEF PlaySteps, LoadedSteps
  <2>3. worker' = Idle \/ (worker'.job = worker.job /\ worker'.step = "select")
    BY <1>1, <2>1, <2>2, GoesTo
  <2>4. WorkerSteps /\ worker'.step # "loading"
    BY <1>4, <2>1, <2>2, <2>3, IdleTypes DEF WorkerSteps
  <2> QED
    BY <1>3, <1>6, <2>1, <2>2, <2>3, <2>4
<1>13. CASE SetSelection
  <2>1. worker.step = "select" /\ updates' = updates /\ UNCHANGED <<active, awaiting, expected, revived>>
        /\ GoTo("clear") /\ selection' = worker.job.ep
    BY <1>13 DEF SetSelection, player
  <2>2. "select" \in PlaySteps /\ "clear" \in PlaySteps /\ "select" \in LoadedSteps
    BY DEF PlaySteps, LoadedSteps
  <2>3. worker'.job = worker.job /\ worker'.step = "clear" /\ worker.job.ep \in Episodes
    BY <1>1, <1>3, <2>1, <2>2, GoesTo DEF JobsInOrder
  <2>4. WorkerSteps
    BY <1>4, <2>1, <2>2, <2>3 DEF WorkerSteps
  <2> QED
    BY <1>3, <1>6, <2>1, <2>2, <2>3, <2>4
<1>14. CASE ClearAwaiting
  <2>1. worker.step = "clear" /\ UNCHANGED <<active, selection, expected, revived>> /\ worker' = Idle /\ awaiting' = FALSE
    BY <1>14 DEF ClearAwaiting, player
  <2>2. CASE worker.job.kind = "play"
    <3> DEFINE u == [kind |-> "list", view |-> worker.job.view]
    <3>1. worker.job.view \in Nat \ {0}
      BY <1>1, <1>3, <2>1 DEF JobsInOrder
    <3>2. u \in Updates /\ u.kind = "list" /\ Post(u)
      BY <1>14, <2>2, <3>1, UpdateLiterals DEF ClearAwaiting
    <3> HIDE DEF u
    <3>3. u.kind \notin {"load"} \cup TellKinds /\ PostsOwn(u) /\ ~Take
      BY <2>1, <3>2 DEF TellKinds, PostsOwn, Take
    <3> QED
      BY <1>7, <2>1, <3>2, <3>3
  <2>3. CASE worker.job.kind # "play"
    <3>1. updates' = updates
      BY <1>14, <2>3 DEF ClearAwaiting
    <3>2. WorkerSteps /\ worker'.step # "loading"
      BY <1>4, <2>1, IdleTypes DEF WorkerSteps
    <3> QED
      BY <1>6, <2>1, <3>1, <3>2
  <2> QED
    BY <2>2, <2>3
<1>15. CASE Refuse
  <2>1. worker.step = "erred" /\ updates' = updates /\ UNCHANGED <<active, awaiting, selection, expected, revived>>
        /\ GoTo(IF Current THEN "revert" ELSE "report")
    BY <1>15 DEF Refuse, ui, player
  <2>2. "revert" \in PlaySteps /\ "report" \in PlaySteps
    BY DEF PlaySteps
  <2>3. worker'.job = worker.job /\ worker'.step = (IF Current THEN "revert" ELSE "report")
    BY <1>1, <2>1, <2>2, GoesTo
  <2>4. WorkerSteps /\ \E step \in PlaySteps : GoTo(step)
    BY <1>4, <2>1, <2>2, <2>3 DEF WorkerSteps
  <2> QED
    BY <1>3, <1>6, <2>1, <2>2, <2>3, <2>4
<1>16. CASE Revert
  <2>1. worker.step = "revert" /\ updates' = updates /\ UNCHANGED <<active, selection>> /\ awaiting' = FALSE
        /\ GoTo("report") /\ expected' = Reverted /\ revived' = (revived \/ (Reverted # expected /\ ~Current))
    BY <1>16 DEF Revert, player
  <2>2. "report" \in PlaySteps
    BY DEF PlaySteps
  <2>3. worker'.job = worker.job /\ worker'.step = "report"
    BY <1>1, <2>1, <2>2, GoesTo
  <2>4. WorkerSteps
    BY <1>4, <2>1, <2>3 DEF WorkerSteps
  <2>5. CASE Reverted = expected
    BY <1>3, <1>6, <2>1, <2>2, <2>3, <2>4, <2>5
  <2>6. CASE Reverted # expected
    BY <1>3, <1>6, <2>1, <2>2, <2>3, <2>4, <2>6
  <2> QED
    BY <2>5, <2>6
<1>17. CASE ReportError
  <2> DEFINE u == [kind |-> "failed", job |-> worker.job]
  <2>1. worker.step = "report" /\ UNCHANGED <<active, awaiting, selection, expected, revived>> /\ worker' = Idle /\ Post(u)
    BY <1>17 DEF ReportError, ui, player
  <2>2. u \in Updates /\ u.kind = "failed" /\ u.job = worker.job
    BY <1>3, UpdateLiterals
  <2> HIDE DEF u
  <2>3. u.kind \notin {"load"} \cup TellKinds /\ PostsOwn(u) /\ ~Take
    BY <2>1, <2>2 DEF TellKinds, PostsOwn, Take
  <2> QED
    BY <1>3, <1>7, <2>1, <2>2, <2>3
<1>18. CASE EndClears
  <2>1. worker.step = "endClear" /\ updates' = updates /\ UNCHANGED <<active, selection, expected, revived>> /\ awaiting' = FALSE
        /\ GoTo("deactivate")
    BY <1>18 DEF EndClears, player
  <2>2. "deactivate" \in CloseSteps
    BY DEF CloseSteps
  <2>3. worker'.job = worker.job /\ worker'.step = "deactivate"
    BY <1>1, <2>1, <2>2, GoesTo
  <2>4. WorkerSteps
    BY <1>4, <2>1, <2>3 DEF WorkerSteps
  <2> QED
    BY <1>3, <1>6, <2>1, <2>2, <2>3, <2>4
<1>19. CASE Deactivate
  <2>1. worker.step = "deactivate" /\ UNCHANGED <<engine, awaiting, selection, expected, revived>> /\ worker' = Idle /\ active' = None
        /\ engine.id = None
    BY <1>1, <1>19 DEF Deactivate, ui, EngineIsOwn
  <2>2. CASE worker.job.kind = "stop"
    <3> DEFINE u == [kind |-> "stopped", view |-> worker.job.view]
    <3>1. worker.job.view \in Nat \ {0}
      BY <1>1, <1>3, <2>1 DEF JobsInOrder
    <3>2. u \in Updates /\ u.kind = "stopped" /\ u.view = worker.job.view /\ Post(u)
      BY <1>19, <2>2, <3>1, UpdateLiterals DEF Deactivate
    <3> HIDE DEF u
    <3>3. u.kind \notin {"load"} \cup TellKinds /\ PostsOwn(u) /\ ~Take
      BY <2>1, <2>2, <3>2 DEF TellKinds, PostsOwn, Take
    <3> QED
      BY <1>3, <1>7, <2>1, <3>2, <3>3
  <2>3. CASE worker.job.kind # "stop"
    <3>1. updates' = updates /\ Moved(0, Nothing)
      BY <1>1, <1>19, <2>3, Rested DEF Deactivate
    <3>2. WorkerSteps /\ worker'.step # "loading" /\ ~Take
      BY <1>4, <2>1, IdleTypes DEF WorkerSteps, Take
    <3>3. Others'
      BY <1>2, <1>4, <2>1, <3>1, <3>2, WorkerCalm
    <3>4. ControlTyped'
      BY <1>1, <1>3, <1>4, <2>1, <3>1, IdleTypes, WorkerTyped
    <3> QED
      BY <3>3, <3>4 DEF ControlInv, Others
  <2> QED
    BY <2>2, <2>3
<1> QED
  BY <1>10, <1>11, <1>12, <1>13, <1>14, <1>15, <1>16, <1>17, <1>18, <1>19

\* The worker takes a job.
LEMMA TakeStep == ControlInv /\ Take => ControlInv'
<1> SUFFICES ASSUME ControlInv, Take PROVE ControlInv'
  OBVIOUS
<1>1. /\ ControlTyped /\ JobsInOrder /\ EngineIsOwn /\ jobs \in Seq(Jobs) /\ view \in Nat
      /\ worker \in [job : Jobs, step : PlaySteps \cup CloseSteps \cup {"idle"}]
  BY DEF ControlInv, ControlTyped
<1>2. /\ jobs' \in Seq(Jobs) /\ 1 \in DOMAIN jobs
      /\ \/ worker' = worker
         \/ /\ worker'.job = jobs[1] /\ worker'.step \in {"play", "close"}
            /\ worker'.step = "play" => jobs[1].view = view
  BY <1>1, Taken
<1>3. /\ UNCHANGED <<view, expected, awaiting, selection, known, screen, watch, handled, deciding, engine, active, engines,
                     updates, notices, revived>>
      /\ worker.step = "idle"
      /\ \/ worker' = worker /\ actionView' = actionView
         \/ worker' = [job |-> Head(jobs), step |-> "play"] /\ actionView' = Head(jobs).view
         \/ worker' = [job |-> Head(jobs), step |-> "close"] /\ actionView' = actionView
  BY DEF Take, ui, player
<1>4. jobs[1] \in Jobs /\ Head(jobs) = jobs[1] /\ jobs[1].view \in Nat
  BY <1>1, <1>2, JobTypes
<1>5. worker' \in [job : Jobs, step : PlaySteps \cup CloseSteps \cup {"idle"}] /\ actionView' \in Nat
  <2>1. actionView \in Nat
    BY <1>1 DEF ControlTyped
  <2>2. "play" \in PlaySteps /\ "close" \in CloseSteps
    BY DEF PlaySteps, CloseSteps
  <2> QED
    BY <1>1, <1>3, <1>4, <2>1, <2>2
<1>6. ControlTyped'
  <2>1. {view', actionView', expected', handled', active', engines'} \subseteq Nat
    BY <1>1, <1>3, <1>5 DEF ControlTyped
  <2> QED
    BY <1>1, <1>2, <1>3, <1>5, <2>1 DEF ControlTyped
<1>7. WorkerFits'
  <2>1. CASE worker' = worker
    BY <1>1, <1>3, <2>1 DEF WorkerFits, EngineIsOwn, Loaded, Current
  <2>2. CASE worker'.job = jobs[1] /\ worker'.step \in {"play", "close"}
    <3>1. Loaded => engine.view < jobs[1].view
      BY <1>1, <1>2 DEF EngineIsOwn
    <3>2. Loaded => engine.view <= jobs[1].view /\ engine.view # jobs[1].view
      BY <1>1, <1>4, <3>1, Numbers
    <3> QED
      BY <1>3, <2>2, <3>2 DEF WorkerFits, Loaded
  <2> QED
    BY <1>2, <2>1, <2>2
<1>8. Moved(0, Nothing) /\ Nothing.kind = "nothing" /\ PostsOwn(Nothing) /\ ~IsOutcome(Nothing) /\ Nothing.kind \notin {"load"} \cup TellKinds
  BY <1>1, <1>3, Rested DEF Nothing, PostsOwn, IsOutcome, TellKinds
<1>9. WorkerSteps /\ (worker'.step = "loading" <=> worker.step = "loading")
  BY <1>2, <1>3 DEF WorkerSteps
<1>10. Others'
  BY <1>3, <1>7, <1>8, <1>9, Calm
<1> QED
  BY <1>6, <1>10 DEF ControlInv, Others

\* What a step leaves of the conjuncts when it does with the engine what the
\* lemmas above say.
LEMMA EngineOthers ==
  ASSUME ControlInv, EngineIsOwn' /\ FrameIsHeard' /\ FailureIsOnce',
         NEW e, Moved(0, e), PostsOwn(e), ~IsOutcome(e), e.kind = "failure" => MayFail /\ Loaded,
         e.kind = "load" => worker.step = "play" /\ worker'.step = "loading" /\ \E i \in DOMAIN updates' : updates'[i] = e,
         UNCHANGED <<view, notices, watch, screen, expected, revived, jobs, actionView>>, WorkerSteps, ~Take,
         e.kind # "load" => (worker'.step = "loading" <=> worker.step = "loading"),
         \/ engine' = engine
         \/ engine'.file = "none"
         \/ MayFail /\ Loaded /\ engine'.view = engine.view
  PROVE  Others'
<1>1. ControlTyped /\ JobsInOrder /\ OneLoad /\ EngineIsOwn /\ FrameIsHeard /\ FailureIsOnce /\ Notices /\ Silent
  BY DEF ControlInv
<1>2. JobsInOrder'
  <2>1. CASE worker' = worker \/ worker' = Idle
    BY <1>1, <2>1, JobsStay
  <2>2. CASE worker' # worker /\ worker' # Idle
    <3>1. /\ worker'.job = worker.job /\ worker'.step # "idle" /\ worker.step # "idle"
          /\ worker'.step \in PlaySteps => worker.step \in PlaySteps
          /\ worker'.step \in CloseSteps => worker.step \in CloseSteps
      BY <2>2 DEF WorkerSteps, PlaySteps, CloseSteps, LoadedSteps
    <3> QED
      BY <1>1, <3>1, JobsStay
  <2> QED
    BY <2>1, <2>2
<1>3. OneLoad'
  <2>1. CASE e.kind = "load"
    BY <1>1, <2>1, LoadPosted
  <2>2. CASE e.kind # "load"
    BY <1>1, <2>2, LoadStays
  <2> QED
    BY <2>1, <2>2
<1>4. Notices'
  <2>1. ~Loaded' <=> engine'.file = "none"
    BY DEF Loaded
  <2> QED
    BY <1>1, <2>1, NoticesStay
<1>5. Silent'
  <2>1. DOMAIN notices \subseteq DOMAIN notices' /\ watch'.view = watch.view /\ screen'.shown = screen.shown
    OBVIOUS
  <2> QED
    BY <1>1, <2>1, SilentStays
<1> QED
  BY <1>2, <1>3, <1>4, <1>5 DEF Others

LEMMA NoEngineTypes ==
  ASSUME ControlTyped
  PROVE  /\ NoEngine \in [id : Nat, gen : Nat, view : Nat, ep : Episodes \cup {None}, file : Files]
         /\ NoEngine.id = None /\ NoEngine.file = "none"
         /\ \A k \in Nat : /\ [NoEngine EXCEPT !.id = k] \in [id : Nat, gen : Nat, view : Nat, ep : Episodes \cup {None}, file : Files]
                           /\ [NoEngine EXCEPT !.id = k].id = k /\ [NoEngine EXCEPT !.id = k].file = "none"
BY DEF NoEngine, None, Files

LEMMA CountersTyped ==
  ASSUME ControlTyped
  PROVE  /\ {view, actionView, handled, active, engines} \subseteq Nat /\ active \in {None, engines} /\ engines + 1 \in Nat
         /\ None \in Nat
<1>1. {view, actionView, expected, handled, active, engines} \subseteq Nat /\ active \in {None, engines}
  BY DEF ControlTyped
<1>2. None \in Nat
  BY DEF None
<1> QED
  BY <1>1, <1>2

LEMMA EngineTyped ==
  ASSUME ControlTyped,
         engine' \in [id : Nat, gen : Nat, view : Nat, ep : Episodes \cup {None}, file : Files],
         engine'.id \in {None, engines'},
         \/ UNCHANGED <<active, engines>>
         \/ engines' = engines + 1 /\ active' = engines'
         \/ UNCHANGED engines /\ active' = None,
         worker' \in [job : Jobs, step : PlaySteps \cup CloseSteps \cup {"idle"}],
         updates' \in Seq(Updates), expected' \in Nat,
         UNCHANGED <<view, actionView, awaiting, selection, known, screen, watch, handled, deciding, jobs, notices, revived>>
  PROVE  ControlTyped'
<1>1. {view', actionView', expected', handled', active', engines'} \subseteq Nat /\ active' \in {None, engines'}
  <2>1. /\ {view, actionView, handled, active, engines} \subseteq Nat /\ active \in {None, engines} /\ engines + 1 \in Nat
        /\ None \in Nat
    BY CountersTyped
  <2>2. active' \in Nat /\ engines' \in Nat /\ active' \in {None, engines'}
    BY <2>1
  <2> QED
    BY <2>1, <2>2
<1> QED
  BY <1>1 DEF ControlTyped

\* The session dies or is closed.
LEMMA SessionCloses == ControlInv /\ (SessionDies \/ CloseSession) => ControlInv'
<1> SUFFICES ASSUME ControlInv, SessionDies \/ CloseSession PROVE ControlInv'
  OBVIOUS
<1>1. ControlTyped /\ JobsInOrder /\ OneLoad /\ EngineIsOwn /\ expected \in Nat /\ updates \in Seq(Updates)
      /\ worker \in [job : Jobs, step : PlaySteps \cup CloseSteps \cup {"idle"}]
  BY DEF ControlInv, ControlTyped
<1>2. /\ engine' = NoEngine
      /\ UNCHANGED <<view, actionView, expected, awaiting, selection, known, screen, watch, handled, deciding, jobs,
                     active, engines, updates, notices, revived>>
  BY DEF SessionDies, CloseSession, ui
<1>3. \/ worker.step = "play" /\ worker' = worker
      \/ worker.step = "close" /\ worker'.job = worker.job /\ worker'.step \in {"endClear", "deactivate"}
         /\ worker' \in [job : Jobs, step : PlaySteps \cup CloseSteps \cup {"idle"}]
  <2>1. CASE SessionDies
    BY <2>1 DEF SessionDies
  <2>2. CASE CloseSession
    <3>1. "endClear" \in CloseSteps /\ "deactivate" \in CloseSteps
      BY DEF CloseSteps
    <3>2. worker.step = "close" /\ (GoTo("endClear") \/ GoTo("deactivate"))
      BY <2>2 DEF CloseSession
    <3> QED
      BY <1>1, <3>1, <3>2, GoesTo
  <2> QED
    BY <2>1, <2>2
<1>4. Moved(0, Nothing) /\ PostsOwn(Nothing) /\ ~IsOutcome(Nothing) /\ Nothing.kind \notin {"load", "failure"} \cup TellKinds
  BY <1>1, <1>2, Rested DEF Nothing, PostsOwn, IsOutcome, TellKinds
<1>5. engine' \in [id : Nat, gen : Nat, view : Nat, ep : Episodes \cup {None}, file : Files] /\ engine'.id = None /\ engine'.file = "none"
  BY <1>1, <1>2, NoEngineTypes
<1>6. ControlTyped'
  BY <1>1, <1>2, <1>3, <1>5, EngineTyped
<1>7. WorkerFits'
  BY <1>3, <1>5 DEF WorkerFits, Loaded
<1>8. EngineIsOwn' /\ FrameIsHeard' /\ FailureIsOnce'
  BY <1>1, <1>2, <1>4, <1>7, EngineCloses
<1>9. WorkerSteps /\ ~Take /\ (worker'.step = "loading" <=> worker.step = "loading")
  BY <1>2, <1>3 DEF WorkerSteps, Take
<1>10. Others'
  BY <1>2, <1>4, <1>5, <1>8, <1>9, EngineOthers
<1> QED
  BY <1>6, <1>10 DEF ControlInv, Others

\* A load is posted, for the open engine or a new one.
LEMMA PlayLoadsStep == ControlInv /\ PlayLoads => ControlInv'
<1> SUFFICES ASSUME ControlInv, PlayLoads PROVE ControlInv'
  OBVIOUS
<1> DEFINE u == [kind |-> "load"]
<1>1. ControlTyped /\ JobsInOrder /\ OneLoad /\ EngineIsOwn /\ FrameIsHeard /\ FailureIsOnce /\ expected \in Nat /\ updates \in Seq(Updates)
      /\ engines \in Nat
      /\ engine \in [id : Nat, gen : Nat, view : Nat, ep : Episodes \cup {None}, file : Files] /\ engine.id \in {None, engines}
  BY DEF ControlInv, ControlTyped
<1>2. /\ worker.step = "play" /\ GoTo("loading") /\ Post(u)
      /\ \/ engine.id = None /\ engines' = engines + 1 /\ engine' = [NoEngine EXCEPT !.id = engines + 1] /\ active' = engines + 1
         \/ engine.id # None /\ UNCHANGED <<engine, active, engines>>
      /\ UNCHANGED <<view, actionView, expected, awaiting, selection, known, screen, watch, handled, deciding, jobs, notices, revived>>
  BY DEF PlayLoads, ui, player
<1>3. u \in Updates /\ u.kind = "load"
  BY UpdateLiterals
<1> HIDE DEF u
<1>4. Moved(0, u) /\ updates' \in Seq(Updates) /\ \E i \in DOMAIN updates' : updates'[i] = u
  BY <1>1, <1>2, <1>3, Posted
<1>5. PostsOwn(u) /\ ~IsOutcome(u) /\ u.kind \notin {"failure", "failed"} \cup TellKinds
  BY <1>3 DEF PostsOwn, IsOutcome, TellKinds
<1>6. worker'.job = worker.job /\ worker'.step = "loading" /\ worker' \in [job : Jobs, step : PlaySteps \cup CloseSteps \cup {"idle"}]
  <2>1. "loading" \in PlaySteps
    BY DEF PlaySteps
  <2> QED
    BY <1>1, <1>2, <2>1, GoesTo
<1>7. WorkerSteps /\ ~Take
  BY <1>2, <1>6 DEF WorkerSteps, Take
<1>8. CASE engine.id = None
  <2>1. /\ engine' \in [id : Nat, gen : Nat, view : Nat, ep : Episodes \cup {None}, file : Files]
        /\ engine'.id = engines + 1 /\ engine'.file = "none"
    BY <1>1, <1>2, <1>8, NoEngineTypes
  <2>2. ControlTyped'
    BY <1>1, <1>2, <1>4, <1>6, <1>8, <2>1, EngineTyped
  <2>3. EngineIsOwn' /\ FrameIsHeard' /\ FailureIsOnce'
    BY <1>1, <1>2, <1>4, <1>5, <1>6, <1>8, EngineMade
  <2>4. Others'
    BY <1>2, <1>3, <1>4, <1>5, <1>6, <1>7, <2>1, <2>3, EngineOthers
  <2> QED
    BY <2>2, <2>4 DEF ControlInv, Others
<1>9. CASE engine.id # None
  <2>1. engine' = engine /\ active' = active /\ engines' = engines
    BY <1>2, <1>9
  <2>2. ControlTyped'
    BY <1>1, <1>2, <1>4, <1>6, <2>1, EngineTyped
  <2>3. WorkerFits'
    <3>1. worker.step # "idle" /\ worker.step \notin LoadedSteps /\ worker.step \notin {"erred", "report"}
      BY <1>2 DEF LoadedSteps
    <3> QED
      BY <1>1, <1>2, <1>6, <1>9, <2>1, <3>1, WorkerGoes
  <2>4. JobsOf /\ jobs' \in Seq(Jobs)
    BY <1>1, <1>2 DEF JobsOf, ControlTyped
  <2>5. EngineIsOwn' /\ FrameIsHeard' /\ FailureIsOnce'
    <3>1. EngineIsOwn'
      BY <1>1, <1>2, <1>4, <1>5, <2>1, <2>3, <2>4, EngineStays
    <3>2. FrameIsHeard'
      BY <1>1, <1>2, <1>4, <2>1, FrameStays
    <3>3. FailureIsOnce'
      BY <1>1, <1>4, <1>5, <2>1, FailuresStay
    <3> QED
      BY <3>1, <3>2, <3>3
  <2>6. Others'
    BY <1>2, <1>3, <1>4, <1>5, <1>6, <1>7, <2>1, <2>5, EngineOthers
  <2> QED
    BY <2>2, <2>6 DEF ControlInv, Others
<1> QED
  BY <1>8, <1>9

\* The file starts, fails or ends.
LEMMA FileSteps == ControlInv /\ (FileStarts \/ FileFails \/ FileEnds) => ControlInv'
<1> SUFFICES ASSUME ControlInv, FileStarts \/ FileFails \/ FileEnds PROVE ControlInv'
  OBVIOUS
<1>1. ControlTyped /\ JobsInOrder /\ OneLoad /\ EngineIsOwn /\ FailureIsOnce /\ expected \in Nat /\ updates \in Seq(Updates)
      /\ engine \in [id : Nat, gen : Nat, view : Nat, ep : Episodes \cup {None}, file : Files] /\ engine.id \in {None, engines}
      /\ worker \in [job : Jobs, step : PlaySteps \cup CloseSteps \cup {"idle"}]
  BY DEF ControlInv, ControlTyped
<1>2. PICK kind \in TellKinds, to \in {"playing", "failed", "ended"} :
        /\ engine' = [engine EXCEPT !.file = to] /\ Post(Told(kind))
        /\ engine.file \in {"loading", "playing"}
        /\ kind = "failure" <=> to = "failed"
        /\ to = "playing" => kind = "start"
  <2>1. CASE FileStarts
    BY <2>1 DEF FileStarts, FileGoes, TellKinds
  <2>2. CASE FileFails
    BY <2>2 DEF FileFails, FileGoes, TellKinds
  <2>3. CASE FileEnds
    BY <2>3 DEF FileEnds, FileGoes, TellKinds
  <2> QED
    BY <2>1, <2>2, <2>3
<1>3. UNCHANGED <<view, actionView, expected, awaiting, selection, known, screen, watch, handled, deciding, jobs, worker,
                  active, engines, notices, revived>>
  BY DEF FileStarts, FileFails, FileEnds, FileGoes, ui
<1>4. Loaded /\ MayFail
  BY <1>2 DEF Loaded, MayFail
<1>5. Told(kind) \in Updates /\ Told(kind).kind = kind
  <2>1. engine.id \in Nat \ {0} /\ engine.gen \in Nat \ {0} /\ engine.view \in Nat \ {0} /\ engine.ep \in Episodes
    BY <1>1, <1>4 DEF EngineIsOwn, Loaded, None
  <2> QED
    BY <1>2, <2>1, UpdateLiterals DEF Told
<1>6. Moved(0, Told(kind)) /\ updates' \in Seq(Updates) /\ \E i \in DOMAIN updates' : updates'[i] = Told(kind)
  BY <1>1, <1>2, <1>5, Posted
<1>7. EngineIsOwn' /\ FrameIsHeard' /\ FailureIsOnce'
  <2>1. engine.file # "failed"
    BY <1>2
  <2> QED
    BY <1>1, <1>2, <1>3, <1>4, <1>6, <2>1, EngineTells
<1>8. engine' \in [id : Nat, gen : Nat, view : Nat, ep : Episodes \cup {None}, file : Files]
      /\ engine'.id = engine.id /\ engine'.view = engine.view
  BY <1>1, <1>2 DEF Files
<1>9. ControlTyped'
  BY <1>1, <1>3, <1>6, <1>8, EngineTyped
<1>10. PostsOwn(Told(kind)) /\ ~IsOutcome(Told(kind)) /\ Told(kind).kind # "load"
  BY <1>2, <1>5 DEF PostsOwn, IsOutcome, TellKinds
<1>11. WorkerSteps /\ ~Take
  <2>1. ~Take
    BY <1>1, <1>3, <1>6 DEF Take, Moved
  <2> QED
    BY <1>3, <2>1 DEF WorkerSteps
<1>12. Others'
  BY <1>3, <1>4, <1>6, <1>7, <1>8, <1>10, <1>11, EngineOthers
<1> QED
  BY <1>9, <1>12 DEF ControlInv, Others

\* An update that runs, or a post, that leaves the queue, the worker and the
\* engine as they are.
LEMMA UICalm ==
  ASSUME ControlInv, NEW n, NEW e, Moved(n, e), Quiet(e), updates' \in Seq(Updates),
         n = 1 => /\ updates[1].kind # "load"
                  /\ updates[1].kind = "start" /\ OfEngine(updates[1]) /\ engine.view = view => watch'.view # view,
         UNCHANGED <<view, actionView, expected, awaiting, selection, jobs, worker, engine, active, engines, revived>>,
         watch' \in {watch, NoWatch, [watch EXCEPT !.armed = FALSE]},
         known' \in BOOLEAN, handled' \in Nat, deciding' \subseteq Ends,
         screen' \in [shown : BOOLEAN, playing : BOOLEAN, loading : BOOLEAN], screen'.shown => screen.shown,
         screen'.shown = screen.shown \/ (~revived => HiddenIsAtRest'),
         \/ notices' = notices
         \/ /\ Notices' /\ DOMAIN notices \subseteq DOMAIN notices'
            /\ notices' = [v \in DOMAIN notices' |-> notices'[v]]
  PROVE  ControlInv'
<1>1. ControlTyped /\ EngineIsOwn
      /\ watch \in [view : Nat, armed : BOOLEAN] /\ (watch.armed => watch.view # None)
  BY DEF ControlInv, ControlTyped
<1>2. watch' \in [view : Nat, armed : BOOLEAN] /\ (watch'.armed => watch'.view # None) /\ watch'.view \in {watch.view, None}
  <2>1. CASE watch' = watch
    BY <1>1, <2>1
  <2>2. CASE watch' = NoWatch
    BY <2>2 DEF NoWatch, None
  <2>3. CASE watch' = [watch EXCEPT !.armed = FALSE]
    BY <1>1, <2>3
  <2> QED
    BY <2>1, <2>2, <2>3
<1>3. ControlTyped'
  <2>1. {view', actionView', expected', handled', active', engines'} \subseteq Nat /\ {awaiting', known', revived'} \subseteq BOOLEAN
    BY <1>1 DEF ControlTyped
  <2>2. notices' = [v \in DOMAIN notices' |-> notices'[v]]
    BY <1>1 DEF ControlTyped
  <2>3. selection' \in Episodes \cup {None} /\ (selection' = None => view' = 0 /\ ~screen'.shown)
    BY <1>1 DEF ControlTyped
  <2> QED
    BY <1>1, <1>2, <2>1, <2>2, <2>3 DEF ControlTyped
<1>4. WorkerSteps /\ WorkerFits'
  BY <1>1, WorkerGoes DEF WorkerSteps
<1>5. e.kind \notin {"load"} \cup TellKinds /\ PostsOwn(e) /\ ~IsOutcome(e)
  BY DEF Quiet, TellKinds, PostsOwn, IsOutcome
<1>6. Others'
  BY <1>2, <1>4, <1>5, Calm
<1> QED
  BY <1>3, <1>6 DEF ControlInv, Others

LEMMA UITypes ==
  ASSUME ControlInv
  PROVE  /\ ControlTyped /\ known \in BOOLEAN /\ handled \in Nat /\ deciding \subseteq Ends /\ updates \in Seq(Updates)
         /\ watch \in [view : Nat, armed : BOOLEAN] /\ (watch.armed => watch.view # None)
         /\ screen \in [shown : BOOLEAN, playing : BOOLEAN, loading : BOOLEAN]
         /\ selection \in Episodes \cup {None} /\ (selection = None => view = 0 /\ ~screen.shown)
         /\ view \in Nat /\ expected \in Nat
BY DEF ControlInv, ControlTyped

LEMMA TickStep == ControlInv /\ Tick => ControlInv'
<1> SUFFICES ASSUME ControlInv, Tick PROVE ControlInv'
  OBVIOUS
<1>1. /\ screen' = [screen EXCEPT !.playing = TRUE, !.loading = FALSE] /\ updates' = updates
      /\ UNCHANGED <<view, actionView, expected, awaiting, selection, known, watch, handled, deciding, jobs, worker,
                     engine, active, engines, notices, revived>>
  BY DEF Tick, player
<1>2. screen' \in [shown : BOOLEAN, playing : BOOLEAN, loading : BOOLEAN] /\ screen'.shown = screen.shown
  BY <1>1, UITypes
<1>3. Moved(0, Nothing) /\ Quiet(Nothing)
  BY <1>1, UITypes, Rested DEF Quiet, Nothing
<1> QED
  BY <1>1, <1>2, <1>3, UITypes, UICalm

LEMMA TimerStep == ControlInv /\ TimerFires => ControlInv'
<1> SUFFICES ASSUME ControlInv, TimerFires PROVE ControlInv'
  OBVIOUS
<1> DEFINE u == [kind |-> "timeout", view |-> watch.view]
<1>1. /\ watch.armed /\ watch' = [watch EXCEPT !.armed = FALSE] /\ Post(u)
      /\ UNCHANGED <<view, actionView, expected, awaiting, selection, known, screen, handled, deciding, jobs, worker,
                     engine, active, engines, notices, revived>>
  BY DEF TimerFires, player
<1>2. u \in Updates /\ Quiet(u)
  <2>1. watch.view \in Nat \ {0}
    BY <1>1, UITypes DEF None
  <2> QED
    BY <2>1, UpdateLiterals DEF Quiet
<1> HIDE DEF u
<1>3. Moved(0, u) /\ updates' \in Seq(Updates)
  BY <1>1, <1>2, UITypes, Posted
<1> QED
  BY <1>1, <1>2, <1>3, UITypes, UICalm

LEMMA ReadSettingsStep == ASSUME ControlInv, NEW end \in deciding, NEW next \in BOOLEAN, ReadSettings(end, next) PROVE ControlInv'
<1> DEFINE u == [kind |-> "decide", end |-> end, next |-> next]
<1>1. /\ deciding' = deciding \ {end} /\ Post(u)
      /\ UNCHANGED <<view, actionView, expected, awaiting, selection, known, screen, watch, handled, jobs, worker,
                     engine, active, engines, notices, revived>>
  BY DEF ReadSettings, ui, player
<1>2. u \in Updates /\ Quiet(u)
  <2>1. end \in Ends
    BY UITypes
  <2> QED
    BY <2>1, UpdateLiterals DEF Quiet
<1> HIDE DEF u
<1>3. Moved(0, u) /\ updates' \in Seq(Updates)
  BY <1>1, <1>2, UITypes, Posted
<1>4. deciding' \subseteq Ends
  BY <1>1, UITypes
<1> QED
  BY <1>1, <1>2, <1>3, <1>4, UITypes, UICalm

\* The update that runs.
LEMMA Running ==
  ASSUME ControlInv, NEW kind, Next1(kind)
  PROVE  /\ Moved(1, Nothing) /\ Quiet(Nothing) /\ updates' \in Seq(Updates)
         /\ 1 \in DOMAIN updates /\ Update = updates[1] /\ Update.kind = kind /\ Update \in Updates
BY UITypes, Ran DEF Quiet, Nothing

\* The load runs, in its view or too late.
LEMMA RunLoadStep == ControlInv /\ RunLoad => ControlInv'
<1> SUFFICES ASSUME ControlInv, RunLoad PROVE ControlInv'
  OBVIOUS
<1>1. ControlTyped /\ JobsInOrder /\ OneLoad /\ EngineIsOwn /\ FrameIsHeard /\ FailureIsOnce /\ Notices /\ Silent
      /\ engine \in [id : Nat, gen : Nat, view : Nat, ep : Episodes \cup {None}, file : Files] /\ engine.id \in {None, engines}
      /\ expected \in Nat /\ worker.job \in Jobs
  BY DEF ControlInv, ControlTyped
<1>2. /\ Moved(1, Nothing) /\ updates' \in Seq(Updates) /\ 1 \in DOMAIN updates /\ updates[1].kind = "load"
  BY Running DEF RunLoad
<1>3. UNCHANGED <<view, awaiting, selection, known, screen, watch, handled, actionView, deciding, jobs, active, engines, notices, revived>>
  BY DEF RunLoad
<1>4. worker.step = "loading"
  BY <1>1, <1>2 DEF OneLoad
<1>5. Nothing.kind = "nothing" /\ PostsOwn(Nothing) /\ ~IsOutcome(Nothing) /\ Nothing.kind \notin {"load", "failure", "failed"} \cup TellKinds
  BY DEF Nothing, PostsOwn, IsOutcome, TellKinds
<1>6. \/ /\ Current
         /\ engine' = [engine EXCEPT !.gen = @ + 1, !.view = worker.job.view, !.ep = worker.job.ep, !.file = "loading"]
         /\ expected' = IF actionView = view THEN engine.gen + 1 ELSE expected
         /\ GoTo("loaded")
      \/ /\ ~Current /\ GoTo("erred") /\ expected' = expected
         /\ engine' = NoEngine \/ engine' = engine
  BY DEF RunLoad
<1>7. worker'.job = worker.job /\ worker'.step = (IF Current THEN "loaded" ELSE "erred") /\ worker' # Idle
      /\ worker' \in [job : Jobs, step : PlaySteps \cup CloseSteps \cup {"idle"}]
  <2>1. "loaded" \in PlaySteps /\ "erred" \in PlaySteps
    BY DEF PlaySteps
  <2> QED
    BY <1>1, <1>6, <2>1, GoesTo
<1>8. WorkerSteps /\ ~Take
  BY <1>3, <1>4, <1>7 DEF WorkerSteps, Take
<1>9. ControlTyped'
  <2>1. engine' \in [id : Nat, gen : Nat, view : Nat, ep : Episodes \cup {None}, file : Files] /\ engine'.id \in {None, engines}
    <3>1. worker.job.view \in Nat /\ worker.job.ep \in Episodes \cup {None} /\ "loading" \in Files
      BY <1>1, JobTypes DEF Files
    <3>2. CASE Current
      <4>1. engine.gen + 1 \in Nat
        BY <1>1
      <4>2. engine' = [engine EXCEPT !.gen = engine.gen + 1, !.view = worker.job.view, !.ep = worker.job.ep, !.file = "loading"]
        BY <1>6, <3>2
      <4> QED
        BY <1>1, <3>1, <4>1, <4>2
    <3>3. CASE ~Current
      BY <1>1, <1>6, <3>3, NoEngineTypes
    <3> QED
      BY <3>2, <3>3
  <2>2. expected' \in Nat
    BY <1>1, <1>6
  <2> QED
    BY <1>1, <1>2, <1>3, <1>7, <2>1, <2>2, EngineTyped
<1>10. JobsInOrder'
  <2>1. worker'.step # "idle" /\ worker.step # "idle" /\ worker.step \in PlaySteps /\ worker'.step \notin CloseSteps
    BY <1>4, <1>7 DEF PlaySteps, CloseSteps
  <2> QED
    BY <1>1, <1>2, <1>3, <1>5, <1>7, <2>1, JobsStay
<1>11. OneLoad'
  <2>1. worker'.step # "loading"
    BY <1>7
  <2> QED
    BY <1>1, <1>2, <2>1, LoadRan
<1>12. CASE Current
  <2>1. worker' = [worker EXCEPT !.step = "loaded"]
    BY <1>6, <1>12 DEF GoTo
  <2>2. EngineIsOwn' /\ FrameIsHeard' /\ FailureIsOnce'
    BY <1>1, <1>2, <1>3, <1>4, <1>6, <1>12, <2>1, EngineLoads
  <2>3. engine'.view = view /\ view \notin DOMAIN notices
    <3>1. engine'.view = view
      BY <1>1, <1>6, <1>12 DEF Current
    <3>2. view \notin DOMAIN notices
      BY <1>1, <1>4, <1>12 DEF Notices, LoadedSteps
    <3> QED
      BY <3>1, <3>2
  <2>4. Notices'
    BY <1>1, <1>2, <1>3, <1>5, <1>8, <2>3, NoticesStay
  <2>5. Silent'
    <3>1. worker.step = "loading" /\ worker'.step = "loaded" /\ UNCHANGED <<worker.job, jobs>>
      BY <1>3, <1>4, <1>7, <1>12
    <3> QED
      BY <1>1, <1>2, <1>3, <1>5, <1>8, <1>12, <3>1, SilentStays
  <2> QED
    BY <1>9, <1>10, <1>11, <2>2, <2>4, <2>5 DEF ControlInv
<1>13. CASE ~Current
  <2>1. expected' = expected /\ worker'.step = "erred" /\ (engine' = NoEngine \/ engine' = engine)
    BY <1>6, <1>7, <1>13
  <2>2. EngineIsOwn' /\ FrameIsHeard' /\ FailureIsOnce'
    <3>1. CASE engine' = NoEngine
      <4>1. engine'.id = None /\ engine'.file = "none"
        BY <1>1, <3>1, NoEngineTypes
      <4>2. WorkerFits'
        BY <2>1, <4>1 DEF WorkerFits, Loaded
      <4> QED
        BY <1>1, <1>2, <1>3, <1>5, <3>1, <4>2, EngineCloses
    <3>2. CASE engine' = engine
      <4>1. WorkerFits'
        BY <1>1, <1>3, <1>4, <1>7, <1>13, <2>1, <3>2, WorkerGoes
      <4>2. JobsOf /\ jobs' \in Seq(Jobs)
        BY <1>1, <1>3 DEF JobsOf, ControlTyped
      <4>3. EngineIsOwn'
        BY <1>1, <1>2, <1>3, <1>5, <2>1, <3>2, <4>1, <4>2, EngineStays
      <4>4. FrameIsHeard'
        BY <1>1, <1>2, <1>3, <3>2, FrameStays
      <4>5. FailureIsOnce'
        BY <1>1, <1>2, <1>5, <3>2, FailuresStay
      <4> QED
        BY <4>3, <4>4, <4>5
    <3> QED
      BY <2>1, <3>1, <3>2
  <2>3. engine' = engine \/ (engine'.file = "none" /\ ~Loaded')
    <3>1. CASE engine' = NoEngine
      <4>1. engine'.file = "none"
        BY <1>1, <3>1, NoEngineTypes
      <4> QED
        BY <4>1 DEF Loaded
    <3> QED
      BY <2>1, <3>1
  <2>4. Notices'
    BY <1>1, <1>2, <1>3, <1>5, <1>8, <2>1, <2>3, NoticesStay
  <2>5. Silent'
    BY <1>1, <1>2, <1>3, <1>5, <1>8, <2>1, <2>3, SilentStays
  <2> QED
    BY <1>9, <1>10, <1>11, <2>2, <2>4, <2>5 DEF ControlInv
<1> QED
  BY <1>12, <1>13

\* What is told of the file that the view has loaded is heard.
LEMMA TellsOwn ==
  ASSUME ControlInv, NEW u, u \in Updates, OfEngine(u)
  PROVE  Loaded /\ active = u.id /\ (engine.view = view => u.gen = expected /\ expected # None /\ 0 < view)
<1>1. u.gen # None
  BY UpdateTypes DEF OfEngine, None
<1>2. EngineIsOwn
  BY DEF ControlInv
<1>3. Loaded
  BY <1>1, <1>2 DEF OfEngine, EngineIsOwn, Loaded
<1> QED
  BY <1>1, <1>2, <1>3 DEF OfEngine, EngineIsOwn

\* The first frame.
LEMMA RunStartStep == ControlInv /\ RunStart => ControlInv'
<1> SUFFICES ASSUME ControlInv, RunStart PROVE ControlInv'
  OBVIOUS
<1>1. /\ Moved(1, Nothing) /\ Quiet(Nothing) /\ updates' \in Seq(Updates)
      /\ Update = updates[1] /\ Update.kind = "start" /\ Update \in Updates
  BY Running DEF RunStart
<1>2. /\ watch' = IF StartIsHeard /\ watch.view = view THEN NoWatch ELSE watch
      /\ UNCHANGED <<view, actionView, expected, awaiting, selection, known, screen, handled, deciding, jobs, worker,
                     engine, active, engines, notices, revived>>
  BY DEF RunStart, player
<1>3. OfEngine(updates[1]) /\ engine.view = view => watch'.view # view
  <2> SUFFICES ASSUME OfEngine(Update), engine.view = view PROVE watch'.view # view
    BY <1>1
  <2>1. StartIsHeard /\ 0 < view
    BY <1>1, TellsOwn DEF StartIsHeard, Heard
  <2>2. view \in Nat
    BY UITypes
  <2> QED
    BY <1>2, <2>1, <2>2 DEF NoWatch, None
<1> QED
  BY <1>1, <1>2, <1>3, UITypes, UICalm

\* A failure that is shown was not shown before.
LEMMA RunFailureStep == ControlInv /\ RunFailure => ControlInv'
<1> SUFFICES ASSUME ControlInv, RunFailure PROVE ControlInv'
  OBVIOUS
<1>1. /\ Moved(1, Nothing) /\ Quiet(Nothing) /\ updates' \in Seq(Updates) /\ 1 \in DOMAIN updates
      /\ Update = updates[1] /\ Update.kind = "failure" /\ Update \in Updates
  BY Running DEF RunFailure
<1>2. UNCHANGED <<view, actionView, expected, awaiting, selection, known, handled, deciding, jobs, worker,
                  engine, active, engines, revived>>
  BY DEF RunFailure, player
<1>3. CASE UNCHANGED <<watch, screen, notices>>
  BY <1>1, <1>2, <1>3, UITypes, UICalm
<1>4. CASE /\ Heard /\ engine.id = Update.id /\ engine.gen = Update.gen /\ engine.file = "failed"
           /\ watch' = NoWatch
           /\ screen' = [screen EXCEPT !.playing = FALSE, !.loading = FALSE]
           /\ notices' = Notified(Update.view)
  <2>1. ControlTyped /\ JobsInOrder /\ EngineIsOwn /\ FailureIsOnce /\ Notices
    BY DEF ControlInv
  <2>2. OfEngine(Update) /\ Loaded
    BY <1>1, <1>4 DEF OfEngine, TellKinds, Loaded
  <2>3. Update.view = engine.view
    BY <1>1, <2>1, <2>2 DEF EngineIsOwn, TellKinds
  <2>4. 0 < engine.view /\ engine.view <= view /\ engine.view \in Nat /\ view \in Nat
    BY <2>1, <2>2, Numbers DEF EngineIsOwn
  <2>5. MayFail
    BY <1>1, <2>2 DEF MayFail
  <2>6. engine.view \notin DOMAIN notices
    <3>1. expected # None
      BY <1>1, <1>4, UpdateTypes DEF Heard, TellKinds, None
    <3> QED
      BY <2>1, <2>2, <2>5, <3>1 DEF Notices
  <2>7. /\ DOMAIN notices' = DOMAIN notices \cup {engine.view}
        /\ \A x \in DOMAIN notices' : notices'[x] = 1
        /\ notices' = [x \in DOMAIN notices' |-> notices'[x]]
    <3>1. \A x \in DOMAIN notices : notices[x] = 1
      BY <2>1 DEF Notices
    <3>2. /\ DOMAIN Notified(engine.view) = DOMAIN notices \cup {engine.view}
          /\ \A x \in DOMAIN Notified(engine.view) : Notified(engine.view)[x] = 1
          /\ Notified(engine.view) = [x \in DOMAIN Notified(engine.view) |-> Notified(engine.view)[x]]
      BY <2>1, <2>6, <3>1, NotifiedOnce
    <3>3. notices' = Notified(engine.view)
      BY <1>4, <2>3
    <3> QED
      BY <3>2, <3>3
  <2>8. \A i \in DOMAIN updates' : i \in Nat /\ i + 1 \in DOMAIN updates /\ updates'[i] = updates[i + 1] /\ i + 1 # 1
    <3>1. \A i \in DOMAIN updates' : i \in Nat /\ i + 1 \in DOMAIN updates /\ updates'[i] = updates[i + 1]
      BY <1>1 DEF Moved
    <3>2. \A i \in DOMAIN updates' : i # 0
      BY <1>1
    <3> QED
      BY <3>1, <3>2
  <2>9. ~MayFail'
    <3>1. \A i \in DOMAIN updates' : ~(updates'[i].kind = "failure" /\ OfEngine(updates'[i]))
      <4> SUFFICES ASSUME NEW i \in DOMAIN updates', updates'[i].kind = "failure", OfEngine(updates'[i]) PROVE FALSE
        OBVIOUS
      <4>1. i + 1 \in DOMAIN updates /\ updates'[i] = updates[i + 1] /\ i + 1 # 1
        BY <2>8
      <4> QED
        BY <1>1, <2>1, <2>2, <4>1 DEF FailureIsOnce
    <3> QED
      BY <1>2, <1>4, <3>1 DEF MayFail, OfEngine
  <2>10. ASSUME view \in DOMAIN notices'
         PROVE  /\ watch'.view # view
                /\ \A i \in DOMAIN updates' : updates'[i].kind = "failed" => updates'[i].job.view # view
                /\ \A i \in DOMAIN jobs : jobs[i].view # view
                /\ worker.step # "idle" /\ Current => worker.step \in LoadedSteps
    <3>1. watch'.view # view
      BY <1>4, <2>4 DEF NoWatch, None
    <3>2. CASE view \in DOMAIN notices
      BY <2>1, <2>8, <3>1, <3>2 DEF Notices
    <3>3. CASE engine.view = view
      <4>1. \A i \in DOMAIN jobs : jobs[i].view # view
        BY <2>1, <2>2, <2>4, <3>3, Numbers DEF EngineIsOwn
      <4>2. worker.step # "idle" /\ Current => worker.step \in LoadedSteps
        BY <2>1, <2>2, <3>3 DEF EngineIsOwn, Current
      <4>3. \A i \in DOMAIN updates' : updates'[i].kind = "failed" => updates'[i].job.view # view
        BY <2>1, <2>2, <2>8, <3>3 DEF EngineIsOwn
      <4> QED
        BY <3>1, <4>1, <4>2, <4>3
    <3> QED
      BY <2>7, <2>10, <3>2, <3>3
  <2>11. \A v \in DOMAIN notices' : notices'[v] = 1 /\ v \in Nat /\ v <= view /\ 0 < v
    BY <2>1, <2>4, <2>7 DEF Notices
  <2>12. Notices'
    BY <1>2, <2>9, <2>10, <2>11 DEF Notices, Current
  <2>13. screen' \in [shown : BOOLEAN, playing : BOOLEAN, loading : BOOLEAN] /\ screen'.shown = screen.shown
    BY <1>4, UITypes
  <2> QED
    BY <1>1, <1>2, <1>4, <2>7, <2>12, <2>13, UITypes, UICalm
<1> QED
  BY <1>3, <1>4 DEF RunFailure

\* What is heard of is in a player that was not left.
LEMMA HeardIsShown == ControlInv /\ expected # None => revived \/ screen.shown
BY DEF ControlInv, Silent

LEMMA RunEndStep == ControlInv /\ RunEnd => ControlInv'
<1> SUFFICES ASSUME ControlInv, RunEnd PROVE ControlInv'
  OBVIOUS
<1>1. /\ Moved(1, Nothing) /\ Quiet(Nothing) /\ updates' \in Seq(Updates) /\ 1 \in DOMAIN updates
      /\ Update = updates[1] /\ Update.kind = "end" /\ Update \in Updates
  BY Running DEF RunEnd
<1>2. UNCHANGED <<actionView, worker, engine, active, engines, notices, revived>>
  BY DEF RunEnd, player
<1>3. CASE UNCHANGED <<ui, deciding, jobs>>
  <2>1. UNCHANGED <<view, expected, awaiting, selection, known, screen, watch, handled, deciding, jobs>>
    BY <1>3 DEF ui
  <2> QED
    BY <1>1, <1>2, <2>1, UITypes, UICalm
<1>4. CASE EndIsHeard
  <2>1. /\ Update.gen = expected /\ expected # None /\ expected \in Nat /\ Update.ep \in Episodes
        /\ Update.view \in Nat \ {0} /\ Update.view <= view
    <3>1. EngineIsOwn
      BY DEF ControlInv
    <3> QED
      BY <1>1, <1>4, <3>1, UITypes, UpdateTypes DEF EndIsHeard, Heard, TellKinds, None, EngineIsOwn
  <2>2. selection \in Episodes /\ view \in Nat
    BY <2>1, UITypes
  <2>3. handled' = view
    BY <1>4 DEF RunEnd
  <2>4. CASE EndsPlayback /\ UNCHANGED deciding
    <3>1. selection # None /\ (revived \/ screen.shown)
      BY <2>1, <2>2, HeardIsShown DEF Episodes, None
    <3> QED
      BY <1>1, <1>2, <2>2, <2>3, <2>4, <3>1, UITypes, Starts
  <2>5. CASE /\ ~NoNext
             /\ deciding' = deciding \cup {[view |-> view, gen |-> Update.gen, ep |-> selection, file |-> Update.ep]}
             /\ UNCHANGED <<view, expected, awaiting, selection, known, screen, watch, jobs>>
    <3>1. [view |-> view, gen |-> Update.gen, ep |-> selection, file |-> Update.ep] \in Ends
      <4>1. expected \in Nat \ {0} /\ selection \in Episodes \ {Last}
        BY <2>1, <2>2, <2>5 DEF NoNext, None
      <4> QED
        BY <2>1, <2>2, <4>1 DEF Ends
    <3>2. deciding' \subseteq Ends
      BY <2>5, <3>1, UITypes
    <3> QED
      BY <1>1, <1>2, <2>2, <2>3, <2>5, <3>2, UITypes, UICalm
  <2> QED
    BY <1>4, <2>4, <2>5 DEF RunEnd
<1> QED
  BY <1>3, <1>4 DEF RunEnd

LEMMA RunDecideStep == ControlInv /\ RunDecide => ControlInv'
<1> SUFFICES ASSUME ControlInv, RunDecide PROVE ControlInv'
  OBVIOUS
<1>1. /\ Moved(1, Nothing) /\ Quiet(Nothing) /\ updates' \in Seq(Updates) /\ 1 \in DOMAIN updates
      /\ Update = updates[1] /\ Update.kind = "decide" /\ Update \in Updates
  BY Running DEF RunDecide
<1>2. UNCHANGED <<actionView, deciding, worker, engine, active, engines, notices, revived>>
  BY DEF RunDecide, player
<1>3. CASE UNCHANGED <<ui, jobs>>
  <2>1. UNCHANGED <<view, expected, awaiting, selection, known, screen, watch, handled, jobs>>
    BY <1>3 DEF ui
  <2> QED
    BY <1>1, <1>2, <2>1, UITypes, UICalm
<1>4. CASE StillEnded(Update.end) /\ (Selects(Update.end.ep + 1, TRUE) \/ EndsPlayback) /\ handled' = handled
  <2>1. /\ selection = Update.end.ep /\ expected = Update.end.gen /\ expected # None
        /\ Update.end.ep # None /\ Update.end.ep + 1 \in Episodes
    BY <1>1, <1>4, UpdateTypes, EndTypes DEF StillEnded, None
  <2>2. revived \/ screen.shown
    BY <2>1, HeardIsShown
  <2>3. (\E ep \in Episodes, auto \in BOOLEAN : Selects(ep, auto)) \/ EndsPlayback
    BY <1>4, <2>1
  <2> QED
    BY <1>1, <1>2, <1>4, <2>1, <2>2, <2>3, UITypes, Starts
<1> QED
  BY <1>3, <1>4 DEF RunDecide

LEMMA RunTimeoutStep == ControlInv /\ RunTimeout => ControlInv'
<1> SUFFICES ASSUME ControlInv, RunTimeout PROVE ControlInv'
  OBVIOUS
<1>1. /\ Moved(1, Nothing) /\ Quiet(Nothing) /\ updates' \in Seq(Updates) /\ 1 \in DOMAIN updates
      /\ Update = updates[1] /\ Update.kind = "timeout" /\ Update \in Updates
  BY Running DEF RunTimeout
<1>2. UNCHANGED <<actionView, deciding, worker, engine, active, engines, revived>>
  BY DEF RunTimeout, player
<1>3. CASE UNCHANGED <<ui, jobs, notices>>
  <2>1. UNCHANGED <<view, expected, awaiting, selection, known, screen, watch, handled, jobs>>
    BY <1>3 DEF ui
  <2> QED
    BY <1>1, <1>2, <1>3, <2>1, UITypes, UICalm
<1>4. CASE Watched(Update.view) /\ EndsPlayback /\ notices' = Notified(view) /\ UNCHANGED handled
  <2>1. watch.view = view /\ view \in Nat \ {0}
    BY <1>1, <1>4, UpdateTypes DEF Watched
  <2>2. revived \/ screen.shown
    BY <2>1 DEF ControlInv, Silent
  <2>3. view \notin DOMAIN notices
    BY <2>1 DEF ControlInv, Notices
  <2>4. selection # None /\ 0 < view
    BY <2>1, UITypes
  <2> QED
    BY <1>1, <1>2, <1>4, <2>2, <2>3, <2>4, UITypes, Starts
<1> QED
  BY <1>3, <1>4 DEF RunTimeout

\* Once the outcome of the view has run, nothing of the view is left.
LEMMA LastOfView ==
  ASSUME ControlInv, Moved(1, Nothing), updates' \in Seq(Updates), 1 \in DOMAIN updates, IsOutcome(updates[1]), Of(updates[1]) = view
  PROVE  /\ jobs = <<>> /\ worker.step = "idle" /\ 0 < view
         /\ \A i \in DOMAIN updates' : updates'[i].kind = "failed" => updates'[i].job.view # view
<1>1. ControlTyped /\ JobsInOrder /\ jobs \in Seq(Jobs) /\ view \in Nat
  BY DEF ControlInv, ControlTyped
<1>2. \A i \in DOMAIN jobs : FALSE
  BY <1>1, Numbers DEF JobsInOrder
<1>3. jobs = <<>>
  <2>1. Len(jobs) \in Nat /\ DOMAIN jobs = 1..Len(jobs)
    BY <1>1
  <2>2. Len(jobs) = 0
    <3>1. CASE Len(jobs) # 0
      <4>1. 1 \in DOMAIN jobs
        BY <2>1, <3>1
      <4> QED
        BY <1>2, <4>1
    <3> QED
      BY <3>1
  <2> QED
    BY <1>1, <2>2
<1>4. worker.step = "idle" /\ 0 < view
  BY <1>1, Numbers DEF JobsInOrder
<1>5. \A i \in DOMAIN updates' : updates'[i].kind = "failed" => updates'[i].job.view # view
  <2> SUFFICES ASSUME NEW i \in DOMAIN updates', updates'[i].kind = "failed", updates'[i].job.view = view PROVE FALSE
    OBVIOUS
  <2>1. i \in Nat /\ i # 0 /\ i + 1 \in DOMAIN updates /\ updates'[i] = updates[i + 1]
    BY DEF Moved, Nothing
  <2>2. i + 1 # 1 /\ IsOutcome(updates[i + 1]) /\ Of(updates[i + 1]) = view
    BY <2>1 DEF IsOutcome, Of
  <2> QED
    BY <1>1, <2>1, <2>2 DEF JobsInOrder
<1> QED
  BY <1>3, <1>4, <1>5

\* The player that was left goes away; nothing is left that could bring it back.
LEMMA RunStoppedStep == ControlInv /\ RunStopped => ControlInv'
<1> SUFFICES ASSUME ControlInv, RunStopped PROVE ControlInv'
  OBVIOUS
<1>1. /\ Moved(1, Nothing) /\ Quiet(Nothing) /\ updates' \in Seq(Updates) /\ 1 \in DOMAIN updates
      /\ Update = updates[1] /\ Update.kind = "stopped" /\ Update \in Updates
  BY Running DEF RunStopped
<1>2. /\ screen' = IF StopStands THEN Hidden ELSE screen
      /\ UNCHANGED <<view, actionView, expected, awaiting, selection, known, watch, handled, deciding, jobs, worker,
                     engine, active, engines, notices, revived>>
  BY DEF RunStopped, player
<1>3. CASE ~StopStands
  <2>1. screen' = screen
    BY <1>2, <1>3
  <2> QED
    BY <1>1, <1>2, <2>1, UITypes, UICalm
<1>4. CASE StopStands
  <2>1. /\ jobs = <<>> /\ worker.step = "idle"
        /\ \A i \in DOMAIN updates' : updates'[i].kind = "failed" => updates'[i].job.view # view
    BY <1>1, <1>4, LastOfView DEF StopStands, IsOutcome, Of
  <2>2. Leaving(view) /\ engine.file = "none"
    BY <1>1, <1>4 DEF StopStands, Leaving, ControlInv, Silent
  <2>3. ~revived => HiddenIsAtRest'
    <3>1. ~revived => expected = None /\ watch.view # view
      BY <2>2 DEF ControlInv, Silent
    <3> QED
      BY <1>2, <2>1, <2>2, <3>1 DEF HiddenIsAtRest
  <2>4. screen' \in [shown : BOOLEAN, playing : BOOLEAN, loading : BOOLEAN] /\ ~screen'.shown
    BY <1>2, <1>4 DEF Hidden
  <2> QED
    BY <1>1, <1>2, <2>3, <2>4, UITypes, UICalm
<1> QED
  BY <1>3, <1>4

LEMMA RunListStep == ControlInv /\ RunList => ControlInv'
<1> SUFFICES ASSUME ControlInv, RunList PROVE ControlInv'
  OBVIOUS
<1>1. /\ Moved(1, Nothing) /\ Quiet(Nothing) /\ updates' \in Seq(Updates) /\ 1 \in DOMAIN updates
      /\ Update = updates[1] /\ Update.kind = "list" /\ Update \in Updates
  BY Running DEF RunList
<1>2. /\ known' = (known \/ Update.view = view)
      /\ UNCHANGED <<view, actionView, expected, awaiting, selection, screen, watch, handled, deciding, jobs, worker,
                     engine, active, engines, notices, revived>>
  BY DEF RunList, player
<1>3. known' \in BOOLEAN
  BY <1>2
<1> QED
  BY <1>1, <1>2, <1>3, UITypes, UICalm

LEMMA RunFailedStep == ControlInv /\ RunFailed => ControlInv'
<1> SUFFICES ASSUME ControlInv, RunFailed PROVE ControlInv'
  OBVIOUS
<1>1. /\ Moved(1, Nothing) /\ Quiet(Nothing) /\ updates' \in Seq(Updates) /\ 1 \in DOMAIN updates
      /\ Update = updates[1] /\ Update.kind = "failed" /\ Update \in Updates
  BY Running DEF RunFailed
<1>2. UNCHANGED <<actionView, deciding, worker, engine, active, engines, revived>>
  BY DEF RunFailed, player
<1>3. CASE UNCHANGED <<ui, jobs, notices>>
  <2>1. UNCHANGED <<view, expected, awaiting, selection, known, screen, watch, handled, jobs>>
    BY <1>3 DEF ui
  <2> QED
    BY <1>1, <1>2, <1>3, <2>1, UITypes, UICalm
<1>4. CASE Update.job.view = view /\ notices' = Notified(view) /\ UNCHANGED handled
  <2>1. /\ jobs = <<>> /\ worker.step = "idle" /\ 0 < view
        /\ \A i \in DOMAIN updates' : updates'[i].kind = "failed" => updates'[i].job.view # view
    BY <1>1, <1>4, LastOfView DEF IsOutcome, Of
  <2>2. view \notin DOMAIN notices
    BY <1>1, <1>4 DEF ControlInv, Notices
  <2>3. selection # None /\ view \in Nat
    BY <2>1, UITypes
  <2>4. revived \/ screen.shown
    BY <1>1, <1>4 DEF ControlInv, Silent
  <2>5. CASE EndsPlayback
    BY <1>1, <1>2, <1>4, <2>1, <2>2, <2>3, <2>4, <2>5, UITypes, Starts
  <2>6. CASE /\ watch' = NoWatch
             /\ screen' = [screen EXCEPT !.loading = @ /\ Update.job.kind = "play", !.shown = @ /\ Update.job.kind # "play"]
             /\ UNCHANGED <<view, expected, awaiting, selection, known, jobs>>
    <3>1. ControlTyped /\ JobsInOrder /\ EngineIsOwn /\ Notices /\ Silent
      BY DEF ControlInv
    <3>2. /\ DOMAIN notices' = DOMAIN notices \cup {view}
          /\ \A x \in DOMAIN notices' : notices'[x] = 1
          /\ notices' = [x \in DOMAIN notices' |-> notices'[x]]
      <4>1. \A x \in DOMAIN notices : notices[x] = 1
        BY <3>1 DEF Notices
      <4> QED
        BY <1>4, <2>2, <3>1, <4>1, NotifiedOnce
    <3>3. watch'.view # view
      BY <2>1, <2>3, <2>6 DEF NoWatch, None
    <3>4. Notices'
      <4>1. \A v \in DOMAIN notices' : notices'[v] = 1 /\ v \in Nat /\ v <= view /\ 0 < v
        BY <2>1, <2>3, <3>1, <3>2 DEF Notices
      <4>2. Loaded => engine.view # view
        BY <1>1, <1>4, <3>1 DEF EngineIsOwn
      <4>3. MayFail' => MayFail
        <5>1. \A i \in DOMAIN updates' : updates'[i].kind = "failure" => \E k \in DOMAIN updates : updates'[i] = updates[k]
          BY <1>1 DEF Moved, Nothing
        <5> QED
          BY <1>2, <5>1 DEF MayFail, OfEngine
      <4>4. Loaded /\ engine.view \in DOMAIN notices' /\ MayFail' =>
               /\ expected = None
               /\ \A i \in DOMAIN jobs : jobs[i].before = None
               /\ MayRevert => worker.job.before = None
        BY <3>1, <3>2, <4>2, <4>3 DEF Notices
      <4>5. ~MayRevert' /\ \A i \in DOMAIN jobs : FALSE
        BY <1>2, <2>1 DEF MayRevert
      <4> QED
        BY <1>2, <2>1, <2>6, <3>3, <4>1, <4>4, <4>5 DEF Notices, Loaded
    <3>5. screen' \in [shown : BOOLEAN, playing : BOOLEAN, loading : BOOLEAN] /\ (screen'.shown => screen.shown)
          /\ screen'.shown = (screen.shown /\ Update.job.kind # "play")
      BY <2>6, UITypes
    <3>6. screen'.shown = screen.shown \/ (~revived => HiddenIsAtRest')
      <4>1. CASE Update.job.kind # "play"
        BY <3>5, <4>1, UITypes
      <4>2. CASE Update.job.kind = "play"
        <5>1. Unloaded("play")
          BY <1>1, <1>4, <4>2 DEF Unloaded
        <5>2. ~revived => expected = None
          BY <3>1, <5>1 DEF Silent
        <5> QED
          BY <1>2, <2>1, <2>6, <3>2, <3>3, <5>2 DEF HiddenIsAtRest
      <4> QED
        BY <4>1, <4>2
    <3> QED
      BY <1>1, <1>2, <1>4, <2>6, <3>2, <3>4, <3>5, <3>6, UITypes, UICalm
  <2> QED
    BY <1>4, <2>5, <2>6 DEF RunFailed
<1> QED
  BY <1>3, <1>4 DEF RunFailed

LEMMA ControlBegins == Init => ControlInv
<1> SUFFICES ASSUME Init PROVE ControlInv
  OBVIOUS
<1>1. /\ view = 0 /\ actionView = 0 /\ expected = 0 /\ awaiting = FALSE /\ selection = None /\ known = FALSE
      /\ screen = Hidden /\ watch = NoWatch /\ handled = 0 /\ deciding = {} /\ jobs = <<>> /\ worker = Idle
      /\ engine = NoEngine /\ active = 0 /\ engines = 0 /\ updates = <<>> /\ revived = FALSE
      /\ notices = [v \in {} |-> 0]
  BY DEF Init, None
<1>2. /\ Hidden \in [shown : BOOLEAN, playing : BOOLEAN, loading : BOOLEAN] /\ ~Hidden.shown
      /\ NoWatch \in [view : Nat, armed : BOOLEAN] /\ ~NoWatch.armed
      /\ NoEngine \in [id : Nat, gen : Nat, view : Nat, ep : Episodes \cup {None}, file : Files]
      /\ NoEngine.id = 0 /\ NoEngine.gen = 0 /\ NoEngine.file = "none"
      /\ Idle.job = NoJob /\ NoJob.kind = "none"
  BY DEF Hidden, NoWatch, NoEngine, Files, Idle, NoJob, None
<1>3. ControlTyped
  <2>1. jobs \in Seq(Jobs) /\ updates \in Seq(Updates)
    BY <1>1
  <2>2. notices = [v \in DOMAIN notices |-> notices[v]]
    BY <1>1
  <2>3. {view, actionView, expected, handled, active, engines} \subseteq Nat /\ {awaiting, known, revived} \subseteq BOOLEAN
    <3>1. {view, actionView, expected, handled, active, engines} \subseteq Nat
      BY <1>1
    <3>2. awaiting \in BOOLEAN /\ known \in BOOLEAN /\ revived \in BOOLEAN
      BY <1>1
    <3> QED
      BY <3>1, <3>2
  <2>4. worker \in [job : Jobs, step : PlaySteps \cup CloseSteps \cup {"idle"}]
    BY <1>1, IdleTypes
  <2>5. engine.id \in {None, engines} /\ active \in {None, engines} /\ deciding \subseteq Ends
    BY <1>1, <1>2 DEF None
  <2> QED
    BY <1>1, <1>2, <2>1, <2>2, <2>3, <2>4, <2>5 DEF ControlTyped
<1>4. (\A i \in DOMAIN jobs : FALSE) /\ (\A i \in DOMAIN updates : FALSE) /\ (\A v \in DOMAIN notices : FALSE)
  BY <1>1
<1>5. JobsInOrder
  BY <1>1, <1>2, <1>4, IdleTypes DEF JobsInOrder, PlaySteps, CloseSteps
<1>6. OneLoad /\ FrameIsHeard /\ FailureIsOnce /\ Notices
  BY <1>1, <1>2, <1>4, IdleTypes DEF OneLoad, FrameIsHeard, FailureIsOnce, Notices, Loaded
<1>7. EngineIsOwn
  BY <1>1, <1>2, <1>4, IdleTypes DEF EngineIsOwn, Loaded, None
<1>8. Silent
  <2>1. ~Leaving(view) /\ ~Unloaded("play")
    BY <1>1, <1>2, <1>4, IdleTypes DEF Leaving, Unloaded
  <2> QED
    BY <1>1, <1>2, <1>4, <2>1, IdleTypes DEF Silent, None
<1> QED
  BY <1>3, <1>5, <1>6, <1>7, <1>8 DEF ControlInv

LEMMA ControlRests == ControlInv /\ UNCHANGED vars => ControlInv'
<1> SUFFICES ASSUME ControlInv, UNCHANGED vars PROVE ControlInv'
  OBVIOUS
<1>1. UNCHANGED <<view, actionView, expected, awaiting, selection, known, screen, watch, handled, deciding, jobs, worker,
                  engine, active, engines, updates, notices, revived>>
  BY DEF vars
<1>2. Moved(0, Nothing) /\ Quiet(Nothing)
  BY <1>1, UITypes, Rested DEF Quiet, Nothing
<1> QED
  BY <1>1, <1>2, UITypes, UICalm

\* Every step keeps the invariant.
LEMMA ControlStep == ControlInv /\ [Next]_vars => ControlInv'
<1> SUFFICES ASSUME ControlInv, [Next]_vars PROVE ControlInv'
  OBVIOUS
<1>1. CASE User
  BY <1>1, UserStep
<1>2. CASE PlayGoesOn
  BY <1>2, WorkerCalmStep, SessionCloses, PlayLoadsStep DEF PlayGoesOn
<1>3. CASE QueueGoesOn
  BY <1>3, TakeStep, WorkerCalmStep, SessionCloses DEF QueueGoesOn
<1>4. CASE FileStarts \/ FileFails \/ FileEnds
  BY <1>4, FileSteps
<1>5. CASE Tick \/ TimerFires
  BY <1>5, TickStep, TimerStep
<1>6. CASE \E end \in deciding, next \in BOOLEAN : ReadSettings(end, next)
  BY <1>6, ReadSettingsStep
<1>7. CASE UIThread
  BY <1>7, RunLoadStep, RunStartStep, RunFailureStep, RunEndStep, RunDecideStep, RunTimeoutStep, RunStoppedStep,
     RunListStep, RunFailedStep DEF UIThread
<1>8. CASE UNCHANGED vars
  BY <1>8, ControlRests
<1> QED
  BY <1>1, <1>2, <1>3, <1>4, <1>5, <1>6, <1>7, <1>8 DEF Next

\* For any number of episodes and of user actions, however the UI thread, the
\* queue and mpv interleave: a start's failure is shown at most once, and once
\* the user has left and nothing is left to do, nothing plays that was not
\* reported or given back too late by a failed switch.
THEOREM StartsAreReportedOnce == Spec => []ReportsAreTrue
<1>1. ControlInv => ReportsAreTrue
  <2> SUFFICES ASSUME ControlInv PROVE ReportsAreTrue
    OBVIOUS
  <2>1. ReportedOnce
    BY DEF ControlInv, Notices, ReportedOnce
  <2>2. LeftIsSilent
    BY DEF ControlInv, Silent, LeftIsSilent
  <2> QED
    BY <2>1, <2>2 DEF ReportsAreTrue
<1> QED
  BY <1>1, ControlBegins, ControlStep, PTL DEF Spec

\* A start whose first frame has reached the UI thread is no longer watched, so
\* the watch can not give it up for showing none.
THEOREM ShownStaysShown == Spec => []ShownIsNotGivenUp
<1>1. ControlInv => ShownIsNotGivenUp
  BY DEF ControlInv, FrameIsHeard, ShownIsNotGivenUp
<1> QED
  BY <1>1, ControlBegins, ControlStep, PTL DEF Spec

\* Every variable has its type, whatever the constants; the load that waits is
\* the worker's, and the engine that is heard is the newest one or none.
THEOREM ControlHasTypes == Spec => []TypeOK
<1> DEFINE I == ControlInv /\ actions \in Nat
<1>1. I => TypeOK
  <2> SUFFICES ASSUME ControlInv, actions \in Nat PROVE TypeOK
    OBVIOUS
  <2>1. ControlTyped /\ OneLoad /\ EngineIsOwn
    BY DEF ControlInv
  <2>2. deciding \subseteq [view : Nat, gen : Nat, ep : Episodes, file : Episodes]
    BY <2>1 DEF ControlTyped, Ends
  <2>3. worker.job \in Jobs
    BY <2>1 DEF ControlTyped
  <2>4. {view, actionView, expected, handled, active, engines, actions} \subseteq Nat /\ {awaiting, known} \subseteq BOOLEAN
    BY <2>1 DEF ControlTyped
  <2>5. (engine.file = "none" <=> engine.gen = None)
        /\ (worker.step = "loading" <=> \E i \in DOMAIN updates : updates[i].kind = "load")
    BY <2>1 DEF OneLoad, EngineIsOwn
  <2>6. /\ selection \in Episodes \cup {None} /\ screen \in [shown : BOOLEAN, playing : BOOLEAN, loading : BOOLEAN]
        /\ watch \in [view : Nat, armed : BOOLEAN] /\ jobs \in Seq(Jobs)
        /\ engine.id \in {None, engines} /\ active \in {None, engines}
    BY <2>1 DEF ControlTyped
  <2> QED
    BY <2>2, <2>3, <2>4, <2>5, <2>6 DEF TypeOK
<1>2. actions \in Nat /\ [Next]_vars => actions' \in Nat
  <2> SUFFICES ASSUME actions \in Nat, [Next]_vars PROVE actions' \in Nat
    OBVIOUS
  <2>1. CASE User
    <3>1. Acts
      BY <2>1 DEF User, PlayFromHome, PlayPause, SelectEpisode, Leave, StopInPlayer
    <3> QED
      BY <3>1 DEF Acts
  <2>2. CASE PlayGoesOn \/ QueueGoesOn
    <3>1. CASE PlayErrs \/ SessionDies \/ PlayLoads
      BY <3>1 DEF PlayErrs, SessionDies, PlayLoads
    <3>2. CASE Take \/ PlayReturns \/ Confirm \/ SetSelection
      BY <3>2 DEF Take, PlayReturns, Confirm, SetSelection
    <3>3. CASE ClearAwaiting \/ Refuse \/ Revert \/ ReportError
      BY <3>3 DEF ClearAwaiting, Refuse, Revert, ReportError
    <3>4. CASE CloseSession \/ EndClears \/ Deactivate
      BY <3>4 DEF CloseSession, EndClears, Deactivate
    <3> QED
      BY <2>2, <3>1, <3>2, <3>3, <3>4 DEF PlayGoesOn, QueueGoesOn
  <2>3. CASE FileStarts \/ FileFails \/ FileEnds \/ Tick \/ TimerFires
    BY <2>3 DEF FileStarts, FileFails, FileEnds, FileGoes, Tick, TimerFires
  <2>4. CASE \E end \in deciding, next \in BOOLEAN : ReadSettings(end, next)
    BY <2>4 DEF ReadSettings
  <2>5. CASE UIThread
    BY <2>5 DEF UIThread, RunLoad, RunStart, RunFailure, RunEnd, RunDecide, RunTimeout, RunStopped, RunList, RunFailed
  <2>6. CASE UNCHANGED vars
    BY <2>6 DEF vars
  <2> QED
    BY <2>1, <2>2, <2>3, <2>4, <2>5, <2>6 DEF Next
<1>3. Init => I
  BY ControlBegins DEF Init
<1>4. I /\ [Next]_vars => I'
  BY <1>2, ControlStep
<1> HIDE DEF I
<1> QED
  BY <1>1, <1>3, <1>4, PTL DEF Spec
=============================================================================
