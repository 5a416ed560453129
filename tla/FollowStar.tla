------------------------------ MODULE FollowStar ------------------------------
(* playerFollow keeps the player's star in step with the stored follow list:  *)
(* each play hides the star and reads the list on a goroutine, a press of the *)
(* star changes the list on one, and the player may meanwhile have switched   *)
(* to another anime and back.                                                 *)
EXTENDS Naturals

CONSTANTS
    Shows,    \* the anime that can be played
    MaxPlays  \* bound: plays and presses of the star

ASSUME FollowStarAssumption == MaxPlays \in Nat

VARIABLES
    followed,  \* the stored follow list
    watching,  \* playing(): the anime selected, "" before the first
    star,      \* "hidden", "on" or "off"
    reads,     \* reads of the list: their anime, whether no change began or ended since
    press,     \* the change under way
    unread,    \* ghost: the last read for what plays failed
    plays

starVars == <<followed, watching, star, reads, press, unread, plays>>

NoPress == [at |-> "none", of |-> "", to |-> FALSE, ok |-> FALSE]

StarInit ==
    /\ followed \in SUBSET Shows
    /\ watching = "" /\ star = "hidden" /\ reads = {} /\ press = NoPress
    /\ unread = FALSE /\ plays = 0

Star(on) == IF on THEN "on" ELSE "off"

\* load: what it reads is used unless a change begins or ends meanwhile.
Reading(show, others) == others \cup {[of |-> show, valid |-> TRUE, got |-> "none"]}
\* Fault: a change that ends does not invalidate the reads before it.
Kept == reads
Changed == {[r EXCEPT !.valid = FALSE] : r \in reads}

\* play: the player's state starts anew, with the star hidden.
PlayShow(show) ==
    /\ plays < MaxPlays /\ plays' = plays + 1
    /\ watching' = show /\ star' = "hidden" /\ unread' = FALSE
    /\ reads' = Reading(show, reads)
    /\ UNCHANGED <<followed, press>>

ReadsList ==
    /\ \E r \in reads, ok \in BOOLEAN :
         /\ r.got = "none"
         /\ reads' = (reads \ {r}) \cup
              {[r EXCEPT !.got = IF ok THEN Star(r.of \in followed) ELSE "failed"]}
    /\ UNCHANGED <<followed, watching, star, press, unread, plays>>

ReadAnswers ==
    /\ \E r \in reads :
         /\ r.got # "none" /\ reads' = reads \ {r}
         /\ star' = IF r.got # "failed" /\ r.valid /\ r.of = watching THEN r.got ELSE star
         /\ unread' = (unread \/ (r.got = "failed" /\ r.of = watching))
    /\ UNCHANGED <<followed, watching, press, plays>>

Press ==
    /\ plays < MaxPlays /\ plays' = plays + 1
    /\ star # "hidden" /\ press.at = "none"
    /\ press' = [at |-> "calling", of |-> watching, to |-> star = "off", ok |-> FALSE]
    /\ reads' = Changed
    /\ UNCHANGED <<followed, watching, star, unread>>

PressStores ==
    /\ press.at = "calling"
    /\ \E ok \in BOOLEAN :
         /\ press' = [press EXCEPT !.at = "answered", !.ok = ok]
         /\ followed' = IF ~ok THEN followed
                        ELSE IF press.to THEN followed \cup {press.of} ELSE followed \ {press.of}
    /\ UNCHANGED <<watching, star, reads, unread, plays>>

PressAnswers ==
    /\ press.at = "answered" /\ press' = NoPress
    /\ IF press.ok /\ press.of = watching
       THEN star' = Star(press.to) /\ reads' = Changed
       ELSE reads' = Reading(watching, Changed) /\ UNCHANGED star
    /\ UNCHANGED <<followed, watching, unread, plays>>

StarNext ==
    \/ \E show \in Shows : PlayShow(show)
    \/ ReadsList \/ ReadAnswers \/ Press \/ PressStores \/ PressAnswers

StarSpec == StarInit /\ [][StarNext]_starVars

\* With no press under way the star shows what the list has for the anime that
\* plays, after any order of reads, presses and switches answering; and one
\* that is hidden is being read, unless its read failed.
StarIsStored ==
    press.at = "none" =>
        /\ star # "hidden" => star = Star(watching \in followed)
        /\ star = "hidden" /\ watching # "" /\ ~unread => \E r \in reads : r.valid /\ r.of = watching
=============================================================================
