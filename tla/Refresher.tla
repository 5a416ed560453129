----------------------------- MODULE Refresher -----------------------------
(* core.Refresher: runs of refresh jobs share a fixed number of slots, and    *)
(* background runs first take one of one fewer tokens.  A run acquires for    *)
(* one job after the other and starts each on a goroutine of its own; a run's *)
(* context ends when its caller leaves or, some time after, when the          *)
(* refresher closes.                                                          *)
EXTENDS Naturals

CONSTANTS
    Limit,  \* the slots (core.RefreshLimit)
    MaxJobs \* bound: the jobs of one run

ASSUME RefresherAssumption == Limit \in Nat /\ Limit >= 2 /\ MaxJobs \in Nat

Runs == {"following", "schedule", "lookup"}  \* the program's callers

VARIABLES
    run,      \* each run: where its loop is, its jobs, and whether its context ended
    recent,   \* the kinds of refresh attempted within the interval
    stopping  \* "no", "closing" once Close was called, "closed" once it returned

refresherVars == <<run, recent, stopping>>

NoRun == [at |-> "idle", background |-> FALSE, left |-> 0, live |-> 0, ended |-> FALSE]

RefresherInit == run = [r \in Runs |-> NoRun] /\ recent = {} /\ stopping = "no"

\* What the two channels hold, by who put it there: a job until it ends, and a
\* run between acquiring a slot and starting the job with it.
SlotsOf(r)  == run[r].live + (IF run[r].at = "check" THEN 1 ELSE 0)
TokensOf(r) == IF run[r].background
               THEN SlotsOf(r) + (IF run[r].at = "slot" THEN 1 ELSE 0) ELSE 0
Slots  == SlotsOf("following") + SlotsOf("schedule") + SlotsOf("lookup")
Tokens == TokensOf("following") + TokensOf("schedule") + TokensOf("lookup")

\* Fault: background work may take as many tokens as there are slots.
NoReserve == Limit
Reserved  == Limit - 1

\* Attempt: an automatic refresh once per interval, a forced one always.
Attempt(kind, force) == force \/ kind \notin recent
IntervalPasses ==
    /\ \E kind \in recent : recent' = recent \ {kind}
    /\ UNCHANGED <<run, stopping>>

\* run begins, and is over at once when the refresher is closed.
StartRun(r, background, jobs) ==
    run' = [run EXCEPT ![r] =
              IF stopping # "no" \/ jobs = 0 THEN [NoRun EXCEPT !.at = "done"]
              ELSE [NoRun EXCEPT !.at = IF background THEN "token" ELSE "slot",
                                !.background = background, !.left = jobs]]

TakeToken(r) ==
    /\ run[r].at = "token" /\ Tokens < Reserved
    /\ run' = [run EXCEPT ![r].at = "slot"]

TakeSlot(r) ==
    /\ run[r].at = "slot" /\ Slots < Limit
    /\ run' = [run EXCEPT ![r].at = "check"]

\* A slot taken while the context ended is given back: no job starts cancelled.
StartJob(r) ==
    /\ run[r].at = "check" /\ ~run[r].ended /\ stopping = "no"
    /\ run' = [run EXCEPT ![r] = [run[r] EXCEPT !.live = @ + 1, !.left = @ - 1,
                                           !.at = IF run[r].left = 1 THEN "wait"
                                                  ELSE IF run[r].background THEN "token"
                                                  ELSE "slot"]]

\* Fault: a context that ends once the slot is taken is not seen.
LateToGiveUp(r) ==
    /\ run[r].at \in {"token", "slot"} /\ run[r].ended
    /\ run' = [run EXCEPT ![r].left = 0, ![r].at = "wait"]
    /\ UNCHANGED <<recent, stopping>>

\* acquire fails; the jobs left over count as failed, and the others are awaited.
GiveUp(r) ==
    /\ \/ run[r].at \in {"token", "slot"} /\ run[r].ended
       \/ run[r].at = "check" /\ (run[r].ended \/ stopping # "no")
    /\ run' = [run EXCEPT ![r].left = 0, ![r].at = "wait"]
    /\ UNCHANGED <<recent, stopping>>

\* A job answers, fails, is cancelled or reaches its timeout.
JobEnds(r) ==
    /\ run[r].live > 0
    /\ run' = [run EXCEPT ![r].live = @ - 1]
    /\ UNCHANGED <<recent, stopping>>

RunReturns(r) ==
    /\ run[r].at = "wait" /\ run[r].live = 0
    /\ run' = [run EXCEPT ![r].at = "done"]

\* context.AfterFunc: the end of the refresher reaches the run's own context.
EndContext(r) ==
    /\ stopping # "no" /\ run[r].at \notin {"idle", "done"} /\ ~run[r].ended
    /\ run' = [run EXCEPT ![r].ended = TRUE]

RunStep(r) ==
    /\ TakeToken(r) \/ TakeSlot(r) \/ StartJob(r) \/ RunReturns(r) \/ EndContext(r)
    /\ UNCHANGED <<recent, stopping>>

(***************************************************************************)
(* The callers: 更新集數 and its automatic form, always in the background;  *)
(* the schedule, in the background unless forced; a detail's lookup, ended *)
(* when its screen is left.                                                *)
(***************************************************************************)
Call(r) ==
    /\ run[r].at = "idle"
    /\ \E force \in BOOLEAN, jobs \in 0..MaxJobs :
         /\ r # "following" => jobs = 1
         /\ IF r = "lookup" THEN UNCHANGED recent
            ELSE Attempt(r, force) /\ recent' = recent \cup {r}
         /\ StartRun(r, r = "following" \/ (r = "schedule" /\ ~force), jobs)
    /\ UNCHANGED stopping

LeaveDetail ==
    /\ run["lookup"].at \notin {"idle", "done"}
    /\ run' = [run EXCEPT !["lookup"].ended = TRUE]
    /\ UNCHANGED <<recent, stopping>>

ReturnTold(r) ==
    /\ run[r].at = "done" /\ run' = [run EXCEPT ![r] = NoRun]
    /\ UNCHANGED <<recent, stopping>>

CloseRefresher == stopping = "no" /\ stopping' = "closing" /\ UNCHANGED <<run, recent>>

RefresherClosed ==
    /\ stopping = "closing" /\ \A r \in Runs : run[r].at \in {"idle", "done"}
    /\ stopping' = "closed"
    /\ UNCHANGED <<run, recent>>

RefresherNext ==
    \/ \E r \in Runs : Call(r) \/ RunStep(r) \/ GiveUp(r) \/ JobEnds(r) \/ ReturnTold(r)
    \/ IntervalPasses \/ LeaveDetail \/ CloseRefresher \/ RefresherClosed

RefresherSpec == RefresherInit /\ [][RefresherNext]_refresherVars

\* Jobs have timeouts, and a goroutine blocked on a channel is served in turn,
\* so one that waits for a slot gets one of those that keep coming free.
RefresherFairness ==
    /\ \A r \in Runs : /\ SF_refresherVars(RunStep(r)) /\ WF_refresherVars(GiveUp(r))
                       /\ WF_refresherVars(JobEnds(r)) /\ WF_refresherVars(ReturnTold(r))
    /\ WF_refresherVars(RefresherClosed)

(***************************************************************************)
(* Properties.                                                             *)
(***************************************************************************)
RefresherTypeOK ==
    /\ run \in [Runs -> [at : {"idle", "token", "slot", "check", "wait", "done"},
                         background : BOOLEAN, left : 0..MaxJobs, live : 0..MaxJobs,
                         ended : BOOLEAN]]
    /\ recent \subseteq {"following", "schedule"} /\ stopping \in {"no", "closing", "closed"}

\* What the user asked for never waits behind background work: when every slot
\* is taken, one of them is held by a run the user asked for.  And no job runs
\* once Close has returned, when the backend closes.
BackgroundLeavesOne ==
    /\ RefresherTypeOK
    /\ Slots <= Limit
    /\ Slots = Limit => \E r \in Runs : ~run[r].background /\ SlotsOf(r) > 0
    /\ stopping = "closed" => Slots = 0

=============================================================================
