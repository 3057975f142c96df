----------------------------- MODULE TokenBucket -----------------------------
(***************************************************************************)
(* The token bucket of one policy and the evaluation cycle that draws on   *)
(* it: SetRate at the start of the deletions, one token per resource in    *)
(* deleteBatchShared, one more per attempt in deleteResource, and the      *)
(* pauses of the exponential backoff between two attempts.                 *)
(*                                                                         *)
(* Source: internal/ratelimiter/ratelimiter.go, internal/backoff/backoff.go*)
(* and their callers in pkg/controller/shared.go and reconciler.go.  The   *)
(* limiter itself is golang.org/x/time/rate; the one reconcile worker is   *)
(* its only client.  Tokens are counted in units of 1/Second of a token:   *)
(* a limiter of r tokens a second earns r units per tick of the clock.     *)
(***************************************************************************)
EXTENDS Integers

CONSTANTS
    Second,     \* ticks of the clock in a second
    DefaultMaxPerSecond,
    Rates,      \* values of behavior.maxDeletionsPerSecond, 0 when it is not set
    Duration, Cap,  \* backoff.DefaultConfig(), in ticks: the first pause, the longest
    Steps,      \* backoff.DefaultConfig().Steps
    MaxDue,     \* bound: resources a run has to delete
    MaxFresh    \* bound: process restarts while one window is watched

ASSUME SecondAssumption == Second \in Nat \ {0}
ASSUME RatesAssumption  == Rates \subseteq Nat /\ DefaultMaxPerSecond \in Nat \ {0}
ASSUME BackoffAssumption == Duration \in Nat /\ Cap \in Nat /\ Steps \in Nat
ASSUME BoundAssumption  == MaxDue \in Nat /\ MaxFresh \in Nat

VARIABLES
    limiter,    \* the policy's entry in the map of rate limiters
    pc,         \* where the deletions of the run stand
    dry,        \* behavior.dryRun of the policy copy being evaluated
    due,        \* resources the run has not done yet
    step,       \* Backoff.step of the current resource
    pause,      \* what Backoff.Next returns after the next failure
    sleep,      \* ticks left of the current pause
    watch       \* history: what happened in a window of one second

backoff == <<step, pause, sleep>>
vars == <<limiter, pc, dry, due, backoff, watch>>

Least(a, b) == IF a <= b THEN a ELSE b
Most(a, b)  == IF a <= b THEN b ELSE a

-----------------------------------------------------------------------------
(* rate.Limiter behind RateLimiter.                                        *)

NoLimiter == [rate |-> 0, units |-> 0]

Positive(r) == IF r <= 0 THEN DefaultMaxPerSecond ELSE r

\* The bucket of a new limiter is full: its burst equals its rate.
NewRateLimiter(r) == [rate |-> Positive(r), units |-> Positive(r) * Second]

\* A slip: a changed policy gets a new limiter.
SetRateAnew(l, r) == NewRateLimiter(r)

\* A slip: the limit is set and the burst is left as it was.
SetRateLimitOnly(l, r) == [rate |-> Positive(r), units |-> l.units]

\* SetLimit and SetBurst keep the tokens that fit into the new burst.
SetRate(l, r) ==
    [rate |-> Positive(r), units |-> Least(l.units, Positive(r) * Second)]

Earn(l) == [l EXCEPT !.units = Least(@ + l.rate, l.rate * Second)]

HasToken == limiter.units >= Second

\* Wait returns once there is a token, and takes it.
Wait == HasToken /\ limiter' = [limiter EXCEPT !.units = @ - Second]

\* What getOrCreateRateLimiter returns for a policy with rate r.
GetOrCreate(r) ==
    LET wanted == IF r > 0 THEN r ELSE DefaultMaxPerSecond
    IN  IF limiter = NoLimiter THEN NewRateLimiter(wanted) ELSE SetRate(limiter, wanted)

-----------------------------------------------------------------------------
(* Backoff.                                                                *)

IsExhausted == step >= Steps

\* Pauses double up to the cap; the five per cent of jitter are below a tick.
NextPause(d) == Least(2 * d, Cap)

-----------------------------------------------------------------------------
Closed == [left |-> 0, peak |-> 0, fresh |-> 0, sent |-> 0, done |-> 0]

\* Counts n more of a kind in the window, when one is open.
Note(kind) ==
    watch' = IF watch.left = 0 THEN watch ELSE [watch EXCEPT ![kind] = @ + 1]

TypeOK ==
    /\ limiter \in [rate: Nat, units: Nat] /\ limiter.units <= limiter.rate * Second
    /\ pc \in {"idle", "batch", "attempt", "send", "reply", "pause"}
    /\ dry \in BOOLEAN /\ due \in Nat /\ step \in Nat /\ pause \in Nat /\ sleep \in Nat
    /\ watch \in [left: 0 .. Second, peak: Nat, fresh: Nat, sent: Nat, done: Nat]
    /\ pc # "idle" => limiter.rate > 0
    /\ due = 0 => pc \in {"idle", "batch"}

Init ==
    /\ limiter = NoLimiter /\ pc = "idle" /\ dry = FALSE /\ due = 0
    /\ step = 0 /\ pause = 0 /\ sleep = 0 /\ watch = Closed

-----------------------------------------------------------------------------
(* The run.                                                                *)

\* deleteResourcesInBatches gets the limiter at the rate of the run's policy copy.
StartDeleting(r, n, d) ==
    /\ pc = "idle" /\ pc' = "batch"
    /\ dry' = d /\ due' = n /\ limiter' = GetOrCreate(r)
    /\ watch' = IF watch.left = 0 THEN watch
                ELSE [watch EXCEPT !.peak = Most(@, limiter'.rate),
                                   !.fresh = IF limiter = NoLimiter THEN @ + 1 ELSE @]
    /\ UNCHANGED backoff

EndDeleting ==
    /\ pc = "batch" /\ due = 0 /\ pc' = "idle"
    /\ UNCHANGED <<limiter, dry, due, backoff, watch>>

\* The wait of deleteBatchShared, one per resource.
WaitForBatch ==
    /\ pc = "batch" /\ due > 0
    /\ Wait /\ pc' = "attempt" /\ step' = 0 /\ pause' = Duration
    /\ UNCHANGED <<dry, due, sleep, watch>>

\* A slip: a retry is free of charge.
WaitForAttemptOnce ==
    /\ pc = "attempt" /\ ~IsExhausted
    /\ (IF step = 0 THEN Wait ELSE UNCHANGED limiter) /\ pc' = "send"
    /\ UNCHANGED <<dry, due, backoff, watch>>

\* The wait of deleteResource, one per attempt.
WaitForAttempt ==
    /\ pc = "attempt" /\ ~IsExhausted
    /\ Wait /\ pc' = "send"
    /\ UNCHANGED <<dry, due, backoff, watch>>

NextResource == pc' = "batch" /\ due' = due - 1

Succeed == NextResource /\ Note("done") /\ UNCHANGED <<limiter, dry, backoff>>
Fail    == NextResource /\ UNCHANGED <<limiter, dry, backoff, watch>>

GiveUp == pc = "attempt" /\ IsExhausted /\ Fail

\* A dry run stops short of the request.
Send ==
    /\ pc = "send"
    /\ \/ dry /\ Succeed
       \/ ~dry /\ pc' = "reply" /\ Note("sent") /\ UNCHANGED <<limiter, dry, due, backoff>>

\* A slip: the backoff is read but not advanced.
ReceiveStuck ==
    /\ pc = "reply"
    /\ \/ Succeed
       \/ Fail
       \/ /\ pc' = "pause" /\ sleep' = pause /\ pause' = NextPause(pause)
          /\ UNCHANGED <<limiter, dry, due, step, watch>>

\* The answer: done or NotFound, a final error, or one that is worth a retry.
Receive ==
    /\ pc = "reply"
    /\ \/ Succeed
       \/ Fail
       \/ /\ pc' = "pause" /\ step' = step + 1
          /\ sleep' = pause /\ pause' = NextPause(pause)
          /\ UNCHANGED <<limiter, dry, due, watch>>

WakeUp ==
    /\ pc = "pause" /\ sleep = 0 /\ pc' = "attempt"
    /\ UNCHANGED <<limiter, dry, due, backoff, watch>>

-----------------------------------------------------------------------------
(* Time, the process, and the window of one second that is watched.        *)

Tick ==
    /\ limiter' = Earn(limiter)
    /\ sleep' = IF sleep = 0 THEN 0 ELSE sleep - 1
    /\ watch' = IF watch.left > 1 THEN [watch EXCEPT !.left = @ - 1] ELSE Closed
    /\ UNCHANGED <<pc, dry, due, step, pause>>

\* The process ends, and the next one, here or elsewhere, has no limiters yet.
Restart ==
    /\ limiter # NoLimiter /\ watch.fresh < MaxFresh
    /\ limiter' = NoLimiter /\ pc' = "idle" /\ dry' = FALSE
    /\ due' = 0 /\ step' = 0 /\ pause' = 0 /\ sleep' = 0
    /\ UNCHANGED watch

\* Any second may be the one that is looked at.
OpenWindow ==
    /\ watch.left = 0
    /\ watch' = [Closed EXCEPT !.left = Second, !.peak = limiter.rate]
    /\ UNCHANGED <<limiter, pc, dry, due, backoff>>

-----------------------------------------------------------------------------
Work ==
    \/ EndDeleting \/ WaitForBatch \/ WaitForAttempt \/ GiveUp \/ Send
    \/ Receive \/ WakeUp

Next ==
    \/ \E r \in Rates, n \in 1 .. MaxDue, d \in BOOLEAN : StartDeleting(r, n, d)
    \/ Work \/ Tick \/ Restart \/ OpenWindow

Spec == Init /\ [][Next]_vars

\* Time passes, and the worker's goroutine runs whenever it can.
FairSpec == Spec /\ WF_vars(Tick) /\ WF_vars(Work)

-----------------------------------------------------------------------------
\* "Maximum deletions per second": no second sees more deletions than the highest
\* rate in force in it, one that was under way at its start aside.  The bucket may be
\* full when the second starts and fills up once more while it lasts, and every
\* process that starts in it adds a full one; two tokens per deletion make up for the
\* first of these (getOrCreateRateLimiterShared, deleteBatchShared, deleteResource).
DeletionsBounded == 2 * (watch.done - 1) <= watch.peak * (2 + watch.fresh)

\* An API server that refuses is not stormed: retries draw on the bucket, too, so no
\* second sees more requests than a full bucket and a second's income pay for
\* (deleteResourceWithBackoffShared, deleteResource).
RequestsBounded == watch.sent - 1 <= watch.peak * (2 + watch.fresh)

\* Every run ends, however low the rate and however stubborn the server: a limiter
\* is never left without tokens for good and the retries are bounded (SetRate, Next).
RunEnds == pc # "idle" ~> pc = "idle"
=============================================================================
