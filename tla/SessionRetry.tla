---------------------------- MODULE SessionRetry ----------------------------
(***************************************************************************)
(* with_session_retry (python/seam_sdk/retry.py; withSessionRetry in       *)
(* ts/src/retry.ts is its twin): the opt-in loop around one SDK call that  *)
(* the runtime refuses SESSION_UNAVAILABLE or TENANT_MOVING.  The loop is  *)
(* numeric: the waits it draws, the total it has waited, the attempts it   *)
(* has made.  Times are integers in one unit; rng() draws draw / RngSteps. *)
(*                                                                         *)
(* The runtime's side is external.  A session's lease is held by a dead    *)
(* runtime and lapses; a refusal carries the remaining lease as RetryInfo. *)
(* A refusal for another reason (the lease store is down, the tenant       *)
(* moves) carries one of OutageHints.  RetryInfo is a signed duration that *)
(* errors.py decodes with its sign, so a hint may be negative; 0 stands    *)
(* for no RetryInfo (`retry_after or 0.0`).                                *)
(*                                                                         *)
(* The helpers differ in what sleep does with a negative delay: time.sleep *)
(* raises ValueError, asyncio.sleep and setTimeout return at once.         *)
(***************************************************************************)
EXTENDS Integers

CONSTANTS
    Budget, BaseDelay, MaxDelay, MaxAttempts,  \* the loop's parameters
    RngSteps,       \* rng() takes the values 0, 1/RngSteps, ... below 1
    LeaseTTL,       \* the longest remaining lease
    OutageHints     \* the RetryInfo of a refusal that is not for the lease

ASSUME ParametersAssumption ==
    /\ Budget \in Nat /\ BaseDelay \in Nat /\ MaxDelay \in Nat
    /\ MaxAttempts \in Nat \ {0} /\ RngSteps \in Nat \ {0}
    /\ LeaseTTL \in Nat /\ OutageHints \subseteq Int

VARIABLES
    state,     \* "calling", "refused", "sleeping", "returned" or "raised"
    attempt,   \* the loop's `attempt`
    waited,    \* the loop's `waited`
    hint,      \* the RetryInfo of the last refusal
    draw,      \* what rng() has drawn for the sleep under way
    delay,     \* the delay of the sleep under way
    lease,     \* runtime: what is left of the dead holder's lease
    outage,    \* history: a refusal was for an outage or a move, not for the lease
    retryable, \* the last error is_retryable
    blocking,  \* with_session_retry; else with_session_retry_async or withSessionRetry
    asleep,    \* history: the time really slept
    below      \* history: the sum of the negative hints that were slept on

retryVars == <<state, attempt, waited, hint, draw, delay, lease, outage, retryable,
               blocking, asleep, below>>

Least(m, n) == IF m <= n THEN m ELSE n
Positive(n) == IF n > 0 THEN n ELSE 0

\* The cap on the jitter drawn after attempt n: base * 2^(n-1), at most MaxDelay.
JitterCap(n) == Least(MaxDelay, BaseDelay * 2^(n - 1))

\* Faulty variant: the runtime's RetryInfo is ignored.
DelayWithoutHint(d) == (d * JitterCap(attempt)) \div RngSteps

\* The delay for a draw: RetryInfo plus rng() times the cap.
DelayFor(d) == hint + (d * JitterCap(attempt)) \div RngSteps

RetryTypeOK ==
    /\ state \in {"calling", "refused", "sleeping", "returned", "raised"}
    /\ attempt \in 1..MaxAttempts
    /\ waited \in Int /\ hint \in Int /\ delay \in Int
    /\ draw \in 0..(RngSteps - 1)
    /\ lease \in 0..LeaseTTL
    /\ outage \in BOOLEAN /\ retryable \in BOOLEAN /\ blocking \in BOOLEAN
    /\ asleep \in Nat /\ below \in Nat

RetryInit ==
    /\ state = "calling"
    /\ attempt = 1
    /\ waited = 0
    /\ hint = 0
    /\ draw = 0
    /\ delay = 0
    /\ lease \in 0..LeaseTTL
    /\ outage = FALSE
    /\ retryable = FALSE
    /\ blocking \in BOOLEAN
    /\ asleep = 0
    /\ below = 0

\* call() succeeds: the lease has lapsed.
Succeed ==
    /\ state = "calling"
    /\ lease = 0
    /\ state' = "returned"
    /\ UNCHANGED <<attempt, waited, hint, draw, delay, lease, outage, retryable,
                   blocking, asleep, below>>

\* call() is refused with SESSION_UNAVAILABLE for the lease.
RefuseLease ==
    /\ state = "calling"
    /\ lease > 0
    /\ state' = "refused"
    /\ hint' = lease
    /\ retryable' = TRUE
    /\ UNCHANGED <<attempt, waited, draw, delay, lease, outage, blocking, asleep, below>>

\* call() is refused for the store's outage or for the tenant's move.
RefuseOutage ==
    /\ state = "calling"
    /\ state' = "refused"
    /\ hint' \in OutageHints
    /\ retryable' = TRUE
    /\ outage' = TRUE
    /\ UNCHANGED <<attempt, waited, draw, delay, lease, blocking, asleep, below>>

\* call() raises an error that is not retryable.
Fail ==
    /\ state = "calling"
    /\ state' = "refused"
    /\ hint' = 0
    /\ retryable' = FALSE
    /\ UNCHANGED <<attempt, waited, draw, delay, lease, outage, blocking, asleep, below>>

\* Faulty variant: the budget is compared with what has been waited so far.
OverrunsOnceSpent(d) == waited > Budget

\* _next_delay: this delay would overrun the budget.
Overruns(d) == waited + DelayFor(d) > Budget

\* _next_delay: no attempt is left.
LastAttempt == attempt >= MaxAttempts

\* _next_delay returns None: the error is raised as it is.
Raise ==
    /\ state = "refused"
    /\ \/ ~retryable
       \/ LastAttempt
       \/ \E d \in 0..(RngSteps - 1) : Overruns(d)
    /\ state' = "raised"
    /\ UNCHANGED <<attempt, waited, hint, draw, delay, lease, outage, retryable,
                   blocking, asleep, below>>

\* _next_delay returns a delay.
Backoff ==
    /\ state = "refused"
    /\ retryable
    /\ ~LastAttempt
    /\ \E d \in 0..(RngSteps - 1) : ~Overruns(d) /\ draw' = d /\ delay' = DelayFor(d)
    /\ state' = "sleeping"
    /\ UNCHANGED <<attempt, waited, hint, lease, outage, retryable, blocking, asleep, below>>

\* sleep(delay) lets the loop go on: at once when delay is negative, unless it
\* is time.sleep.
SleepReturns == delay >= 0 \/ ~blocking

\* Faulty variant: the attempt is not counted.
WakeUncounted ==
    /\ state = "sleeping"
    /\ SleepReturns
    /\ waited' = waited + delay
    /\ lease' = Positive(lease - Positive(delay))
    /\ asleep' = asleep + Positive(delay)
    /\ below' = below + Positive(-hint)
    /\ state' = "calling"
    /\ draw' = 0
    /\ delay' = 0
    /\ hint' = 0
    /\ UNCHANGED <<attempt, outage, retryable, blocking>>

\* sleep(delay) ends, the lease has run down meanwhile, and the loop goes round.
Wake ==
    /\ state = "sleeping"
    /\ SleepReturns
    /\ waited' = waited + delay
    /\ attempt' = attempt + 1
    /\ lease' = Positive(lease - Positive(delay))
    /\ asleep' = asleep + Positive(delay)
    /\ below' = below + Positive(-hint)
    /\ state' = "calling"
    /\ draw' = 0
    /\ delay' = 0
    /\ hint' = 0
    /\ UNCHANGED <<outage, retryable, blocking>>

\* time.sleep(delay) raises ValueError, which leaves the loop.
SleepRaises ==
    /\ state = "sleeping"
    /\ ~SleepReturns
    /\ state' = "raised"
    /\ draw' = 0
    /\ delay' = 0
    /\ UNCHANGED <<attempt, waited, hint, lease, outage, retryable, blocking, asleep, below>>

RetryNext ==
    \/ Succeed \/ RefuseLease \/ RefuseOutage \/ Fail \/ Raise \/ Backoff \/ Wake
    \/ SleepRaises

RetrySpec == RetryInit /\ [][RetryNext]_retryVars

\* The loop runs, its calls have deadlines and its sleeps end.
RetryFairSpec == RetrySpec /\ WF_retryVars(RetryNext)

-------------------------------------------------------------------------------
(* Properties. *)

\* The calls never exceed max_attempts.  The time really slept, the sleep under
\* way included, never exceeds budget_s in with_session_retry, whatever RetryInfo
\* the runtime sends; in the asyncio and the TypeScript helper it exceeds it by
\* no more than the negative RetryInfo add up to, since a delay below zero takes
\* `waited` back although no time has passed.
LoopIsBounded ==
    LET total == asleep + Positive(delay) IN
    /\ attempt <= MaxAttempts
    /\ total <= Budget + below
    /\ blocking => total <= Budget

\* "One lapsed lease is always waited out": a call refused only because of a dead
\* holder's lease gets through on its second attempt, for every remaining lease
\* and every jitter; it is never raised for want of budget.
LeaseWaitedOut ==
    ~outage => attempt <= 2 /\ (state = "raised" => ~retryable)

\* The loop ends, even when the runtime refuses every call.
LoopEnds == <>(state \in {"returned", "raised"})

\* The module docstring of retry.py gives base_delay_s * 2**n as the exponential
\* before attempt n+1; the code draws from base_delay_s * 2**(n-1).
DocumentedDelay ==
    state = "sleeping" =>
        delay = hint + (draw * Least(MaxDelay, BaseDelay * 2^attempt)) \div RngSteps
=============================================================================
