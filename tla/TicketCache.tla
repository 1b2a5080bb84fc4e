----------------------------- MODULE TicketCache -----------------------------
(***************************************************************************)
(* TicketCache (python/seam_sdk/_authorize.py), the arithmetic behind      *)
(* TicketLifecycle's "stale": a ticket is handed out until 80% of the TTL  *)
(* that the client computes when it stores it.  The expiry is an instant   *)
(* on the runtime's clock; the client compares it with its own clock,      *)
(* which lags behind or runs ahead of the runtime's, and which may be      *)
(* stepped between the store and a later get (time.time() is not           *)
(* monotonic).  Times are milliseconds.                                    *)
(***************************************************************************)
EXTENDS Integers

CONSTANTS
    Ttls,     \* the lifetimes the runtime gives to a ticket
    Lags,     \* by how much the client's clock may lag the runtime's (or lead, below 0)
    MaxTime   \* bound on the runtime's clock

ASSUME ClockAssumption == Ttls \subseteq Nat /\ Lags \subseteq Int /\ MaxTime \in Nat

VARIABLES
    now,         \* the runtime's clock
    lag,         \* the client's clock is at now - lag
    inFlight,    \* the expires_at_ms of a ticket on its way, -1 without one
    cached,      \* _ticket is not None
    refreshAt,   \* _refresh_at_ms
    expiresAt,   \* history: the expires_at_ms of the cached ticket
    storedAt,    \* history: when it was stored, on the runtime's clock
    storedLag    \* history: the lag at that time

cacheVars == <<now, lag, inFlight, cached, refreshAt, expiresAt, storedAt, storedLag>>

\* _now_ms, the client's clock.
NowMs == now - lag

CacheTypeOK ==
    /\ now \in 0..MaxTime /\ lag \in Int
    /\ inFlight \in Nat \cup {-1}
    /\ cached \in BOOLEAN
    /\ refreshAt \in Int
    /\ expiresAt \in Nat /\ storedAt \in 0..MaxTime /\ storedLag \in Int

CacheInit ==
    /\ now = 0
    /\ lag \in Lags
    /\ inFlight = -1
    /\ cached = FALSE
    /\ refreshAt = 0
    /\ expiresAt = 0
    /\ storedAt = 0
    /\ storedLag = 0

\* TicketCache.get hands the ticket out.
Fresh == cached /\ NowMs < refreshAt

\* The runtime mints a ticket.
Issue ==
    /\ inFlight = -1
    /\ \E ttl \in Ttls : inFlight' = now + ttl
    /\ UNCHANGED <<now, lag, cached, refreshAt, expiresAt, storedAt, storedLag>>

\* Faulty variant: the whole TTL is used.
RefreshAtExpiry(ttl) == NowMs + ttl

\* The refresh point that store computes.
RefreshPoint(ttl) == NowMs + (ttl * 8) \div 10

\* Faulty variant: a ticket is cached whatever its TTL.
AnyTtlCacheable(ttl) == TRUE

\* store caches the ticket: it is not already expired.
Cacheable(ttl) == ttl > 0

\* The ticket arrives and store is called.  An empty ticket is never cached.
Store ==
    /\ inFlight # -1
    /\ inFlight' = -1
    /\ \E empty \in BOOLEAN : LET ttl == inFlight - NowMs IN
        /\ cached' = (Cacheable(ttl) /\ ~empty)
        /\ refreshAt' = IF cached' THEN RefreshPoint(ttl) ELSE 0
    /\ expiresAt' = inFlight
    /\ storedAt' = now
    /\ storedLag' = lag
    /\ UNCHANGED <<now, lag>>

\* TicketCache.invalidate.
Invalidate ==
    /\ cached
    /\ cached' = FALSE
    /\ refreshAt' = 0
    /\ UNCHANGED <<now, lag, inFlight, expiresAt, storedAt, storedLag>>

\* Time passes.
Tick ==
    /\ now < MaxTime
    /\ now' = now + 1
    /\ UNCHANGED <<lag, inFlight, cached, refreshAt, expiresAt, storedAt, storedLag>>

\* The client's clock is stepped.
StepClock ==
    /\ lag' \in Lags \ {lag}
    /\ UNCHANGED <<now, inFlight, cached, refreshAt, expiresAt, storedAt, storedLag>>

CacheNext == Issue \/ Store \/ Invalidate \/ Tick \/ StepClock

CacheSpec == CacheInit /\ [][CacheNext]_cacheVars

-------------------------------------------------------------------------------
(* Properties. *)

\* On the client's own clock a ticket is never handed out at or after its expiry,
\* however the clock is stepped.
NeverServedExpired == Fresh => NowMs < expiresAt

\* "So a refresh lands before expiry, not after a failed call": a ticket that get
\* hands out is not expired at the runtime either, as long as the client's clock
\* lags by at most a quarter of the life the ticket had left when it was stored.
\* With the clock stepped in between, the exact condition is the one below.
SkewTolerated ==
    Fresh /\ 5 * lag - storedLag <= expiresAt - storedAt => now < expiresAt
==============================================================================
