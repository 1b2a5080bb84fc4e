---------------------------- MODULE HelperProofs ----------------------------
(***************************************************************************)
(* Theorems about the three helpers beside the clients: the ticket cache's *)
(* clock arithmetic, the session retry loop and the creation of an         *)
(* identity file.                                                          *)
(***************************************************************************)
EXTENDS TicketCache, SessionRetry, IdentityFile, FiniteSetTheorems, TLAPS

-------------------------------------------------------------------------------
(* TicketCache: the refresh point, for every lifetime and every clock. *)

\* What the cached refresh point was computed from.
CacheInv ==
    cached =>
        LET ttl == expiresAt - (storedAt - storedLag)
        IN  ttl > 0 /\ refreshAt = (storedAt - storedLag) + (ttl * 8) \div 10

\* Four fifths, rounded down, are at most four fifths.
LEMMA EightTenths == \A n \in Nat : 10 * ((n * 8) \div 10) <= 8 * n /\ (n * 8) \div 10 \in Nat
OBVIOUS

LEMMA CacheTypeStep == CacheTypeOK /\ [CacheNext]_cacheVars => CacheTypeOK'
<1>. SUFFICES ASSUME CacheTypeOK, [CacheNext]_cacheVars PROVE CacheTypeOK'
  OBVIOUS
<1>1. CASE Issue
  BY <1>1, ClockAssumption DEF Issue, CacheTypeOK
<1>2. CASE Store
  <2>1. inFlight - NowMs \in Int
    BY DEF NowMs, CacheTypeOK
  <2>2. RefreshPoint(inFlight - NowMs) \in Int
    BY <2>1 DEF RefreshPoint, NowMs, CacheTypeOK
  <2>3. cached' \in BOOLEAN /\ refreshAt' \in Int
    BY <1>2, <2>2 DEF Store
  <2>. QED
    BY <1>2, <2>3 DEF Store, CacheTypeOK
<1>3. CASE Invalidate
  <2>1. cached' \in BOOLEAN
    BY <1>3, Zenon DEF Invalidate
  <2>. QED
    BY <1>3, <2>1 DEF Invalidate, CacheTypeOK
<1>4. CASE Tick
  BY <1>4, ClockAssumption DEF Tick, CacheTypeOK
<1>5. CASE StepClock
  BY <1>5, ClockAssumption DEF StepClock, CacheTypeOK
<1>6. CASE UNCHANGED cacheVars
  BY <1>6 DEF cacheVars, CacheTypeOK
<1>. QED
  BY <1>1, <1>2, <1>3, <1>4, <1>5, <1>6 DEF CacheNext

LEMMA CacheStep == CacheTypeOK /\ CacheInv /\ [CacheNext]_cacheVars => CacheInv'
<1>. SUFFICES ASSUME CacheTypeOK, CacheInv, [CacheNext]_cacheVars PROVE CacheInv'
  OBVIOUS
<1>1. CASE Store
  <2>. SUFFICES ASSUME cached'
                PROVE  LET ttl == expiresAt' - (storedAt' - storedLag')
                       IN  ttl > 0 /\ refreshAt' = (storedAt' - storedLag') + (ttl * 8) \div 10
    BY DEF CacheInv
  <2>1. inFlight - NowMs > 0 /\ refreshAt' = RefreshPoint(inFlight - NowMs)
    BY Zenon, <1>1 DEF Store, Cacheable
  <2>2. expiresAt' = inFlight /\ storedAt' - storedLag' = NowMs
    BY <1>1 DEF Store, NowMs
  <2>. QED
    BY <2>1, <2>2 DEF RefreshPoint
<1>2. CASE Issue \/ Invalidate \/ Tick \/ StepClock \/ UNCHANGED cacheVars
  BY Zenon, <1>2 DEF Issue, Invalidate, Tick, StepClock, cacheVars, CacheInv
<1>. QED
  BY <1>1, <1>2 DEF CacheNext

\* The refresh point lies before the expiry on the client's clock, and by the
\* stated margin before it on the runtime's.
LEMMA FreshIsSafe == CacheTypeOK /\ CacheInv => NeverServedExpired /\ SkewTolerated
<1>. SUFFICES ASSUME CacheTypeOK, CacheInv, Fresh
              PROVE  /\ NowMs < expiresAt
                     /\ 5 * lag - storedLag <= expiresAt - storedAt => now < expiresAt
  BY DEF NeverServedExpired, SkewTolerated
<1>. DEFINE ttl == expiresAt - (storedAt - storedLag)
<1>1. ttl \in Nat /\ ttl > 0 /\ refreshAt = (storedAt - storedLag) + (ttl * 8) \div 10
  BY DEF Fresh, CacheInv, CacheTypeOK
<1>2. 10 * ((ttl * 8) \div 10) <= 8 * ttl /\ (ttl * 8) \div 10 \in Nat
  BY <1>1, EightTenths
<1>3. now - lag < refreshAt
  BY DEF Fresh, NowMs
<1>4. now \in Int /\ lag \in Int /\ expiresAt \in Int /\ storedAt \in Int /\ storedLag \in Int
  BY ClockAssumption DEF CacheTypeOK
<1>. HIDE DEF ttl
<1>5. 10 * (now - lag) < 10 * (storedAt - storedLag) + 8 * ttl
  BY <1>1, <1>2, <1>3, <1>4
<1>6. ttl = expiresAt - (storedAt - storedLag)
  BY DEF ttl
<1>. QED
  BY <1>1, <1>4, <1>5, <1>6 DEF NowMs

LEMMA CacheInvariance == CacheSpec => [](CacheTypeOK /\ CacheInv)
<1>1. CacheInit => CacheTypeOK /\ CacheInv
  <2>1. CacheInit => cached \in BOOLEAN /\ ~cached
    BY Zenon DEF CacheInit
  <2>. QED
    BY <2>1, ClockAssumption DEF CacheInit, CacheTypeOK, CacheInv
<1>2. CacheTypeOK /\ CacheInv /\ [CacheNext]_cacheVars => CacheTypeOK' /\ CacheInv'
  BY CacheTypeStep, CacheStep
<1>. QED
  BY <1>1, <1>2, PTL DEF CacheSpec

\* get never hands out a ticket that is expired on the client's clock, for every
\* lifetime and however the clock is stepped.
THEOREM ExpiredIsNotServed == CacheSpec => []NeverServedExpired
<1>1. CacheTypeOK /\ CacheInv => NeverServedExpired
  BY FreshIsSafe
<1>. QED
  BY <1>1, CacheInvariance, PTL

\* A ticket that get hands out is alive at the runtime as long as the client's
\* clock lags by no more than the stated share of the ticket's life.
THEOREM SkewIsTolerated == CacheSpec => []SkewTolerated
<1>1. CacheTypeOK /\ CacheInv => SkewTolerated
  BY FreshIsSafe
<1>. QED
  BY <1>1, CacheInvariance, PTL

-------------------------------------------------------------------------------
(* SessionRetry: the bounds, for every choice of the parameters, every
   RetryInfo, negative ones included, and every jitter. *)

\* A sleep was admitted by _next_delay: an attempt is left and the budget holds.
\* `waited` falls behind the time slept by what negative hints take back, and
\* not at all where a negative sleep raises.
SleepInv ==
    /\ hint \in Int /\ lease \in Nat /\ asleep \in Nat /\ below \in Nat
    /\ waited \in Int /\ delay \in Int /\ attempt \in Nat \ {0}
    /\ waited <= Budget /\ waited + delay <= Budget
    /\ attempt <= MaxAttempts
    /\ state = "sleeping" => attempt < MaxAttempts /\ delay >= hint
    /\ state # "sleeping" => delay = 0
    /\ waited <= asleep /\ asleep <= waited + below
    /\ blocking => asleep = waited

\* Powers of two are naturals: they count the subsets of a finite set.
LEMMA PowerOfTwo == \A n \in Nat : 2^n \in Nat
<1>. TAKE n \in Nat
<1>1. IsFiniteSet(1..n) /\ Cardinality(1..n) = n
  BY FS_Interval
<1>2. IsFiniteSet(SUBSET (1..n)) /\ Cardinality(SUBSET (1..n)) = 2^n
  BY Zenon, <1>1, FS_SUBSET
<1>. QED
  BY <1>2, FS_CardinalityType

\* A delay that can be drawn is at least the hint: jitter only adds.
LEMMA DelayType ==
    ASSUME hint \in Int, attempt \in Nat \ {0}, NEW d \in 0..(RngSteps - 1)
    PROVE  DelayFor(d) \in Int /\ DelayFor(d) >= hint
<1>1. 2^(attempt - 1) \in Nat
  BY PowerOfTwo
<1>2. JitterCap(attempt) \in Nat
  BY <1>1, ParametersAssumption DEF JitterCap, Least
<1>3. (d * JitterCap(attempt)) \div RngSteps \in Nat
  <2>1. d * JitterCap(attempt) \in Nat
    BY <1>2, ParametersAssumption
  <2>. QED
    BY <2>1, ParametersAssumption
<1>. QED
  BY <1>3 DEF DelayFor

LEMMA InitSleep == RetryInit => SleepInv
BY ParametersAssumption DEF RetryInit, SleepInv

LEMMA NextSleep == SleepInv /\ [RetryNext]_retryVars => SleepInv'
<1>. SUFFICES ASSUME SleepInv, [RetryNext]_retryVars PROVE SleepInv'
  OBVIOUS
<1>1. CASE Succeed \/ RefuseLease \/ RefuseOutage \/ Fail \/ Raise
  <2>1. /\ UNCHANGED <<waited, delay, attempt, lease, asleep, below, blocking>>
        /\ state # "sleeping" /\ state' # "sleeping"
        /\ hint' = hint \/ hint' = lease \/ hint' = 0 \/ hint' \in OutageHints
    BY SMT, SMTT(30), <1>1 DEF Succeed, RefuseLease, RefuseOutage, Fail, Raise
  <2>2. \A h \in OutageHints : h \in Int
    BY Zenon, ParametersAssumption
  <2>3. hint' \in Int
    BY <2>1, <2>2 DEF SleepInv
  <2>. QED
    BY <2>1, <2>3 DEF SleepInv
<1>2. CASE Backoff
  <2>1. PICK d \in 0..(RngSteps - 1) : ~Overruns(d) /\ delay' = DelayFor(d)
    BY <1>2 DEF Backoff
  <2>2. DelayFor(d) \in Int /\ DelayFor(d) >= hint
    BY DelayType DEF SleepInv
  <2>3. waited + DelayFor(d) <= Budget
    BY <2>1, <2>2, ParametersAssumption DEF Overruns, SleepInv
  <2>4. attempt < MaxAttempts
    BY <1>2, ParametersAssumption DEF Backoff, LastAttempt, SleepInv
  <2>. QED
    BY SMT, SMTT(30), <1>2, <2>1, <2>2, <2>3, <2>4 DEF Backoff, SleepInv
<1>3. CASE Wake
  <2>1. /\ lease' \in Nat /\ asleep' = asleep + Positive(delay) /\ waited' = waited + delay
        /\ below' = below + Positive(-hint) /\ hint' = 0 /\ delay' = 0
        /\ attempt' = attempt + 1 /\ state' = "calling"
    BY SMT, SMTT(30), <1>3 DEF Wake, SleepInv, Positive
  <2>2. (blocking' <=> blocking) /\ (blocking => delay >= 0)
    BY SMT, SMTT(30), <1>3 DEF Wake, SleepReturns
  <2>. QED
    BY SMT, SMTT(30), <1>3, <2>1, <2>2, ParametersAssumption DEF Wake, SleepInv, Positive
<1>4. CASE SleepRaises
  BY SMT, SMTT(30), <1>4 DEF SleepRaises, SleepInv
<1>5. CASE UNCHANGED retryVars
  BY <1>5 DEF retryVars, SleepInv
<1>. QED
  BY <1>1, <1>2, <1>3, <1>4, <1>5 DEF RetryNext

\* Whatever RetryInfo the runtime sends, with_session_retry makes at most
\* max_attempts calls and never sleeps longer than budget_s in all; its asyncio
\* and TypeScript twins sleep beyond it by the negative RetryInfo at most.
THEOREM RetryIsBounded == RetrySpec => []LoopIsBounded
<1>1. SleepInv => LoopIsBounded
  BY SMT, SMTT(30), ParametersAssumption DEF SleepInv, LoopIsBounded, Positive
<1>. QED
  BY <1>1, InitSleep, NextSleep, PTL DEF RetrySpec

\* The variables of the loop stay in their types.
RetryInv == RetryTypeOK /\ SleepInv

LEMMA InitRetry == RetryInit => RetryInv
<1>. SUFFICES ASSUME RetryInit PROVE RetryInv
  OBVIOUS
<1>1. outage \in BOOLEAN /\ retryable \in BOOLEAN /\ blocking \in BOOLEAN
  BY Zenon DEF RetryInit
<1>. QED
  BY <1>1, InitSleep, ParametersAssumption DEF RetryInit, RetryInv, RetryTypeOK

LEMMA NextRetry == RetryInv /\ [RetryNext]_retryVars => RetryInv'
<1>. SUFFICES ASSUME RetryInv, [RetryNext]_retryVars PROVE RetryTypeOK'
  BY NextSleep DEF RetryInv
<1>. SleepInv'
  BY NextSleep DEF RetryInv
<1>0. outage' \in BOOLEAN /\ retryable' \in BOOLEAN /\ blocking' \in BOOLEAN
  BY Zenon DEF RetryInv, RetryTypeOK, RetryNext, Succeed, RefuseLease, RefuseOutage, Fail, Raise, Backoff,
     Wake, SleepRaises, retryVars
<1>1. CASE Succeed \/ RefuseLease \/ RefuseOutage \/ Fail \/ Raise
  BY SMT, SMTT(30), <1>0, <1>1 DEF Succeed, RefuseLease, RefuseOutage, Fail, Raise,
     RetryInv, RetryTypeOK, SleepInv
<1>2. CASE Backoff
  BY <1>0, <1>2 DEF Backoff, RetryInv, RetryTypeOK, SleepInv
<1>3. CASE Wake
  <2>1. lease' \in 0..LeaseTTL
    BY <1>3, ParametersAssumption DEF Wake, Positive, RetryInv, RetryTypeOK
  <2>2. attempt' \in 1..MaxAttempts
    BY <1>3, ParametersAssumption DEF Wake, RetryInv, RetryTypeOK, SleepInv
  <2>. QED
    BY <1>0, <1>3, <2>1, <2>2, ParametersAssumption DEF Wake, RetryInv, RetryTypeOK, SleepInv
<1>4. CASE SleepRaises
  BY <1>0, <1>4, ParametersAssumption DEF SleepRaises, RetryInv, RetryTypeOK, SleepInv
<1>5. CASE UNCHANGED retryVars
  BY <1>0, <1>5 DEF retryVars, RetryInv, RetryTypeOK
<1>. QED
  BY <1>1, <1>2, <1>3, <1>4, <1>5 DEF RetryNext

\* The loop's variables keep their types for RetryInfo of any sign: the attempts
\* stay within max_attempts, while `waited` and a delay are integers that
\* may fall below zero.
THEOREM RetryTypes == RetrySpec => []RetryTypeOK
<1>1. RetryInv => RetryTypeOK
  BY DEF RetryInv
<1>. QED
  BY <1>1, InitRetry, NextRetry, PTL DEF RetrySpec

-----------------------------------------------------------------------------
(* A lapsed lease is waited out. *)

\* The budget covers the longest lease and the largest jitter of the first
\* wait, and a second call may be made.
LeaseFits == LeaseTTL + JitterCap(1) <= Budget /\ MaxAttempts >= 2

\* As long as every refusal was for the lease: the first one sleeps at least
\* the lease, so the second call finds it lapsed.
LeaseInv ==
    ~outage =>
        /\ attempt = 1 => waited = 0
        /\ attempt # 1 => attempt = 2 /\ lease = 0
        /\ state = "refused" /\ retryable => attempt = 1 /\ hint = lease
        /\ state = "sleeping" => attempt = 1 /\ delay >= lease
        /\ state = "raised" => ~retryable

\* The first jitter is at most its cap.
LEMMA JitterBelowCap ==
    ASSUME NEW d \in 0..(RngSteps - 1), NEW cap \in Nat
    PROVE  (d * cap) \div RngSteps \in 0..cap
<1>1. d * cap \in Nat /\ d * cap <= RngSteps * cap
  BY ParametersAssumption, SMTT(30)
<1>. DEFINE q == (d * cap) \div RngSteps
<1>2. q \in Nat /\ RngSteps * q <= d * cap
  BY <1>1, ParametersAssumption, SMTT(30)
<1>3. RngSteps * q <= RngSteps * cap
  BY <1>1, <1>2, ParametersAssumption, SMTT(30)
<1>4. q <= cap
  BY <1>2, <1>3, ParametersAssumption, SMTT(30)
<1>. QED
  BY <1>2, <1>4

LEMMA InitLease == RetryInit => LeaseInv
BY DEF RetryInit, LeaseInv

LEMMA NextLease ==
    ASSUME LeaseFits, RetryInv, LeaseInv, [RetryNext]_retryVars
    PROVE  LeaseInv'
<1>. USE DEF LeaseInv, RetryInv, RetryTypeOK
<1>1. CASE Succeed \/ RefuseLease \/ RefuseOutage \/ Fail
  BY <1>1 DEF Succeed, RefuseLease, RefuseOutage, Fail
<1>2. CASE Raise
  <2>. SUFFICES ASSUME ~outage, retryable PROVE FALSE
    BY <1>2 DEF Raise
  <2>1. attempt = 1 /\ waited = 0 /\ hint = lease
    BY <1>2 DEF Raise
  <2>2. ~LastAttempt
    BY <2>1, ParametersAssumption DEF LastAttempt, LeaseFits
  <2>3. PICK d \in 0..(RngSteps - 1) : Overruns(d)
    BY <1>2, <2>2 DEF Raise
  <2>4. JitterCap(1) \in Nat
    BY ParametersAssumption, PowerOfTwo DEF JitterCap, Least
  <2>5. (d * JitterCap(1)) \div RngSteps \in 0..JitterCap(1)
    BY Zenon, <2>4, JitterBelowCap
  <2>. QED
    BY SMT, SMTT(30), <2>1, <2>3, <2>4, <2>5, ParametersAssumption DEF Overruns, DelayFor, LeaseFits
<1>3. CASE Backoff
  <2>. SUFFICES ASSUME ~outage PROVE attempt = 1 /\ delay' >= lease
    BY <1>3 DEF Backoff
  <2>1. attempt = 1 /\ hint = lease
    BY <1>3 DEF Backoff
  <2>2. PICK d \in 0..(RngSteps - 1) : delay' = DelayFor(d)
    BY <1>3 DEF Backoff
  <2>3. JitterCap(1) \in Nat
    BY ParametersAssumption, PowerOfTwo DEF JitterCap, Least
  <2>4. (d * JitterCap(1)) \div RngSteps \in 0..JitterCap(1)
    BY Zenon, <2>3, JitterBelowCap
  <2>. QED
    BY SMT, SMTT(30), <2>1, <2>2, <2>3, <2>4, ParametersAssumption DEF DelayFor
<1>4. CASE Wake
  BY <1>4, ParametersAssumption DEF Wake, SleepInv, Positive
<1>5. CASE SleepRaises
  BY <1>5 DEF SleepRaises, SleepReturns
<1>6. CASE UNCHANGED retryVars
  BY <1>6 DEF retryVars
<1>. QED
  BY <1>1, <1>2, <1>3, <1>4, <1>5, <1>6 DEF RetryNext

\* "One lapsed lease is always waited out": with a budget for the longest lease
\* and the first jitter, and two calls to make, a call refused only for the lease
\* is through on its second attempt.  It is not raised, whatever the jitter.
THEOREM LeaseIsWaitedOut == LeaseFits /\ RetrySpec => []LeaseWaitedOut
<1>1. RetryInv /\ LeaseInv => LeaseWaitedOut
  BY DEF LeaseInv, LeaseWaitedOut, RetryInv, RetryTypeOK
<1>2. LeaseFits /\ RetryInv /\ LeaseInv /\ [RetryNext]_retryVars => LeaseInv'
  BY NextLease
<1>3. LeaseFits => [](LeaseFits)
  <2>1. LeaseFits => LeaseFits'
    BY DEF LeaseFits, JitterCap, Least
  <2>. QED
    BY <2>1, PTL
<1>. QED
  BY <1>1, <1>2, <1>3, InitRetry, NextRetry, InitLease, PTL DEF RetrySpec

-------------------------------------------------------------------------------
(* IdentityFile: for any number of creators, files, write sizes and power
   losses. *)

\* Control points before and after publication.
Unpublished == {"write", "sync", "link"}
Published == {"unlinkPublished", "syncDir"}
Active == Unpublished \cup Published \cup {"unlinkFailed"}

\* A running creator owns its temp file alone, and it is not yet the published one.
OwnInv ==
    /\ \A c \in Creators : pc[c] \in Active => file[c] \in 1..opened
    /\ \A c, d \in Creators : pc[c] \in Active /\ pc[d] \in Active /\ c # d
          => file[c] # file[d]
    /\ \A c \in Creators : pc[c] \in Unpublished => file[c] # path
    /\ \A c \in Creators : pc[c] = "sync" => written[file[c]] = BodySize
    /\ \A c \in Creators : pc[c] = "link" => written[file[c]] = BodySize /\ file[c] \in synced
    /\ \A c \in Creators : pc[c] \in Published => file[c] = path

\* What the path names is complete and on disk, and who returned owns it.
PathInv ==
    /\ path # 0 => path \in 1..opened /\ path \in synced /\ written[path] = BodySize
    /\ durable => path # 0
    /\ \A f \in winners : (posix => f = path /\ durable) /\ (losses = 0 => f = path)

FileInv == FileTypeOK /\ OwnInv /\ PathInv

LEMMA InitFile == FileInit => FileInv
<1>. SUFFICES ASSUME FileInit PROVE FileInv
  OBVIOUS
<1>1. durable \in BOOLEAN /\ ~durable /\ posix \in BOOLEAN
  BY Zenon DEF FileInit
<1>2. FileTypeOK
  BY SMT, SMTT(30), <1>1, SizesAssumption DEF FileInit, FileTypeOK, PCs
<1>3. OwnInv
  BY DEF FileInit, OwnInv, Active, Unpublished, Published
<1>4. PathInv
  BY <1>1 DEF FileInit, PathInv
<1>. QED
  BY <1>2, <1>3, <1>4 DEF FileInv

LEMMA OpenTmpPreserves ==
    ASSUME FileInv, NEW c \in Creators, OpenTmp(c)
    PROVE  FileInv'
<1>. USE DEF FileInv
<1>a. opened + 1 \in Files /\ opened \in Nat /\ opened' = opened + 1
  BY SizesAssumption DEF OpenTmp, FileTypeOK, Files
<1>1. FileTypeOK'
  BY SMT, SMTT(30), <1>a, SizesAssumption DEF OpenTmp, FileTypeOK, GoTo, PCs
<1>2. OwnInv'
  BY <1>a DEF OpenTmp, OwnInv, PathInv, FileTypeOK, GoTo, Active, Unpublished, Published
<1>3. PathInv'
  BY <1>a DEF OpenTmp, PathInv
<1>. QED
  BY <1>1, <1>2, <1>3

LEMMA WritePreserves ==
    ASSUME FileInv, NEW c \in Creators, Write(c)
    PROVE  FileInv'
<1>. USE DEF FileInv
<1>1. PICK n \in (written[file[c]] + 1)..BodySize :
        /\ written' = [written EXCEPT ![file[c]] = n]
        /\ pc' = [pc EXCEPT ![c] = IF n = BodySize THEN "sync" ELSE "write"]
  BY Zenon DEF Write, GoTo
<1>2. file[c] \in Files /\ file[c] \in 1..opened /\ file[c] # path /\ n \in 0..BodySize
  BY SMT, SMTT(30), SizesAssumption DEF Write, OwnInv, FileTypeOK, Files, Active, Unpublished
<1>3. FileTypeOK'
  BY Zenon, <1>1, <1>2 DEF Write, FileTypeOK, PCs
<1>4. OwnInv'
  <2>1. \A d \in Creators : d # c /\ pc[d] \in Active => written'[file[d]] = written[file[d]]
    BY SMT, SMTT(30), <1>1, <1>2 DEF Write, OwnInv, FileTypeOK, Active, Unpublished, Files
  <2>2. written'[file[c]] = n /\ \A d \in Creators : d # c => pc'[d] = pc[d]
    BY <1>1, <1>2 DEF FileTypeOK
  <2>3. pc'[c] = (IF n = BodySize THEN "sync" ELSE "write")
    BY <1>1 DEF FileTypeOK
  <2>. QED
    BY SMT, SMTT(30), <1>2, <2>1, <2>2, <2>3 DEF Write, OwnInv, Active, Unpublished, Published
<1>5. PathInv'
  BY <1>1, <1>2 DEF Write, PathInv, FileTypeOK
<1>. QED
  BY <1>3, <1>4, <1>5

LEMMA SyncPreserves ==
    ASSUME FileInv, NEW c \in Creators, Sync(c)
    PROVE  FileInv'
<1>. USE DEF FileInv
<1>1. file[c] \in Files
  BY SMT, SMTT(30) DEF Sync, OwnInv, FileTypeOK, Active, Unpublished, Files
<1>2. FileTypeOK'
  BY <1>1 DEF Sync, FileTypeOK, GoTo, PCs
<1>3. OwnInv'
  BY DEF Sync, OwnInv, FileTypeOK, GoTo, Active, Unpublished, Published
<1>4. PathInv'
  BY DEF Sync, PathInv
<1>. QED
  BY <1>2, <1>3, <1>4

LEMMA LinkPreserves ==
    ASSUME FileInv, NEW c \in Creators, Link(c)
    PROVE  FileInv'
<1>. USE DEF FileInv
<1>1. /\ file[c] \in Files /\ file[c] \in 1..opened /\ path = 0
      /\ \A f \in winners : ~posix /\ losses # 0
  BY SMT, SMTT(30) DEF Link, PathFree, OwnInv, PathInv, FileTypeOK, Active, Unpublished, Files
<1>2. durable' \in BOOLEAN /\ ~durable'
  BY Zenon DEF Link
<1>3. FileTypeOK'
  BY <1>1, <1>2 DEF Link, FileTypeOK, GoTo, PCs
<1>4. OwnInv'
  <2>1. \A d \in Creators : pc[d] \notin Published
    BY SMT, SMTT(30), <1>1 DEF OwnInv, Files, FileTypeOK, Active
  <2>. QED
    BY SMT, SMTT(30), <1>1, <2>1 DEF Link, OwnInv, FileTypeOK, GoTo, Active, Unpublished, Published
<1>5. PathInv'
  BY Zenon, <1>1, <1>2 DEF Link, PathInv, OwnInv
<1>. QED
  BY <1>3, <1>4, <1>5

LEMMA SyncDirPreserves ==
    ASSUME FileInv, NEW c \in Creators, SyncDir(c)
    PROVE  FileInv'
<1>. USE DEF FileInv
<1>1. file[c] = path /\ file[c] \in Files /\ path # 0
  BY SMT, SMTT(30) DEF SyncDir, OwnInv, FileTypeOK, Published, Active, Files
<1>2. /\ durable' \in BOOLEAN /\ (durable \/ posix <=> durable')
      /\ posix' = posix /\ losses' = losses /\ path' = path
      /\ winners' = winners \cup {file[c]}
  BY Zenon DEF SyncDir
<1>3. FileTypeOK'
  BY Zenon, <1>1, <1>2 DEF SyncDir, FileTypeOK, GoTo, PCs, Ended
<1>4. OwnInv'
  BY SMT, SMTT(30) DEF SyncDir, OwnInv, FileTypeOK, GoTo, Active, Unpublished, Published
<1>5. PathInv'
  <2>1. \A f \in winners' : (posix' => f = path' /\ durable') /\ (losses' = 0 => f = path')
    BY Zenon, <1>1, <1>2 DEF PathInv
  <2>2. durable' => path' # 0
    BY Zenon, <1>1, <1>2
  <2>. QED
    BY Zenon, <1>2, <2>1, <2>2 DEF SyncDir, PathInv
<1>. QED
  BY <1>3, <1>4, <1>5

\* Steps that end or abandon a call and touch neither the path nor any data.
LEMMA LeavePreserves ==
    ASSUME FileInv, NEW c \in Creators,
           \/ OpenFails(c) \/ WriteFails(c) \/ LinkFails(c) \/ Unlink(c) \/ UnlinkFails(c)
           \/ SyncDirFails(c) \/ Kill(c) \/ CallAgain(c)
    PROVE  FileInv'
<1>. USE DEF FileInv
<1>1. /\ UNCHANGED <<opened, written, synced, path, durable, winners, losses, posix>>
      /\ tmp' \subseteq tmp
  BY ZenonT(40) DEF OpenFails, WriteFails, LinkFails, Unlink, UnlinkFails, SyncDirFails, Kill, CallAgain
<1>2. PICK l \in PCs :
        /\ pc' = [pc EXCEPT ![c] = l]
        /\ l \in Active => pc[c] \in Active /\ file' = file
        /\ l \notin Unpublished
        /\ l \in Published => pc[c] \in Published
  <2>. USE DEF PCs, Ended, Active, Unpublished, Published, GoTo
  <2>1. CASE OpenFails(c) \/ WriteFails(c) \/ LinkFails(c)
    BY SMT, SMTT(30), <2>1 DEF OpenFails, WriteFails, LinkFails
  <2>2. CASE Unlink(c)
    <3>1. CASE pc[c] = "unlinkPublished"
      BY <2>2, <3>1 DEF Unlink
    <3>2. CASE pc[c] = "unlinkFailed"
      BY SMT, SMTT(30), <2>2, <3>2 DEF Unlink
    <3>. QED
      BY <2>2, <3>1, <3>2 DEF Unlink
  <2>3. CASE UnlinkFails(c)
    BY SMT, SMTT(30), <2>3 DEF UnlinkFails
  <2>4. CASE SyncDirFails(c)
    BY <2>4 DEF SyncDirFails
  <2>5. CASE Kill(c)
    BY SMT, SMTT(30), <2>5 DEF Kill
  <2>6. CASE CallAgain(c)
    BY SMT, SMTT(30), <2>6 DEF CallAgain
  <2>. QED
    BY Zenon, <2>1, <2>2, <2>3, <2>4, <2>5, <2>6
<1>3. file' \in [Creators -> Files \cup {0}] /\ \A d \in Creators : d # c => file'[d] = file[d]
  BY DEF OpenFails, WriteFails, LinkFails, Unlink, UnlinkFails, SyncDirFails, Kill, CallAgain,
     FileTypeOK
<1>4. FileTypeOK'
  BY ZenonT(40), <1>1, <1>2, <1>3 DEF FileTypeOK
<1>5. OwnInv'
  <2>1. /\ \A d \in Creators : d # c => pc'[d] = pc[d] /\ file'[d] = file[d]
        /\ pc'[c] = l
        /\ l \in Active => file'[c] = file[c]
    BY ZenonT(40), <1>2, <1>3 DEF FileTypeOK
  <2>2. l \notin {"write", "sync", "link"}
    BY <1>2 DEF Unpublished
  <2>3. /\ \A d \in Creators : pc'[d] \in Active => pc[d] \in Active /\ file'[d] = file[d]
        /\ \A d \in Creators : pc'[d] \in Unpublished => pc[d] \in Unpublished /\ file'[d] = file[d]
        /\ \A d \in Creators : pc'[d] \in Published => pc[d] \in Published /\ file'[d] = file[d]
        /\ \A d \in Creators : pc'[d] \in {"sync", "link"} => pc[d] = pc'[d] /\ file'[d] = file[d]
    BY ZenonT(40), <1>2, <2>1, <2>2 DEF Active, Unpublished, Published
  <2>. QED
    BY ZenonT(40), <1>1, <2>3 DEF OwnInv
<1>6. PathInv'
  BY Zenon, <1>1 DEF PathInv
<1>. QED
  BY <1>4, <1>5, <1>6

LEMMA PowerLossPreserves ==
    ASSUME FileInv, PowerLoss
    PROVE  FileInv'
<1>. USE DEF FileInv
<1>1. 1..opened \subseteq Files /\ opened' = opened
  BY SMT, SMTT(30), SizesAssumption DEF PowerLoss, FileTypeOK, Files
<1>2. PICK kept \in [Files -> 0..BodySize] :
        /\ \A f \in Files : f \in synced => kept[f] = written[f]
        /\ written' = kept
  BY DEF PowerLoss
<1>3. pc' \in [Creators -> PCs] /\ \A c \in Creators : pc'[c] \notin Active
  BY DEF PowerLoss, FileTypeOK, PCs, Ended, Active, Unpublished, Published
<1>4. path' \in {path, 0} /\ (durable => path' = path) /\ durable' = (path' # 0)
  BY SMT, SMTT(30) DEF PowerLoss
<1>5. FileTypeOK'
  <2>1. durable' \in BOOLEAN
    BY <1>4
  <2>2. losses' \in 0..MaxPowerLoss
    BY SMT, SMTT(30), SizesAssumption DEF PowerLoss, FileTypeOK
  <2>. QED
    BY <1>1, <1>2, <1>3, <1>4, <2>1, <2>2 DEF PowerLoss, FileTypeOK
<1>6. OwnInv'
  BY <1>3 DEF OwnInv, Active, Unpublished, Published
<1>7. PathInv'
  <2>1. path' # 0 => path' \in 1..opened' /\ path' \in synced' /\ written'[path'] = BodySize
    BY <1>1, <1>2, <1>4 DEF PowerLoss, PathInv
  <2>2. \A f \in winners' : posix => f = path' /\ path' # 0
    BY Zenon, <1>4 DEF PowerLoss, PathInv
  <2>3. losses' # 0 /\ posix' = posix
    BY SMT, SMTT(30) DEF PowerLoss, FileTypeOK
  <2>. QED
    BY Zenon, <1>4, <2>1, <2>2, <2>3 DEF PathInv
<1>. QED
  BY <1>5, <1>6, <1>7

LEMMA NextFile == FileInv /\ [FileNext]_fileVars => FileInv'
<1>. SUFFICES ASSUME FileInv, [FileNext]_fileVars PROVE FileInv'
  OBVIOUS
<1>1. ASSUME NEW c \in Creators, Call(c) \/ Kill(c) \/ CallAgain(c)
      PROVE  FileInv'
  BY <1>1, OpenTmpPreserves, WritePreserves, SyncPreserves, LinkPreserves, SyncDirPreserves,
     LeavePreserves DEF Call
<1>2. CASE PowerLoss
  BY SMT, SMTT(30), <1>2, PowerLossPreserves
<1>3. CASE UNCHANGED fileVars
  BY <1>3 DEF fileVars, FileInv, FileTypeOK, OwnInv, PathInv
<1>. QED
  BY <1>1, <1>2, <1>3 DEF FileNext

LEMMA FileInvariance == FileSpec => []FileInv
  BY InitFile, NextFile, PTL DEF FileSpec

\* A reader of the path never finds a partial file, whoever races, is killed, or
\* loses power.
THEOREM ReadersSeeWholeFiles == FileSpec => []NeverPartial
<1>1. FileInv => NeverPartial
  BY DEF FileInv, PathInv, NeverPartial
<1>. QED
  BY <1>1, FileInvariance, PTL

\* The file of a create_identity_file that returned stays at the path for good on
\* POSIX, and elsewhere until power is lost.
THEOREM ReturnedIsDurable == FileSpec => []SuccessIsDurable
<1>1. FileInv => SuccessIsDurable
  BY DEF FileInv, PathInv, SuccessIsDurable
<1>. QED
  BY <1>1, FileInvariance, PTL

\* Every variable of create_identity_file's model stays in its type.
THEOREM CreationTypes == FileSpec => []FileTypeOK
<1>1. FileInv => FileTypeOK
  BY DEF FileInv
<1>. QED
  BY <1>1, FileInvariance, PTL

\* No step replaces a file: a link needs a free path, and only a power loss can
\* take a file back, on POSIX one whose creation nobody was told of.
THEOREM FilesAreNotReplaced == FileSpec => NeverClobbers
<1>1. FileInv /\ [FileNext]_fileVars =>
        [path' # path =>
           path = 0 \/ (losses' # losses /\ (path \in winners => ~posix))]_fileVars
  <2>. SUFFICES ASSUME FileInv, FileNext, path' # path
                PROVE  path = 0 \/ (losses' # losses /\ (path \in winners => ~posix))
    BY ZenonT(40) DEF fileVars
  <2>1. ASSUME NEW c \in Creators, Call(c) \/ Kill(c) \/ CallAgain(c)
        PROVE  path = 0
    BY <2>1 DEF Call, OpenTmp, OpenFails, Write, WriteFails, Sync, Link, PathFree, LinkFails,
       Unlink, UnlinkFails, SyncDir, SyncDirFails, Kill, CallAgain
  <2>2. CASE PowerLoss
    <3>1. losses' # losses
      BY <2>2 DEF PowerLoss, FileInv, FileTypeOK
    <3>2. ~durable
      BY <2>2 DEF PowerLoss
    <3>. QED
      BY Zenon, <3>1, <3>2 DEF FileInv, PathInv
  <2>. QED
    BY <2>1, <2>2 DEF FileNext
<1>. QED
  BY <1>1, FileInvariance, PTL DEF FileSpec, NeverClobbers

-------------------------------------------------------------------------------
(* Temporary names. *)

\* A creator's inode is one that was opened, and none at all between calls; one
\* that has passed the finally block has no temp name any more.
TempInv ==
    /\ tmp \subseteq 1..opened
    /\ \A c \in Creators : file[c] # 0 => file[c] \in 1..opened
    /\ \A c \in Creators : pc[c] = "idle" => file[c] = 0
    /\ losses = 0 => \A c \in Creators :
          pc[c] \in {"syncDir", "returned", "raised"} => file[c] \notin tmp

LEMMA InitTemp == FileInit => TempInv
BY DEF FileInit, TempInv

LEMMA CallTemp ==
    ASSUME FileInv, TempInv, NEW c \in Creators, Call(c) \/ Kill(c) \/ CallAgain(c)
    PROVE  TempInv'
<1>. USE DEF TempInv, FileInv, FileTypeOK, GoTo
<1>1. CASE OpenTmp(c)
  <2>1. opened' = opened + 1 /\ opened \in Nat /\ losses' = losses
    BY SMT, SMTT(30), <1>1 DEF OpenTmp
  <2>2. /\ file'[c] = opened + 1 /\ pc'[c] = "write"
        /\ \A d \in Creators : d # c => file'[d] = file[d] /\ pc'[d] = pc[d]
        /\ tmp' = tmp \cup {opened + 1}
    BY <1>1 DEF OpenTmp
  <2>. QED
    BY SMT, SMTT(30), <2>1, <2>2
<1>2. CASE OpenFails(c) \/ WriteFails(c) \/ LinkFails(c) \/ UnlinkFails(c) \/ SyncDirFails(c)
  <2>1. UNCHANGED <<file, opened, tmp, losses>>
    BY <1>2 DEF OpenFails, WriteFails, LinkFails, UnlinkFails, SyncDirFails
  <2>2. /\ \A d \in Creators : d # c => pc'[d] = pc[d]
        /\ pc'[c] \in {"raised", "unlinkFailed", "leaked"}
        /\ pc'[c] = "raised" => pc[c] \in {"idle", "syncDir"}
    BY <1>2 DEF OpenFails, WriteFails, LinkFails, UnlinkFails, SyncDirFails
  <2>3. pc[c] = "idle" => file[c] \notin tmp
    BY SMT, SMTT(30)
  <2>. QED
    BY Zenon, <2>1, <2>2, <2>3
<1>3. CASE Write(c) \/ Sync(c) \/ Link(c) \/ SyncDir(c)
  <2>1. UNCHANGED <<file, opened, tmp, losses>>
    BY Zenon, <1>3 DEF Write, Sync, Link, SyncDir
  <2>2. /\ \A d \in Creators : d # c => pc'[d] = pc[d]
        /\ pc'[c] \in {"write", "sync", "link", "unlinkPublished", "returned"}
        /\ pc'[c] = "returned" => pc[c] = "syncDir"
    BY <1>3 DEF Write, Sync, Link, SyncDir
  <2>. QED
    BY Zenon, <2>1, <2>2
<1>4. CASE Unlink(c)
  BY Zenon, <1>4 DEF Unlink
<1>5. CASE Kill(c) \/ CallAgain(c)
  BY ZenonT(40), <1>5 DEF Kill, CallAgain, Ended
<1>. QED
  BY ZenonT(40), <1>1, <1>2, <1>3, <1>4, <1>5 DEF Call

LEMMA NextTemp == FileInv /\ TempInv /\ [FileNext]_fileVars => TempInv'
<1>. SUFFICES ASSUME FileInv, TempInv, [FileNext]_fileVars PROVE TempInv'
  OBVIOUS
<1>1. CASE PowerLoss
  BY <1>1 DEF PowerLoss, TempInv, FileInv, FileTypeOK, Ended
<1>2. CASE UNCHANGED fileVars
  BY Zenon, <1>2 DEF fileVars, TempInv
<1>. QED
  BY <1>1, <1>2, CallTemp DEF FileNext

\* Short of a failing unlink, a kill or a power loss, no call leaves its temporary
\* file with the seed in it behind, whichever step failed.
THEOREM TempNamesAreRemoved == FileSpec => []NoTempLeft
<1>1. TempInv => NoTempLeft
  BY DEF TempInv, NoTempLeft
<1>. QED
  BY <1>1, InitTemp, NextTemp, FileInvariance, PTL DEF FileSpec
=============================================================================
