# A TLA+ development of seam-sdk

seam-sdk is the client side of the Seam runtime: SDKs in Python, TypeScript, Go, Java and
Kotlin, an offline verifier in Rust, and the scripts that keep their contract with the
runtime. This directory models the Python SDK, the TypeScript client's ticket lifecycle and
the verifier's chain walk, checks them with TLC on small instances, and proves most
of the safety properties with TLAPS for every size. `PROJECT.json` maps each definition to the
lines it translates.

## The system and its parts

| part | source | here |
|---|---|---|
| Synchronous Python client: admission tickets, refresh, signed calls | `python/seam_sdk/client.py`, `_authorize.py` | `TicketLifecycle`, `CallContract` |
| asyncio Python client | `python/seam_sdk/aio.py` | `AioTicketLifecycle` |
| TypeScript client | `ts/src/client.ts` | `TsTicketLifecycle` |
| Ticket cache (80% rule, clocks) | `_authorize.py` | `TicketCache` |
| Session retry helper | `retry.py`, `ts/src/retry.ts` | `SessionRetry` |
| Identity file | `identity.py` | `IdentityFile` (creation), `LocalChecks` (loading) |
| Error mapping | `errors.py` | `StatusDetails` |
| Signed and hashed byte strings | `crypto.py` | `Framing` |
| Canonical JSON | `crypto.py` | `Jcs` |
| Verdicts on records, attestations, decisions, answers; authorize requests | `crypto.py`, `client.py`, `admin.py`, `_authorize.py`, `_collective.py`, `_seal.py`, `_policy.py` | `Verdicts` |
| Enrolment proof of possession | `crypto.py`, `admin.py` | `Enrolment` |
| Identifiers, outcome fields, tenant header | `ids.py`, `_outcome.py`, `tenant.py` | `LocalChecks` |
| Management authentication (DPoP) | `dpop.py`, `admin.py` | `MgmtAuth` |
| Management client | `admin.py` | `ManagementPlane` |
| Event stream | `admin.py` | `EventStream` |
| Offline verifier: chain walk, truncation | `verify/src/verify.rs` | `ChainWalk` |
| The rest | | see Not modelled |

How they interact. An application calls a data-plane client, possibly inside
`with_session_retry`. The client obtains an admission ticket for the agent that signs
(challenge, then `Admit`), keeps it in a per-identity `TicketCache`, signs each request
under it and sends it. A rejected ticket is refreshed once and the call resent once. A
write that the runtime guards against replay burns its signature, so when such a write is
refused for a session or tenant that is unavailable the ticket is dropped. The agent's
key comes from an identity file. An operator uses the management client, whose interceptor
signs a proof for every call, and a relay reads the runtime's events through it. What was
signed is checked later, by the SDK and by the offline verifier. The runtime is outside the
repository; it is modelled from what the client's code assumes of it, and marked external.

## The modules

**`TicketLifecycle`**: several threads share one `SeamClient`. State: per identity the
cached ticket (`cache`), whether it is past its refresh point (`stale`) and the lock;
per thread the control point, the local `ticket`, whether it has resent, the error or
outcome, and the attempt counter of `with_session_retry`; of the runtime, the tickets
minted with their owners, and the tickets under which it has burned this operation's
bytes. One action per critical section or RPC:

| action | code |
|---|---|
| `AdmitCall`, `Authorize`, `RunDecision`, `OpenSession`, `Submit`, `CloseSession`, `Read` | the public methods, up to their first critical section or RPC |
| `Retry`, `Finish` | `with_session_retry`; the application takes the outcome |
| `Present`, `PresentRefused` | `_presentation` of `run_decision` and `open_session` |
| `TakeCached`, `BeginAdmit` | `_ticket_for`, `admit` |
| `AdoptRefreshed`, `BeginReadmit` | `_refresh_ticket` |
| `Admit`, `AdmitLost`, `AdmitRefused`, `Store` | `_admit_locked` |
| `Send` | the RPC of `authorize`, `_credentialed_call`, `_signed_once`, and what their handlers do next (`AfterAnswer`) |
| `Forget` | `_forget_burned_ticket`, `_invalidate_ticket` |
| `Age` | the clock passing `_refresh_at_ms` |

Calls are grouped by the path they take: `admit`, `authorize`, `run`, `read`, `submit`,
`open`, `close`. Answers are grouped by what the control tells apart: ok,
UNAUTHENTICATED, unavailable (SESSION_UNAVAILABLE and TENANT_MOVING), other. "Other"
includes an answer lost after the runtime carried the request out.

A critical section without an RPC inside it is one action: nobody else can see its
middle. The handshake is the section with RPCs in it, so it is split, and the lock is a
variable. The two RPCs of the handshake are one action since the first changes nothing
the model has. Variables named history record what happened, for the properties;
no guard reads them.

**`CallContract`** is the abstract specification: what a caller is promised of one
operation, over all its attempts. The runtime carries it out at most once; it has done so
when the call returns; it has not when the call raises UNAUTHENTICATED or a retryable
refusal. The three clients are shown to implement it (`CallContractHolds`, checked and proved).

**`AioTicketLifecycle`** adds `Cancel`: a task is cancelled at the await it is suspended
on. The steps are the same as the synchronous client's, method for method.

**`TsTicketLifecycle`** replaces the lock by the `admitting` map: a caller leads a
handshake or joins the one in flight, and the outcome, failure included, goes to all of
them at once.

**`TicketCache`** has the arithmetic that `stale` abstracts: `expires_at_ms` is an instant
on the runtime's clock, the refresh point is computed on the client's, which lags, leads
and is stepped.

**`SessionRetry`** is the loop with its numbers; `TicketLifecycle` has the same loop
reduced to its attempt counter. A hint is any integer, since `errors.py` decodes a negative
RetryInfo as it is. `blocking` tells `with_session_retry`, whose `time.sleep` raises on a
negative delay (`SleepRaises`), from the asyncio and TypeScript helpers, whose sleep returns at
once; `asleep` and `below` record what was slept and what negative hints took off.

**`IdentityFile`** takes `create_identity_file` one system call at a time: any may fail,
a creator may be killed anywhere, and a power loss truncates what was not fsynced and
may undo directory entries. Off POSIX (`posix`) `_fsync_dir` returns without a sync.

**`EventStream`** has two threads on one handle. `__next__` is split where the other thread
can run: after the test of `_call` (`NextTestCall`), after the test of `_cancelled`
(`NextTestCancelled`), at the start of the call (`NextStart`) and while it blocks
(`NextYield`, `NextOver`); `cancel` is `CancelFlag` and `CancelCall`. It is composed with
the runtime's outbox (`AppendEvent`, pruning by `ReportEventsConsumed`, `Redrive`) and with a
relay that delivers a row, saves its cursor, may crash between the two and reopens at
last seq + 1, as the docstrings tell it to.

**`ManagementPlane`**: operator threads share one connected client. Each method is one
action (the plain ones share `Govern`, since nothing tells their effects apart); a call
passes the interceptor (`Request`, `WithProof`), is answered (`Answered`), passes its deadline
(`Deadline`), or, after a preview, is followed by the erasure (`Confirm`). A request given up
by its caller stays on the way and may still be carried out. `MgmtAuth` has what `connect`
accepts and what the runtime refuses.

**The pure components.** `Framing`, `StatusDetails`, `Jcs`, `Verdicts`, `Enrolment`,
`LocalChecks`, `MgmtAuth` and `ChainWalk` are operators named after the functions they
translate, each with the code's order of checks (`Values` has the ordered list of refusals).
They have no state, so a run makes an input the way its producer makes it, lets it suffer
up to `MaxDamage` changes where it travels, and holds what the SDK says of it against what
was sent: `Probes` is the variable for that, `EncodingChecks`, `VerdictChecks`, `InputChecks`
and `StreamChecks` have the inputs, the damage and the properties, and `Codecs` composes
them. The models work at these levels:

- bytes are small numbers, and `Framing` keeps every length prefix and presence byte, and how
  each kind frames its tag (`Opening`);
  a digest is an atom, so SHA-256 has no collisions, and a signature names its key and payload;
- `StatusDetails` reads varints and length-delimited fields byte by byte, with the code's
  bounds checks;
- `Jcs` has a floating-point format of `Precision` bits in place of 53, with the shortest
  digits that read back and the ECMAScript layout computed, not assumed, for integral doubles;
- in `LocalChecks` a UUID is one digit, a dash and its version digit;
- a policy statement on the wire is a record with the presence of the field and of its id, an
  absent one holding the defaults, as protobuf has it;
- in `ChainWalk` a head is the sequence of digests linked so far; the audit entry that is a
  chain anchor is an event off the chain.

Definitions marked "Faulty variant" or named `Mutant...` are not used by any specification.
Each is a bug the code could plausibly have had; substituted for the definition below it, it
makes TLC report the property it is aimed at.

## The runs

| run | checks | instance |
|---|---|---|
| `all_calls` | `NoGoodTicketDiscarded`, `TicketBelongsToSigner`, `WireBound`, `CancelLeavesCacheEmpty` | 2 tasks cancelled at every await, 2 identities, every kind of call, 2 tickets |
| `every_call_returns` | `NoReplayedBytes`, `CallContractHolds`, `EveryCallReturns`, `EveryTaskReturns` | 2 tasks, 2 attempts, under fairness |
| `other_writes` | `OtherWritesRaiseOnFirst`, violated | see Findings |
| `ts_lifecycle` | `NoGoodTicketDiscarded`, `NoReplayedBytes`, `CallContractHolds`, `EveryPromiseSettles` | 2 callers, 2 tickets, 2 attempts, under fairness |
| `ticket_cache` | `NeverServedExpired`, `SkewTolerated` | TTLs 0 to 10, lags -3 to 3 |
| `session_retry` | `LoopIsBounded`, `LeaseWaitedOut`, `LoopEnds` | the default budget, cap and lease TTL, every lease up to it, hints from -30 to 45 seconds |
| `retry_documented_delay` | `DocumentedDelay`, violated | see Findings |
| `identity_file` | `NeverPartial`, `SuccessIsDurable`, `NoTempLeft` | 2 creators, 3 files, 1 power loss, POSIX or not |
| `event_stream` | `RelayInOrder`, `PrunedWereDelivered`, `CleanEndIsEarned`, `ReachedCancelEnds` | 3 rows, 2 streams, crashes, redrives, broken calls, under fairness |
| `stream_cancel` | `CancelEndsIteration`, violated | see Findings |
| `management` | `PairingHonoured`, `ErasedAsShown`, `AtMostOnce`, `EveryMethodReturns` | 2 threads, 2 methods, 2 decisions, a skewed clock |
| `codecs` | `PayloadsTellApart`, `TypedAsSent`, `CanonicalBytes`, `StreamedVerdict`, `HeadVerdict`, `DecisionVerdict`, `AnswersFailClosed`, `RequestsVerify`, `InputsKeepTheirMeaning`, `CredentialsWork`, `WalkIsExact`, `AttestedPrefixHeld` | all small inputs, up to 2 damage steps |

The synchronous client's behaviours are those of the asyncio client in which nothing is
cancelled (`SyncIsUncancelledAio`), so the two `aio` runs cover both.

The type invariants, `LockDiscipline`, `RefusedTicketDropped`, `NeverClobbers` and
`CancelFirstSendsNothing` are in no run: they are proved, for every instance.

What they show, in short.

- Tickets: concurrent rejections of one ticket cost one re-admission. A write is never
  resent with bytes the runtime has burned. No call waits for a lock for ever, though
  others are cancelled while they hold it. A call makes at most six RPCs. An operation is carried out at most
  once however often the retry helper re-invokes it. A cached ticket survives a clock that
  lags by up to a quarter of the life it had left when it was stored.
- Retry and files: a lapsed lease is waited out within the default budget. The loop sleeps no
  longer than its budget and what negative hints gave back to it. A reader of the
  identity path never sees part of a file, on POSIX a file that was reported is there for
  good, and the two loaders refuse the same files.
- Management: what `connect` accepts is not refused for its scheme, key or a reused proof. A
  confirmed erasure shreds as many decisions as its preview showed or is refused, and is
  refused only if the preview no longer holds. A call is carried out at most once, perhaps
  after its deadline, and every method ends in time.
- Events: a relay that follows the docstrings loses and repeats nothing downstream.
- Encodings: different inputs of a framed payload never sign the same bytes, nor do different
  presentations to receivers without a NUL in their aid, or with nonces of one length; the
  same JSON value always gives the same bytes. A status detail that was cut is read as it was
  sent or not at all, and a foreign one is passed over.
- Verdicts: only what was sealed verifies, against the pinned issuer only; a type error is
  never answered as a failed verification; an unknown value is never read as a known one. An
  authorize request is refused exactly when its input is ambiguous or cannot be canonicalized.
- Chain walk: every honest window is accepted, and an accepted one is an unbroken piece of
  the chain that was sealed, reaching what an independent attestation says.

### Bounds

- Threads, tasks, callers: two. The protocol only ever compares a caller's ticket with the
  cached one, so two callers already give every order of rejection, refresh and forgetting;
  the theorems cover any number.
- `MaxTickets`: two, one rejected ticket and its replacement. When they are spent the
  runtime can only refuse or lose the request, which is a behaviour of the real one.
- `MaxTries`: two where retries matter (the bytes of a first attempt meet a second), one in
  `all_calls`, which has every kind of call and both identities instead.
- `retry=False` of `_credentialed_call` (`SubmitRetry = FALSE`) is a path no call site takes
  today; only the proofs cover it.
- `SessionRetry` times are in seconds: the default budget of 40, cap of 8 and a lease of 30, with
  a base of 1 in place of 0.25 and 7 attempts in place of 10, so that the jitter reaches its
  cap at the fourth attempt instead of the sixth and three more follow; `RngSteps` is 4. The
  hints are 0, 1, 5, one beyond the budget (45) and a negative one (-30).
  `RetryDocumentedDelay.cfg` takes sixteenths and the defaults, so that the first jitter is
  not rounded away. The proofs cover every value.
- `TicketCache`: TTLs that are and are not multiples of five, so that the integer
  division rounds; lags beyond a whole TTL. The proofs cover every value.
- `IdentityFile`: bodies of two writes (one partial state), three files for two creators,
  so that one of them calls again; one power loss.
- `EventStream`: three rows (one delivered, one in hand, one to come) and two streams, so
  that one is resumed after a crash. The proofs cover every number of both.
- `ManagementPlane`: two methods in two threads give a preview and its erasure with a hold, a
  retention pass, a seal or another erasure anywhere in between; a timeout of one unit and
  a window of two with a clock one off, so that a request on the way can go stale; four
  pairings: a bound token with its key, for the right and for another audience, and without
  it, and an unbound one for another audience. The proofs cover every number of all of these.
- `Codecs`: fields of at most two bytes, lists of at most two items, integers past four
  binades beyond the exact range, windows of at most `MaxEvents` = 4 events of two tenants,
  and `MaxDamage` = 2 (a field removed and another changed, an event moved and another
  dropped). `IntBits` = 14 stands for the width of an integer slot, `MaxMillis` = 9 for the
  largest u64, below the instants that are tried. `WireInts` has the values of the wire enums
  on both sides of every bound and one that none of them knows. Presentations have receivers
  and nonces that hold what stands next to them on the wire, so that two of them do collide
  outside the two cases of the property. The proofs of the verdicts and of the walk cover any
  damage, those of the walk any window, those of the answers any `WireInts`.

Symmetry under permutations of threads, identities and creators is used in runs that
check only safety.

### Fairness

- Threads: weak fairness of each thread's steps. The operating system schedules them and
  every RPC has a deadline (`timeout=`), so each is answered or fails. `threading.Lock`
  promises no order among waiters, so a thread could starve while others keep calling:
  `EveryCallReturns` speaks of the time after the application stops making new calls.
- asyncio: `asyncio.Lock` wakes its waiters in FIFO order, so taking the lock is strongly
  fair (`LockIsFifo`). It is a premise of `EveryTaskReturns`, which therefore holds with calls
  arriving for ever; `EveryCallReturns` is checked in the same run without it.
- TypeScript: weak fairness alone; nobody queues for anything.
- An application takes the outcome of a call, or retries it (weak fairness).
- `EventStream`: the iterating thread keeps asking, the relay deals with each row, and a
  `cancel` that has begun runs to its end. Nothing is assumed of the server, the network or
  whoever calls `cancel`.
- `ManagementPlane`: time passes and a deadline that is due fires, which gRPC does locally.
  The runtime owes no answer.

`SessionRetry`, `IdentityFile`, `EventStream` and `Codecs` run with `CHECK_DEADLOCK FALSE`: the
loop is meant to end, creators stop when all have returned (off POSIX, a power loss may let
each of them succeed), a drained relay may stop, and a pure check ends when its input is
judged. The other runs check for deadlock.

## The proofs

The theorems hold for any finite or infinite sets of threads, tasks, identities, operators
and tenants, and any values of the bounds. They rest on named assumptions about the
constants, which TLC evaluates in the runs:

| assumption | module | says |
|---|---|---|
| `ConstantsAssumption`, `ClockAssumption`, `ParametersAssumption`, `SizesAssumption`, `PlaneAssumption` | `TicketLifecycle`, `TicketCache`, `SessionRetry`, `IdentityFile`, `ManagementPlane` | bounds and durations are natural numbers, clocks and retry hints integers; nothing is named like the absent value |
| `StreamAssumption` | `EventStream` | the same, and "no call" is not a call |
| `FramingAssumption` | `Framing` | integer encodings are one to one and of fixed width, and no tag is shared |
| `OpeningAssumption` | `Framing` | the first byte differs between a tag framed in little endian, one framed in big endian and the one not framed: the length of a tag (18 to 36), 0 and the letter "a" |
| `NoneAssumption`, `PairingsAssumption` | `ManagementPlane` | Python's `None` is no method, scheme or refusal; a token is text that can stand in a header, and claims that were read are not an exception |
| `VerdictAssumption`, `InputsAssumption` | `VerdictChecks` | `None` and a value of a foreign type are neither texts, numbers nor the records the verifiers build; wire enums hold integers |
| `WindowAssumption` | `StreamChecks` | an absent field is neither a number nor a head |

A proof about a run's property is about the same definition, under the same specification
or, for the pure components, under the part of it that makes the input (`VerdictSpec`,
`WindowSpec`): the other probes of `Codecs` leave the property without a subject.

**The ticket lifecycle** is proved for the asyncio client, whose behaviours include the
synchronous client's (`SyncIsUncancelledAio`). The invariant and type correctness are in
`TicketLifecycleTypes`, the first half of the preservation lemmas in
`TicketLifecycleCalls`, the rest and the theorems in `TicketLifecycleProofs`. None of
the properties is inductive. The invariant `IndInv` adds to them:

- `ControlInv`: what each control point implies for the thread's other variables (who
  waits for a lock has a signer; an idle thread has no ticket and nothing burned; only
  guarded writes have burned bytes);
- `TicketInv`: tickets in hand, in a cache or burned are minted, and for the right identity;
- `FreshInv`: a ticket between `Admit` and `Store` is in nobody else's hands, in no cache,
  and not burned;
- `GiveUpInv`: a handshake of a lazy admit or a refresh starts from no usable ticket and the
  lock keeps it so; the ticket of a caller at `lockRefresh` or `lockForget`, and a stale
  one, was given up for a reason. This carries `NoGoodTicketDiscarded` and
  `CancelLeavesCacheEmpty`;
- `BurnedInv`: a ticket burned for an operation under way is not the usable cached one,
  unless the caller is about to drop it or will not send these bytes again. This carries
  `NoReplayedBytes` over a retry.

`AioInvariance` proves it with one step per action and one per conjunct. From it:
`TypeCorrect`, `LocksAreExclusive`, `RefreshesAreCoalesced`, `WritesAreNotReplayed`,
`TicketsStayWithTheirSigner`, `CancellationIsClean`, `CallsStayInBudget`,
`GivenUpTicketsStayOut` and, for the synchronous client, `SyncClientCorrect`.

**The call contract**, in the second half of `TicketLifecycleProofs`: `AioKeepsContract`,
`SyncKeepsContract` and `TsKeepsContract` show that the three clients implement `CallContract`.
The refinement mapping reads a call's control point, answer and effect; every step maps to a
step of the contract or to none. `CallInv` says where a call stands with the runtime: only
an explicit `admit` is carried out before its last step, and an operation that was carried
out ends with success or with an answer that does not claim the contrary.

**`HelperProofs`** has three small components.

- Ticket cache: `ExpiredIsNotServed` and `SkewIsTolerated`, by `CacheInv`, which ties the
  refresh point to the stored TTL and lag (10 times the refresh interval is at most 8
  times the TTL: the division rounds down).
- Retry: `RetryIsBounded` and `RetryTypes`, for any integer hints, by `SleepInv` (a sleep is
  entered only with room in the budget and an attempt left, and what was slept exceeds
  `waited` by no more than the negative hints; not at all when the helper blocks), and `LeaseIsWaitedOut`, by `LeaseInv` (the first refusal
  sleeps at least the lease), from `LeaseFits`: the budget covers the lease and the first
  jitter, and a second call may be made. The defaults satisfy it.
- Identity file: `ReadersSeeWholeFiles`, `ReturnedIsDurable`, `FilesAreNotReplaced`,
  `TempNamesAreRemoved`, `CreationTypes`. `OwnInv` says that no two creators share an inode and
  that past the fsync a file is whole and synced; `PathInv` that what is at the path was
  synced and that a reported entry stays, on POSIX or while power lasts; `TempInv`
  who still owes an unlink.

**`WireProofs`** has the event stream and the framing.

- Events: `DeliveredInOrder`, `PruningLosesNothing`, `EarlyCancelSendsNothing`,
  `CleanEndsAreEarned`, `StreamTypes`. That the sink is a prefix of the outbox is not
  inductive: `OutboxInv` adds that no event id is carried twice; `DeliveryInv` that the sink is the outbox
  up to the cursor or one row past it, the window in which a crash makes the relay see a row
  twice; `PositionInv` that a call of the relay never stands past the row it needs next;
  `HandleInv` what each control point of the two threads implies for the handle.
- Framing: each signed payload determines its fields (`CallSigInjective`,
  `RequestSigInjective`, `EnrolmentInjective`, `CommitmentInjective`, `RecordInjective`,
  `ChainHeadInjective`), for fields of any length below the width of a prefix. It rests on
  one lemma about a framed field followed by anything. Every payload starts with the
  `Opening` of its kind, and `KindsApart` says that two kinds have no bytes in common: within a
  framing the tag is read back, across framings the first byte differs.

**`ManagementPlaneProofs`**: `AcceptedPairingsWork`, `ErasuresMatchPreviews`,
`CallsAreNotRepeated` and `MethodsEndInTime`, the safety half of `EveryMethodReturns`. `PlaneInv`
says what `connect` accepted (`Paired`), what a request on the wire carries (`Carries`: the
scheme of its token, a proof over its own bytes that is not burned, the count its preview
showed), that no two requests share an invocation, a proof or a waiting thread (`Apart`),
and how much time a method has left (`InTime`).

**`VerdictProofs`**: `StreamedRecordsAreJudged`, `HeadsAreJudged`, `DecisionsAreJudged`,
`AnswersAreReadClosed`, `RequestsCanBeVerified`. Each verifier is shown by itself first: what it
answers for any original its producer can have made and anything that may have become of it.
The refusals of a verifier are an ordered list, so this is an argument about the least index
of a check that fails. `VerdictInv` then says that the input in hand is a damaged form of such
an original, whatever was done to it, so the theorems hold for any `MaxDamage`. The originals are
those the `Pick...` actions of `VerdictChecks` make; the lemmas are about any of that shape. The
enums of an answer are any integers of `WireInts`, a constant.

**`WalkProofs`**: `WalkExact` and `AttestationHolds`, for any tenants, any number of sealed
events, any window of them and any damage. The walk is a loop over the events (`WalkRuns`).
Whatever they are, an accepted chain grows by one digest at a time to the checksum of one
of the tenant's links (`WalkGrows`). Over a window as sealed the loop is never refused and
stands, after every event, at the head sealed there (`HonestWalk`). `WindowInv` says of every
link in the damaged window where it was rooted when it was sealed, as far as the damage
leaves it there; the two together place every accepted chain in a sealed one. The inductions
over the events are made as least counterexamples, from `WFMin`.

Some leaves name the prover that finds them, or a second attempt with a longer limit
(`SMT, SMTT(30)`), so that they do not depend on the speed of the machine.

### Only model-checked

- Liveness and anything with ENABLED, which this prover does not handle: `EveryCallReturns`,
  `EveryTaskReturns`, `EveryPromiseSettles`, `LoopEnds`, `ReachedCancelEnds`, and the first half of
  `EveryMethodReturns`.
- `NoGoodTicketDiscarded` and `NoReplayedBytes` for the TypeScript client, whose handshakes are
  shared: the invariant of the Python clients rests on the lock. Its contract is proved.
- `TypedAsSent` and `CanonicalBytes`: `StatusDetails` and `Jcs` use RECURSIVE operators, which
  no module with a theorem may reach. `PayloadsTellApart` as a whole: its payloads with lists
  are folds over data, and `EncodingChecks` extends those two modules. What it says of the
  other payloads is proved in `WireProofs`.
- `InputsKeepTheirMeaning` and `CredentialsWork`: they compare parsers with what was written, over
  enumerated inputs; a proof would repeat the enumeration.

## Findings

All three are disagreements between a docstring and the code; the code is what is modelled.

- `errors.py:489` says that credentialed writes other than `report_outcome` raise
  UNAUTHENTICATED on the first rejection. The `submit_*` steps and `register_context` go
  through `_credentialed_call` with `retry=True` and resend once (`other_writes`).
- The docstring of `retry.py` gives `2**n` for the jitter before attempt `n+1`; the code
  uses `2 ** (attempt - 1)`, half of it, as `ts/src/retry.ts` documents
  (`retry_documented_delay`).
- `admin.py:377` says that after `cancel()` the iteration ends. A `cancel()` from another thread
  between the test of `_cancelled` and the start of the call finds no call, returns `True`,
  and the tail runs on (`stream_cancel`). A cancel that reached the call does end it
  (`ReachedCancelEnds`).

Smaller things met on the way, stated in the properties as the code has them:

- `verify_chain_head_attestation` raises `UnicodeEncodeError` for a tenant that is a lone
  surrogate, and `verify_decision` decodes `signed_artifact` outside its `try`.
- A negative RetryInfo is added to the jitter as it is. `retry.py:32` says that the budget is
  the total time a loop may wait: the blocking helper keeps to it, but raises `ValueError` from
  `time.sleep` when the delay is negative; the asyncio and TypeScript helpers go on at once with
  `waited` lowered, and may then sleep beyond the budget by as much (`LoopIsBounded`).
- A presentation separates its texts by NULs and signs the challenge's `receiver_aid` as it
  came (`client.py:374`, `aio.py:192`). With a NUL in it, and nonces of different lengths, two
  presentations can have the same bytes; `PayloadsTellApart` says where they cannot.
- Off POSIX nothing makes the name of an identity file durable (`identity.py:296`).
- A token with `cnf: null` is refused with a key and without one. A token whose text cannot
  stand in a header is taken for an opaque Bearer token.
- A preview's count may match while the set behind it has changed; the count is all that
  `erase_subject` sends.
- The chain walk alone does not notice a whole chain moved to another tenant's name;
  attestations, which bind the tenant, do.

## Limits of the model

- The bytes of two operations are never compared: an application that re-issues a
  signed-once write by hand after a lost answer is outside the model.
- `stale` in `TicketLifecycle` does not go back; a clock stepped backwards is in
  `TicketCache` only.
- The per-identity dictionaries of the clients are fixed; their growth is not modelled.
- `SessionRetry` discretises the jitter. `Jcs` scales the floating-point format down and writes
  integral doubles only; `CanonicalBytes` says that the order of keys does not depend on how a
  dict was filled, not that it is the peer's order.
- The sort by `seq` that the verifier's callers make before the walk (`main.rs:272`,
  `bundle.rs:471`) is left out: the walk is checked on windows in any order.
- In `DecisionVerdict` any change to a token breaks its signature first, so the tests of its
  header and claims are modelled but never decide.
- The ticket lifecycle does not carry the payloads: that a call signs what `Framing` says is
  read off the code, not composed.

## Not modelled

- The rest of the offline verifier: `verify_authenticity_*` with its coverage accounting,
  erasure certificates, bundles, entries, wire decoding and the command line. They are one
  sequential pass of decoding and recomputing digests whose byte layouts are in `Framing`.
- `mgmt_dpop_http_headers`, the size limits of a proof, and pickling of errors.
- The TypeScript management, verification and encoding code and the Go, Java and Kotlin
  shims: ports held to the Python code by shared conformance vectors, with no concurrency of
  their own except the TypeScript ticket lifecycle, which is modelled.
- Generated protobuf code, and the scripts: build-time passes over files.
