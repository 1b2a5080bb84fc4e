------------------------- MODULE AioTicketLifecycle -------------------------
(***************************************************************************)
(* The same lifecycle in the asyncio client (python/seam_sdk/aio.py).  The *)
(* coroutines take the steps of TicketLifecycle, one atomic step between   *)
(* two awaits; "threads" are tasks.  What is new is cancellation: a task   *)
(* can be cancelled at any await (asyncio.wait_for around a call, as the   *)
(* adapters' Gate does), which raises CancelledError there.  The locks are *)
(* asyncio.Lock, which wakes its waiters in FIFO order.                    *)
(***************************************************************************)
EXTENDS TicketLifecycle

\* Faulty variant: the lock is acquired and released without `async with`, so
\* CancelledError skips the release.
CancelKeepsLock(p) == UNCHANGED lock

\* `async with lock` releases the lock when CancelledError leaves its block.
CancelUnlocks(p) == IF pc[p] \in Holding THEN Release(p) ELSE UNCHANGED lock

\* A task is cancelled at the await it is suspended on.  It holds only locals: no
\* cache is written, an Admit answer that has arrived but is not yet stored is
\* dropped, a ticket it was about to forget stays cached.  The caller does not
\* learn the outcome.
Cancel(p) ==
    /\ pc[p] \notin {"idle", "returned"}
    /\ CancelUnlocks(p)
    /\ Return(p, "other")
    /\ retired' = IF pc[p] = "store" THEN retired \cup {ticket[p]} ELSE retired
    /\ UNCHANGED <<cache, stale, kind, signer, ticket, resent, tries, serverVars,
                   applied, wire>>

(***************************************************************************)
(* The coroutines, each with the steps of its synchronous twin.            *)
(***************************************************************************)
AioAuthorize(p) == Authorize(p)
AioRunDecision(p) == RunDecision(p)
AioOpenSession(p) == OpenSession(p)
AioSubmit(p) == Submit(p)
AioCloseSession(p) == CloseSession(p)
AioRead(p) == Read(p)

\* _presentation: the challenge and the signed presentation.
AioPresentation(p) == Present(p) \/ PresentRefused(p)

\* admit and _admit_locked, under the lock of _cache_and_lock.
AioAdmit(p) ==
    \/ AdmitCall(p)
    \/ BeginAdmit(p) \/ Admit(p) \/ AdmitLost(p) \/ AdmitRefused(p) \/ Store(p)

\* _ticket_for: the cached ticket, if it is fresh.
AioTicketFor(p) == TakeCached(p)

\* _refresh_ticket: adopt what another task fetched, or admit again.
AioRefreshTicket(p) == AdoptRefreshed(p) \/ BeginReadmit(p)

\* The RPC with the credential of _signed_once or _credentialed_call.
AioSend(p) == Send(p)

\* _forget_burned_ticket and _invalidate_ticket.
AioForget(p) == Forget(p)

\* with_session_retry_async.
AioRetry(p) == Retry(p) \/ Finish(p)

AioNext ==
    \/ \E p \in Procs :
         \/ AioAuthorize(p) \/ AioRunDecision(p) \/ AioOpenSession(p) \/ AioSubmit(p)
         \/ AioCloseSession(p) \/ AioRead(p) \/ AioPresentation(p) \/ AioAdmit(p)
         \/ AioTicketFor(p) \/ AioRefreshTicket(p) \/ AioSend(p) \/ AioForget(p)
         \/ AioRetry(p) \/ Cancel(p)
    \/ \E a \in Aids : Age(a)

AioSpec == Init /\ [][AioNext]_vars

(***************************************************************************)
(* Only what holds of threads too: every ready task or thread runs, and    *)
(* RPCs carry deadlines.  The synchronous client's behaviours under its    *)
(* Fairness are behaviours of AioFairSpec without a cancellation.          *)
(***************************************************************************)
AioFairSpec == AioSpec /\ Fairness

\* asyncio.Lock wakes its waiters in FIFO order, so an acquisition that is possible
\* again and again happens; threading.Lock promises no such thing.
LockIsFifo ==
    \A p \in Procs :
        SF_vars(AioTicketFor(p) \/ BeginAdmit(p) \/ AioRefreshTicket(p) \/ AioForget(p))

\* A task cancelled inside the handshake of a refresh or of a lazy admit leaves
\* no usable ticket in the cache: never the rejected one, never a half-written
\* one.  The next call admits afresh (the docstring of _credentialed_call).
CancelLeavesCacheEmpty ==
    [][\A p \in Procs :
          pc[p] \in Holding /\ kind[p] # "admit" /\ Cancel(p) => Get(signer[p])' = NoTicket]_vars

\* Every asyncio call returns, although other tasks keep making calls and are
\* cancelled at any point: FIFO locks let no waiter starve, cancellation leaks none.
EveryTaskReturns == LockIsFifo => \A p \in Procs : pc[p] # "idle" ~> pc[p] = "idle"
=============================================================================
