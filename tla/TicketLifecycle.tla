--------------------------- MODULE TicketLifecycle ---------------------------
(***************************************************************************)
(* The admission-ticket lifecycle of the Python SDK's synchronous client   *)
(* (python/seam_sdk/client.py), driven by several threads that share one   *)
(* SeamClient, against the runtime it calls.                               *)
(*                                                                         *)
(* Every credentialed call needs an admission ticket.  The client keeps    *)
(* one cached ticket per agent identity (AID), guarded by one lock per     *)
(* AID that is held across the whole challenge -> Admit handshake.  A call *)
(* takes the cached ticket, signs and sends, and on UNAUTHENTICATED may    *)
(* refresh the ticket once and resend once.  A write the runtime guards    *)
(* against replay has its signature burned even when the write is refused  *)
(* SESSION_UNAVAILABLE or TENANT_MOVING, so the client then forgets the    *)
(* ticket.  Around a call the application may run with_session_retry.      *)
(*                                                                         *)
(* Time is abstracted to the one thing the control looks at: whether the   *)
(* cached ticket is past 80% of its TTL ("stale"; module TicketCache has   *)
(* the arithmetic).                                                        *)
(*                                                                         *)
(* The runtime is external: it is modelled from what the client's code     *)
(* assumes of it.  It may refuse any ticket at any time (expired, revoked, *)
(* or a scope refusal, which it makes indistinguishable on purpose), and   *)
(* must refuse bytes it has burned.                                        *)
(***************************************************************************)
EXTENDS Integers, FiniteSets

CONSTANTS
    Procs,        \* the threads that share the client
    Aids,         \* agent identities
    None,         \* no identity, no thread, no answer
    Kinds,        \* the kinds of call the threads make, a subset of AllKinds
    Bound,        \* the client was built with agent=, so no call goes unsigned
    SubmitRetry,  \* the retry= argument of the submit_* steps (TRUE today)
    MaxTickets,   \* bound on the tickets the runtime mints
    MaxTries      \* RetryPolicy.max_attempts of with_session_retry

(***************************************************************************)
(* The calls, by the path they take through the client:                    *)
(*   admit      SeamClient.admit, an explicit handshake                    *)
(*   authorize  SeamClient.authorize, refresh-once, never forgets          *)
(*   run        run_decision, a presentation and one unsigned RPC          *)
(*   read       _credentialed_call of an RPC outside _REPLAY_GUARDED       *)
(*   submit     _credentialed_call of an RPC in _REPLAY_GUARDED            *)
(*   open       open_session: a presentation, then _signed_once            *)
(*   close      cancel_session, expire_session: _signed_once               *)
(***************************************************************************)
AllKinds == {"admit", "authorize", "run", "read", "submit", "open", "close"}

ASSUME ConstantsAssumption ==
    /\ None \notin Procs \cup Aids
    /\ Kinds \subseteq AllKinds
    /\ Bound \in BOOLEAN
    /\ SubmitRetry \in BOOLEAN
    /\ MaxTickets \in Nat
    /\ MaxTries \in Nat \ {0}

\* Tickets are numbered in the order the runtime mints them; 0 is Python's None.
Tickets == 1..MaxTickets
NoTicket == 0

\* The calls that begin with _presentation, outside any lock.
Presenting == {"run", "open"}

\* The calls that answer a first UNAUTHENTICATED with a refresh and a resend.
RefreshesOnce(kind) == kind \in {"authorize", "read"} \/ (kind = "submit" /\ SubmitRetry)

\* _REPLAY_GUARDED: the writes whose signature the runtime burns at admission.
Guarded == {"submit", "open", "close"}

\* Faulty variant: every UNAVAILABLE or lost answer counts as retryable.
RetryableAnyError == {"unavailable", "other"}

\* is_retryable: the refusals with_session_retry re-invokes the same call for.
RetryableAnswers == {"unavailable"}

Answers == {"ok", "unauthenticated", "unavailable", "other"}

\* Where a thread is in its call: it waits for the AID's lock at lockTicket,
\* lockRefresh and lockForget, and holds it at handshake and store.
Holding == {"handshake", "store"}
PCs == {"idle", "present", "lockTicket", "send", "lockRefresh", "lockForget",
        "returned"} \cup Holding

VARIABLES
    cache,    \* AID -> the ticket in its TicketCache, or NoTicket
    stale,    \* AID -> the client's clock is past the cached ticket's refresh_at_ms
    lock,     \* AID -> the thread that holds its lock, or None
    pc,       \* thread -> control point
    kind,     \* thread -> kind of the call it is in
    signer,   \* thread -> the AID that signs the call, None without a credential
    ticket,   \* thread -> the local variable `ticket`
    resent,   \* thread -> it has refreshed, the next send is the second one
    answer,   \* thread -> the error in flight, then the outcome of the call
    tries,    \* thread -> with_session_retry's `attempt`
    minted,   \* runtime: how many tickets it has minted; they are 1..minted
    owner,    \* runtime: ticket -> the AID it was minted for, None before that
    burned,   \* runtime: thread -> tickets under which it has burned this operation's bytes
    applied,  \* history: thread -> times the runtime carried out this operation
    wire,     \* history: thread -> RPCs made by this SDK call
    retired   \* history: tickets that a caller had a reason to give up

clientVars == <<cache, stale, lock, pc, kind, signer, ticket, resent, answer, tries>>
serverVars == <<minted, owner, burned>>
historyVars == <<applied, wire, retired>>
vars == <<clientVars, serverVars, historyVars>>

TypeOK ==
    /\ cache \in [Aids -> Tickets \cup {NoTicket}]
    /\ stale \in [Aids -> BOOLEAN]
    /\ lock \in [Aids -> Procs \cup {None}]
    /\ pc \in [Procs -> PCs]
    /\ kind \in [Procs -> AllKinds \cup {None}]
    /\ signer \in [Procs -> Aids \cup {None}]
    /\ ticket \in [Procs -> Tickets \cup {NoTicket}]
    /\ resent \in [Procs -> BOOLEAN]
    /\ answer \in [Procs -> Answers \cup {None}]
    /\ tries \in [Procs -> 0..MaxTries]
    /\ minted \in 0..MaxTickets
    /\ owner \in [Tickets -> Aids \cup {None}]
    /\ burned \in [Procs -> SUBSET Tickets]
    /\ applied \in [Procs -> Nat]
    /\ wire \in [Procs -> Nat]
    /\ retired \subseteq Tickets

Init ==
    /\ cache = [a \in Aids |-> NoTicket]
    /\ stale = [a \in Aids |-> FALSE]
    /\ lock = [a \in Aids |-> None]
    /\ pc = [p \in Procs |-> "idle"]
    /\ kind = [p \in Procs |-> None]
    /\ signer = [p \in Procs |-> None]
    /\ ticket = [p \in Procs |-> NoTicket]
    /\ resent = [p \in Procs |-> FALSE]
    /\ answer = [p \in Procs |-> None]
    /\ tries = [p \in Procs |-> 0]
    /\ minted = 0
    /\ owner = [t \in Tickets |-> None]
    /\ burned = [p \in Procs |-> {}]
    /\ applied = [p \in Procs |-> 0]
    /\ wire = [p \in Procs |-> 0]
    /\ retired = {}

-------------------------------------------------------------------------------
(* Helpers of the client. *)

\* Faulty variant: one cache for the whole client instead of one per AID.
GetOfAnyAid(a) ==
    LET held == {b \in Aids : cache[b] # NoTicket /\ ~stale[b]}
    IN  IF held = {} THEN NoTicket ELSE cache[CHOOSE b \in held : TRUE]

\* TicketCache.get: the cached ticket while it is fresh.
Get(a) == IF stale[a] THEN NoTicket ELSE cache[a]

\* The AID's lock can be acquired.
LockFree(p) == signer[p] # None /\ lock[signer[p]] = None

\* TicketCache.store of a cacheable ticket, and (of NoTicket) TicketCache.invalidate.
SetCache(a, t) ==
    /\ cache' = [cache EXCEPT ![a] = t]
    /\ stale' = [stale EXCEPT ![a] = FALSE]

\* `with lock` ends, by return or by raise.
Release(p) == lock' = [lock EXCEPT ![signer[p]] = None]
GoTo(p, c) == pc' = [pc EXCEPT ![p] = c]
CountRpcs(p, n) == wire' = [wire EXCEPT ![p] = @ + n]

\* The call ends: it returns ("ok") or raises the error of that class.
Return(p, a) == GoTo(p, "returned") /\ answer' = [answer EXCEPT ![p] = a]

\* The first control point after the presentation: send(None) without a signer.
Unpresented(s) == IF s = None THEN "send" ELSE "lockTicket"

\* The first control point of a call.
Entry(k, s) == IF k \in Presenting THEN "present" ELSE Unpresented(s)

\* Which signer a call can have: authorize and admit take an agent, run_decision
\* sends no credential, the rest take credential= or the bound agent (_signer).
SignersOf(k) ==
    CASE k \in {"admit", "authorize"} -> Aids
      [] k = "run" -> {None}
      [] OTHER -> IF Bound THEN Aids ELSE Aids \cup {None}

-------------------------------------------------------------------------------
(* The application. *)

\* The application makes a call of kind k.
Start(p, k) ==
    /\ k \in Kinds /\ pc[p] = "idle"
    /\ \E s \in SignersOf(k) :
        /\ kind' = [kind EXCEPT ![p] = k]
        /\ signer' = [signer EXCEPT ![p] = s]
        /\ GoTo(p, Entry(k, s))
    /\ tries' = [tries EXCEPT ![p] = 1]
    /\ UNCHANGED <<cache, stale, lock, ticket, resent, answer, serverVars, historyVars>>

\* The methods, by the path they take.
AdmitCall(p) == Start(p, "admit")
Authorize(p) == Start(p, "authorize")
RunDecision(p) == Start(p, "run")
OpenSession(p) == Start(p, "open")
Submit(p) == Start(p, "submit")
CloseSession(p) == Start(p, "close")
Read(p) == Start(p, "read")

StartCall(p) == \E k \in AllKinds : Start(p, k)

\* Faulty variant: the attempts are not counted.
RetryUncounted(p) ==
    /\ pc[p] = "returned"
    /\ answer[p] \in RetryableAnswers
    /\ tries[p] < MaxTries
    /\ GoTo(p, Entry(kind[p], signer[p]))
    /\ ticket' = [ticket EXCEPT ![p] = NoTicket]
    /\ resent' = [resent EXCEPT ![p] = FALSE]
    /\ answer' = [answer EXCEPT ![p] = None]
    /\ wire' = [wire EXCEPT ![p] = 0]
    /\ UNCHANGED <<cache, stale, lock, kind, signer, tries, serverVars, applied, retired>>

\* with_session_retry re-invokes the same call after a retryable refusal.
Retry(p) ==
    /\ pc[p] = "returned"
    /\ answer[p] \in RetryableAnswers
    /\ tries[p] < MaxTries
    /\ GoTo(p, Entry(kind[p], signer[p]))
    /\ tries' = [tries EXCEPT ![p] = @ + 1]
    /\ ticket' = [ticket EXCEPT ![p] = NoTicket]
    /\ resent' = [resent EXCEPT ![p] = FALSE]
    /\ answer' = [answer EXCEPT ![p] = None]
    /\ wire' = [wire EXCEPT ![p] = 0]
    /\ UNCHANGED <<cache, stale, lock, kind, signer, serverVars, applied, retired>>

\* The application takes the outcome (a retryable one when the attempts or the
\* wait budget are exhausted, or when it does not use with_session_retry).
Finish(p) ==
    /\ pc[p] = "returned"
    /\ GoTo(p, "idle")
    /\ kind' = [kind EXCEPT ![p] = None]
    /\ signer' = [signer EXCEPT ![p] = None]
    /\ ticket' = [ticket EXCEPT ![p] = NoTicket]
    /\ resent' = [resent EXCEPT ![p] = FALSE]
    /\ answer' = [answer EXCEPT ![p] = None]
    /\ tries' = [tries EXCEPT ![p] = 0]
    /\ burned' = [burned EXCEPT ![p] = {}]
    /\ applied' = [applied EXCEPT ![p] = 0]
    /\ wire' = [wire EXCEPT ![p] = 0]
    /\ UNCHANGED <<cache, stale, lock, minted, owner, retired>>

-------------------------------------------------------------------------------
(* The challenge -> Admit handshake. *)

\* _presentation of run_decision and open_session: IssueChallenge, outside the
\* lock.  A fresh presentation is part of the request, so its bytes are new.
Present(p) ==
    /\ pc[p] = "present"
    /\ CountRpcs(p, 1)
    /\ GoTo(p, Unpresented(signer[p]))
    /\ burned' = [burned EXCEPT ![p] = {}]
    /\ UNCHANGED <<cache, stale, lock, kind, signer, ticket, resent, answer, tries,
                   minted, owner, applied, retired>>

\* _presentation, refused.
PresentRefused(p) ==
    /\ pc[p] = "present"
    /\ CountRpcs(p, 1)
    /\ \E a \in Answers \ {"ok"} : Return(p, a)
    /\ UNCHANGED <<cache, stale, lock, kind, signer, ticket, resent, tries, serverVars,
                   applied, retired>>

\* _ticket_for under the lock: the cached ticket is fresh.
TakeCached(p) ==
    /\ pc[p] = "lockTicket"
    /\ LockFree(p)
    /\ kind[p] # "admit"
    /\ Get(signer[p]) # NoTicket
    /\ ticket' = [ticket EXCEPT ![p] = Get(signer[p])]
    /\ GoTo(p, "send")
    /\ UNCHANGED <<cache, stale, lock, kind, signer, resent, answer, tries, serverVars,
                   historyVars>>

\* _ticket_for with no fresh ticket, and admit() always: the handshake, the lock
\* held across it.
BeginAdmit(p) ==
    /\ pc[p] = "lockTicket"
    /\ LockFree(p)
    /\ kind[p] = "admit" \/ Get(signer[p]) = NoTicket
    /\ lock' = [lock EXCEPT ![signer[p]] = p]
    /\ GoTo(p, "handshake")
    /\ UNCHANGED <<cache, stale, kind, signer, ticket, resent, answer, tries, serverVars,
                   historyVars>>

\* _refresh_ticket's re-check: another caller has already refreshed.
Adopts(a, failed) == Get(a) # NoTicket /\ Get(a) # failed

\* _refresh_ticket: adopt a ticket other than the rejected one.
AdoptRefreshed(p) ==
    /\ pc[p] = "lockRefresh"
    /\ LockFree(p)
    /\ Adopts(signer[p], ticket[p])
    /\ ticket' = [ticket EXCEPT ![p] = Get(signer[p])]
    /\ resent' = [resent EXCEPT ![p] = TRUE]
    /\ answer' = [answer EXCEPT ![p] = None]
    /\ GoTo(p, "send")
    /\ UNCHANGED <<cache, stale, lock, kind, signer, tries, serverVars, historyVars>>

\* Faulty variant: the rejected ticket stays cached until the new one replaces it.
ReadmitWithoutInvalidate(p) ==
    /\ pc[p] = "lockRefresh"
    /\ LockFree(p)
    /\ ~Adopts(signer[p], ticket[p])
    /\ lock' = [lock EXCEPT ![signer[p]] = p]
    /\ resent' = [resent EXCEPT ![p] = TRUE]
    /\ answer' = [answer EXCEPT ![p] = None]
    /\ GoTo(p, "handshake")
    /\ UNCHANGED <<cache, stale, kind, signer, ticket, tries, serverVars, historyVars>>

\* _refresh_ticket otherwise: invalidate the cache BEFORE the handshake.
BeginReadmit(p) ==
    /\ pc[p] = "lockRefresh"
    /\ LockFree(p)
    /\ ~Adopts(signer[p], ticket[p])
    /\ SetCache(signer[p], NoTicket)
    /\ lock' = [lock EXCEPT ![signer[p]] = p]
    /\ resent' = [resent EXCEPT ![p] = TRUE]
    /\ answer' = [answer EXCEPT ![p] = None]
    /\ GoTo(p, "handshake")
    /\ UNCHANGED <<kind, signer, ticket, tries, serverVars, historyVars>>

\* The runtime carries out an admission: it mints the next ticket, for that AID.
Mint(p) ==
    /\ minted < MaxTickets
    /\ minted' = minted + 1
    /\ owner' = [owner EXCEPT ![minted + 1] = signer[p]]
    /\ applied' = IF kind[p] = "admit" THEN [applied EXCEPT ![p] = @ + 1] ELSE applied

\* _admit_locked, the two RPCs of the handshake: IssueChallenge, which changes
\* nothing, and Admit, whose ticket arrives.
Admit(p) ==
    /\ pc[p] = "handshake"
    /\ Mint(p)
    /\ ticket' = [ticket EXCEPT ![p] = minted + 1]
    /\ GoTo(p, "store")
    /\ CountRpcs(p, 2)
    /\ UNCHANGED <<cache, stale, lock, kind, signer, resent, answer, tries, burned, retired>>

\* _admit_locked: the ticket is minted, but Admit's answer is lost.
AdmitLost(p) ==
    /\ pc[p] = "handshake"
    /\ Mint(p)
    /\ retired' = retired \cup {minted + 1}
    /\ Return(p, "other")
    /\ CountRpcs(p, 2)
    /\ Release(p)
    /\ UNCHANGED <<cache, stale, kind, signer, ticket, resent, tries, burned>>

\* _admit_locked: IssueChallenge or Admit is refused.
AdmitRefused(p) ==
    /\ pc[p] = "handshake"
    /\ \E a \in Answers \ {"ok"} : Return(p, a)
    /\ \E n \in {1, 2} : CountRpcs(p, n)
    /\ Release(p)
    /\ UNCHANGED <<cache, stale, kind, signer, ticket, resent, tries, serverVars,
                   applied, retired>>

\* _admit_locked, the end: TicketCache.store, which invalidates the cache when
\* the ticket is already expired or empty; the ticket is used all the same.
\* An explicit admit() gives up the ticket it replaces.
Store(p) ==
    /\ pc[p] = "store"
    /\ \E usable \in BOOLEAN :
        /\ SetCache(signer[p], IF usable THEN ticket[p] ELSE NoTicket)
        /\ retired' = retired
             \cup (IF kind[p] = "admit" THEN {cache[signer[p]]} \ {NoTicket} ELSE {})
             \cup (IF usable THEN {} ELSE {ticket[p]})
    /\ Release(p)
    /\ IF kind[p] = "admit"
       THEN Return(p, "ok")
       ELSE GoTo(p, "send") /\ UNCHANGED answer
    /\ UNCHANGED <<kind, signer, ticket, resent, tries, serverVars, applied, wire>>

-------------------------------------------------------------------------------
(* The call itself. *)

\* The runtime refuses bytes it has burned.
Honoured(p) ==
    \/ signer[p] = None
    \/ kind[p] \in Guarded => ticket[p] \notin burned[p]

\* Faulty variant: a burned ticket stays in the cache.
BurnedTicketKept(p, a) ==
    IF signer[p] # None /\ a = "unauthenticated" /\ ~resent[p] /\ RefreshesOnce(kind[p])
    THEN "lockRefresh" ELSE "returned"

\* Faulty variant: the resend is refreshed again instead of raising.
RefreshesAgain(p, a) ==
    IF signer[p] # None /\ a = "unauthenticated" /\ RefreshesOnce(kind[p])
    THEN "lockRefresh"
    ELSE IF signer[p] # None /\ a = "unavailable" /\ kind[p] \in Guarded
    THEN "lockForget" ELSE "returned"

\* What the handlers of authorize, _credentialed_call and _signed_once do with
\* the answer: refresh, drop the ticket and raise, or return / raise at once.
AfterAnswer(p, a) ==
    IF signer[p] = None THEN "returned"
    ELSE CASE a = "unauthenticated" /\ ~resent[p] /\ RefreshesOnce(kind[p])
                -> "lockRefresh"
           [] a = "unauthenticated" /\ kind[p] = "submit" /\ ~SubmitRetry
                -> "lockForget"
           [] a = "unavailable" /\ kind[p] \in Guarded
                -> "lockForget"
           [] OTHER -> "returned"

\* Sign under the ticket in hand, send, and the runtime's answer.  "other" is
\* any other status: a refusal, a transport failure before the runtime saw the
\* request, or an answer lost after it carried the request out.  A scope refusal
\* is UNAUTHENTICATED too, so a live ticket may also be rejected.
Send(p) ==
    /\ pc[p] = "send"
    /\ CountRpcs(p, 1)
    /\ \E a \in IF Honoured(p) THEN Answers ELSE {"unauthenticated", "other"} :
        /\ answer' = [answer EXCEPT ![p] = a]
        /\ GoTo(p, AfterAnswer(p, a))
        /\ \E n \in IF a = "ok" THEN {1}
                    ELSE IF a = "other" /\ Honoured(p) THEN {0, 1} ELSE {0} :
              applied' = [applied EXCEPT ![p] = @ + n]
        /\ retired' = IF /\ signer[p] # None
                         /\ \/ a = "unauthenticated"
                            \/ a = "unavailable" /\ kind[p] \in Guarded
                      THEN retired \cup {ticket[p]} ELSE retired
    /\ burned' = IF signer[p] # None /\ kind[p] \in Guarded
                 THEN [burned EXCEPT ![p] = @ \cup {ticket[p]}] ELSE burned
    /\ UNCHANGED <<cache, stale, lock, kind, signer, ticket, resent, tries, minted, owner>>

\* Faulty variant: the cache is invalidated whatever it holds.
CachedAtAll(p) == TRUE

\* _invalidate_ticket's comparison: the refused ticket is still the cached one.
StillCached(p) == Get(signer[p]) = ticket[p]

\* _invalidate_ticket, from _forget_burned_ticket or retry=False: drop the ticket
\* if it is still the cached one, then raise.
Forget(p) ==
    /\ pc[p] = "lockForget"
    /\ LockFree(p)
    /\ IF StillCached(p)
       THEN SetCache(signer[p], NoTicket)
       ELSE UNCHANGED <<cache, stale>>
    /\ GoTo(p, "returned")
    /\ UNCHANGED <<lock, kind, signer, ticket, resent, answer, tries, serverVars,
                   historyVars>>

-------------------------------------------------------------------------------
(* The environment. *)

\* The client's clock passes 80% of the cached ticket's TTL.
Age(a) ==
    /\ cache[a] # NoTicket
    /\ ~stale[a]
    /\ stale' = [stale EXCEPT ![a] = TRUE]
    /\ retired' = retired \cup {cache[a]}
    /\ UNCHANGED <<cache, lock, pc, kind, signer, ticket, resent, answer, tries,
                   serverVars, applied, wire>>

\* The steps of one thread inside a call, the RPC answers included.
Step(p) ==
    \/ Present(p) \/ PresentRefused(p)
    \/ TakeCached(p) \/ BeginAdmit(p) \/ AdoptRefreshed(p) \/ BeginReadmit(p)
    \/ Admit(p) \/ AdmitLost(p) \/ AdmitRefused(p) \/ Store(p)
    \/ Send(p) \/ Forget(p)

Next ==
    \/ \E p \in Procs :
         \/ AdmitCall(p) \/ Authorize(p) \/ RunDecision(p) \/ OpenSession(p) \/ Submit(p)
         \/ CloseSession(p) \/ Read(p) \/ Retry(p) \/ Finish(p) \/ Step(p)
    \/ \E a \in Aids : Age(a)

Spec == Init /\ [][Next]_vars

(***************************************************************************)
(* Fairness: the operating system runs every thread, every RPC carries a   *)
(* deadline so it is answered in the end, and an application takes the     *)
(* outcome of a call that has returned.                                    *)
(***************************************************************************)
Fairness ==
    \A p \in Procs : WF_vars(Step(p)) /\ WF_vars(Retry(p) \/ Finish(p))

FairSpec == Spec /\ Fairness

-------------------------------------------------------------------------------
(* Properties. *)

\* A lock is held exactly by the one thread in the handshake for that AID: no
\* return or raise out of the handshake leaks it, no two handshakes overlap.
LockDiscipline ==
    /\ \A p \in Procs : pc[p] \in Holding =>
          signer[p] \in Aids /\ lock[signer[p]] = p
    /\ \A a \in Aids : lock[a] # None =>
          pc[lock[a]] \in Holding /\ signer[lock[a]] = a

\* A ticket the runtime has minted is in the cache, or on its way into it, or
\* some caller had a reason to give it up: the runtime rejected or burned it, it
\* is past its refresh point or was never cacheable, its Admit answer was lost,
\* or an explicit admit() replaced it.  So N concurrent rejections of one ticket
\* cost one re-admit, not N (_refresh_ticket, _invalidate_ticket).
NoGoodTicketDiscarded ==
    \A t \in 1..minted :
        \/ t \in retired
        \/ cache[owner[t]] = t
        \/ \E p \in Procs : pc[p] = "store" /\ ticket[p] = t

\* A replay-guarded write is never sent under a ticket whose signature over the
\* same bytes the runtime has already burned: not by the resend after a refresh,
\* and not when with_session_retry re-invokes the call (_forget_burned_ticket).
NoReplayedBytes ==
    \A p \in Procs :
        pc[p] = "send" /\ signer[p] # None /\ kind[p] \in Guarded
            => ticket[p] \notin burned[p]

\* A ticket that a write has given up (burned with a SESSION_UNAVAILABLE or
\* TENANT_MOVING refusal, or rejected under retry=False) is never handed out
\* again, as far as the caller that raised can see, and the refresh that a
\* concurrent caller made in the meantime does not bring it back.
RefusedTicketDropped ==
    \A p \in Procs :
        /\ pc[p] = "returned"
        /\ signer[p] # None
        /\ ticket[p] # NoTicket
        /\ \/ answer[p] = "unavailable" /\ kind[p] \in Guarded
           \/ answer[p] = "unauthenticated" /\ kind[p] = "submit" /\ ~SubmitRetry
        => Get(signer[p]) # ticket[p]

\* The tickets of two identities are never mixed: a call is signed under a ticket
\* minted for its own signer, and the refresh and the forgetting are keyed to it.
TicketBelongsToSigner ==
    /\ \A p \in Procs : pc[p] \in {"send", "store"} /\ signer[p] # None =>
          ticket[p] \in 1..minted /\ owner[ticket[p]] = signer[p]
    /\ \A a \in Aids : cache[a] # NoTicket =>
          cache[a] \in 1..minted /\ owner[cache[a]] = a

\* How many RPCs one SDK call may make: six when it refreshes, else the
\* presentation, the handshake and the one send that the call needs.
RpcBudget(k) ==
    IF RefreshesOnce(k) THEN 6
    ELSE IF k = "open" THEN 4 ELSE IF k \in {"run", "admit"} THEN 2 ELSE 3

\* A call never exceeds its budget of RPCs, whatever the runtime answers and
\* whatever the other threads do (the six-call bound that callers size timeouts by).
WireBound == \A p \in Procs : pc[p] # "idle" => wire[p] <= RpcBudget(kind[p])

\* What a call promises (module CallContract): over all the attempts of an
\* operation the runtime carries it out at most once; it has done so when the
\* call returns; it has not when the call raises UNAUTHENTICATED,
\* SESSION_UNAVAILABLE or TENANT_MOVING.
Contract == INSTANCE CallContract WITH
    Callers <- Procs,
    phase <- [p \in Procs |-> IF pc[p] \in {"idle", "returned"} THEN pc[p] ELSE "pending"],
    effect <- applied,
    outcome <- [p \in Procs |-> IF pc[p] = "returned" THEN answer[p] ELSE None]

CallContractHolds == Contract!Spec

\* errors.py says of the writes other than report_outcome that they raise on the
\* first UNAUTHENTICATED; the submit_* steps and register_context refresh and
\* resend instead.
OtherWritesRaiseOnFirst ==
    \A p \in Procs : pc[p] = "send" /\ kind[p] \in Guarded => ~resent[p]

\* Once the application stops making calls, every call under way returns: no
\* thread waits for a lock for ever, no refresh or retry loops.
EveryCallReturns ==
    <>[][\A p \in Procs : ~StartCall(p)]_vars => \A p \in Procs : <>[](pc[p] = "idle")
==============================================================================
