-------------------------- MODULE TsTicketLifecycle --------------------------
(***************************************************************************)
(* The ticket lifecycle of the TypeScript client (ts/src/client.ts).  It   *)
(* keeps the Python client's rules with other means: there is no lock;     *)
(* the event loop runs the code between two awaits without interruption,   *)
(* and concurrent handshakes of one AID are coalesced in the `admitting`   *)
(* map, whose promise every later caller awaits.  A caller that joins      *)
(* shares the outcome of the leader, its failure included.                 *)
(*                                                                         *)
(* State and steps of TicketLifecycle are kept, read as follows: lock[a]   *)
(* is the caller whose handshake admitting.get(a) is; "lockTicket" is the  *)
(* point of ticketFor or of an explicit admit, "lockRefresh" the catch     *)
(* block about to call refreshTicket, "lockForget" the one about to call   *)
(* invalidateTicket; "handshake" and "store" are the leader's.  New are    *)
(* "joined" (awaits the leader's promise), "resolved" and "rejected" (the  *)
(* promise is settled, the caller has not run yet).                        *)
(*                                                                         *)
(* The promise settles and the leader's finally deletes the entry in one   *)
(* step: a caller that finds a settled promise gets what one that joined   *)
(* just before gets.                                                       *)
(***************************************************************************)
EXTENDS TicketLifecycle

\* ticketFor / authorize: the cached ticket is fresh.
TsTakeCached(p) ==
    /\ pc[p] = "lockTicket"
    /\ kind[p] # "admit"
    /\ Get(signer[p]) # NoTicket
    /\ ticket' = [ticket EXCEPT ![p] = Get(signer[p])]
    /\ GoTo(p, "send")
    /\ UNCHANGED <<cache, stale, lock, kind, signer, resent, answer, tries, serverVars,
                   historyVars>>

\* Faulty variant: admit() does not look for a handshake in flight.
LeadAlways(p) ==
    /\ lock' = [lock EXCEPT ![signer[p]] = p]
    /\ GoTo(p, "handshake")

\* admit(): await the handshake in flight, or start one and enter it in the map.
LeadOrJoin(p) ==
    IF lock[signer[p]] # None
    THEN GoTo(p, "joined") /\ UNCHANGED lock
    ELSE lock' = [lock EXCEPT ![signer[p]] = p] /\ GoTo(p, "handshake")

\* ticketFor without a fresh ticket, and an explicit admit.
TsBeginAdmit(p) ==
    /\ pc[p] = "lockTicket"
    /\ kind[p] = "admit" \/ Get(signer[p]) = NoTicket
    /\ LeadOrJoin(p)
    /\ UNCHANGED <<cache, stale, kind, signer, ticket, resent, answer, tries, serverVars,
                   historyVars>>

\* refreshTicket: a concurrent caller already refreshed, adopt its ticket.
TsAdoptRefreshed(p) ==
    /\ pc[p] = "lockRefresh"
    /\ Adopts(signer[p], ticket[p])
    /\ ticket' = [ticket EXCEPT ![p] = Get(signer[p])]
    /\ resent' = [resent EXCEPT ![p] = TRUE]
    /\ answer' = [answer EXCEPT ![p] = None]
    /\ GoTo(p, "send")
    /\ UNCHANGED <<cache, stale, lock, kind, signer, tries, serverVars, historyVars>>

\* refreshTicket otherwise: delete the entry, then admit().
TsBeginReadmit(p) ==
    /\ pc[p] = "lockRefresh"
    /\ ~Adopts(signer[p], ticket[p])
    /\ SetCache(signer[p], NoTicket)
    /\ LeadOrJoin(p)
    /\ resent' = [resent EXCEPT ![p] = TRUE]
    /\ answer' = [answer EXCEPT ![p] = None]
    /\ UNCHANGED <<kind, signer, ticket, tries, serverVars, historyVars>>

\* Faulty variant: the promise wakes the caller that started it and no other.
AwaitingLeader(p) == {p}

\* The callers that await the promise of p's handshake, p's own call included.
Awaiting(p) == {p} \cup {q \in Procs : pc[q] = "joined" /\ signer[q] = signer[p]}

\* The ticket has arrived: cache it (or delete the entry, when it is expired or
\* empty), settle the promise, delete it from the map.
TsSettle(p) ==
    /\ pc[p] = "store"
    /\ \E usable \in BOOLEAN :
        /\ SetCache(signer[p], IF usable THEN ticket[p] ELSE NoTicket)
        /\ retired' = retired
             \cup (IF kind[p] = "admit" THEN {cache[signer[p]]} \ {NoTicket} ELSE {})
             \cup (IF usable THEN {} ELSE {ticket[p]})
    /\ Release(p)
    /\ pc' = [q \in Procs |-> IF q \in Awaiting(p) THEN "resolved" ELSE pc[q]]
    /\ ticket' = [q \in Procs |-> IF q \in Awaiting(p) THEN ticket[p] ELSE ticket[q]]
    /\ UNCHANGED <<kind, signer, resent, answer, tries, serverVars, applied, wire>>

\* The promise is rejected with the error of class a.
RejectAll(p, a) ==
    /\ Release(p)
    /\ pc' = [q \in Procs |-> IF q \in Awaiting(p) THEN "rejected" ELSE pc[q]]
    /\ answer' = [q \in Procs |-> IF q \in Awaiting(p) THEN a ELSE answer[q]]

\* The ticket is minted, but Admit's answer is lost.
TsAdmitLost(p) ==
    /\ pc[p] = "handshake"
    /\ Mint(p)
    /\ retired' = retired \cup {minted + 1}
    /\ RejectAll(p, "other")
    /\ CountRpcs(p, 2)
    /\ UNCHANGED <<cache, stale, kind, signer, ticket, resent, tries, burned>>

\* IssueChallenge or Admit is refused.
TsAdmitRefused(p) ==
    /\ pc[p] = "handshake"
    /\ \E a \in Answers \ {"ok"} : RejectAll(p, a)
    /\ \E n \in {1, 2} : CountRpcs(p, n)
    /\ UNCHANGED <<cache, stale, kind, signer, ticket, resent, tries, serverVars,
                   applied, retired>>

\* A caller runs on after the promise: it has the ticket, or it throws.
TsResume(p) ==
    \/ /\ pc[p] = "resolved"
       /\ kind[p] # "admit"
       /\ GoTo(p, "send")
       /\ UNCHANGED <<answer, applied>>
    \/ /\ pc[p] = "resolved"
       /\ kind[p] = "admit"
       /\ Return(p, "ok")
       /\ applied' = [applied EXCEPT ![p] = 1]
    \/ /\ pc[p] = "rejected"
       /\ Return(p, answer[p])
       /\ UNCHANGED applied

Resume(p) ==
    /\ TsResume(p)
    /\ UNCHANGED <<cache, stale, lock, kind, signer, ticket, resent, tries, serverVars,
                   wire, retired>>

\* invalidateTicket's comparison, which does not look at the refresh point.
TsStillCached(p) == cache[signer[p]] = ticket[p]

\* forgetBurnedTicket, and retry: false.
TsForget(p) ==
    /\ pc[p] = "lockForget"
    /\ IF TsStillCached(p)
       THEN SetCache(signer[p], NoTicket)
       ELSE UNCHANGED <<cache, stale>>
    /\ GoTo(p, "returned")
    /\ UNCHANGED <<lock, kind, signer, ticket, resent, answer, tries, serverVars,
                   historyVars>>

TsStep(p) ==
    \/ Present(p) \/ PresentRefused(p)
    \/ TsTakeCached(p) \/ TsBeginAdmit(p) \/ TsAdoptRefreshed(p) \/ TsBeginReadmit(p)
    \/ Admit(p) \/ TsSettle(p) \/ TsAdmitLost(p) \/ TsAdmitRefused(p) \/ Resume(p)
    \/ Send(p) \/ TsForget(p)

TsNext ==
    \/ \E p \in Procs : StartCall(p) \/ Retry(p) \/ Finish(p) \/ TsStep(p)
    \/ \E a \in Aids : Age(a)

TsSpec == Init /\ [][TsNext]_vars

\* The event loop runs every ready continuation and every RPC has a deadline.
TsFairSpec ==
    TsSpec /\ \A p \in Procs : WF_vars(TsStep(p)) /\ WF_vars(Retry(p) \/ Finish(p))

-------------------------------------------------------------------------------
(* Properties; the others are those of TicketLifecycle. *)

\* Every call returns, although other callers keep making calls: whoever joins a
\* handshake is woken by it, and nobody queues behind a lock.
EveryPromiseSettles == \A p \in Procs : pc[p] # "idle" ~> pc[p] = "idle"
==============================================================================
