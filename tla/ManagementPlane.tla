-------------------------- MODULE ManagementPlane --------------------------
(***************************************************************************)
(* The management client (admin.py): operator threads share one connected  *)
(* SeamAdminClient, every method is one call under a deadline (the         *)
(* confirmed erasure is two), and every call passes the interceptor that   *)
(* `connect` installed.                                                    *)
(*                                                                         *)
(* The runtime is outside the repository.  It does what the docstrings say *)
(* of it: it checks the token and the proof, burns the proof, carries a    *)
(* request out, perhaps after the caller has given up, and its answer may  *)
(* be lost.                                                                *)
(*                                                                         *)
(* Time is counted in ages: of a request since it was signed, of a method  *)
(* since it was entered.                                                   *)
(***************************************************************************)
EXTENDS MgmtAuth

CONSTANTS Operators,       \* threads that share the client
          Decisions,       \* decisions of the one subject under erasure
          MaxMethods,      \* methods ever entered
          CallTimeout,     \* the timeout= a caller passes
          DefaultTimeout,  \* DEFAULT_ADMIN_TIMEOUT_S
          RuntimeAud,      \* SEAM_RUNTIME_AUD
          Pairings,        \* arguments of connect: token, key, aud, clock
          Skews,           \* seconds the local clock is off, behind if positive
          Tenants,         \* tenant= of the legal-hold calls
          Governed,        \* plain methods the threads call
          Counts,          \* confirm_count of an erasure by hand
          SealedBefore     \* decisions sealed before the client connects

\* Methods of one call whose effect no property tells apart.  What enroll_tenant
\* refuses before its call is in module Enrolment.
TenantMethods == {"EnrollTenant", "ListTenants", "RevokeTenant"}
PartyMethods == {"RegisterParty", "RemoveParty"}
GrantMethods == {"PlaceGrant", "RevokeGrant", "ListGrants"}
PlainMethods == TenantMethods \cup PartyMethods \cup GrantMethods
                    \cup {"ResumeSession", "ListLegalHolds", "AuditTrail"}

\* None is no name of a method, a scheme, an answer or an exception.
ASSUME NoneAssumption ==
    /\ None \notin {Raise("key"), Raise("dpop")}
    /\ None \notin PlainMethods \cup {"PreviewErasure", "EraseSubject", "EraseSubjectConfirmed",
                   "EnforceRetention", "PlaceLegalHold", "ReleaseLegalHold", "Bearer", "DPoP",
                   "scheme", "binding", "audience", "stale", "replay", "done", "count",
                   "argument"}

\* A token can stand in a header, and its claims are no exception.
ASSUME PairingsAssumption ==
    \A x \in Pairings :
        \/ x.token = None
        \/ /\ x.token # Odd /\ x.token.visible
           /\ x.token.claims = Odd \/ "raised" \notin DOMAIN x.token.claims

ASSUME PlaneAssumption ==
    /\ MaxMethods \in Nat /\ CallTimeout \in Nat \ {0} /\ DefaultTimeout \in Nat \ {0}
    /\ Window \in Nat /\ Governed \subseteq PlainMethods /\ Counts \subseteq Nat
    /\ Skews \subseteq Int /\ Skews # {} /\ SealedBefore \subseteq Decisions

VARIABLES
    pairing,   \* the arguments connect was called with
    skew,      \* seconds the client's clock is behind the runtime's
    auth,      \* the interceptor: Odd before connect, then as ManagementAuth
    op,        \* op[p]: the method p is in, or None
    left,      \* left[p]: time until the deadline of its call
    spent,     \* spent[p]: time since it entered the method
    wire,      \* requests sent and not yet answered
    entered,   \* number of methods entered
    sent,      \* number of requests sent
    sealed, held, shredded,   \* runtime: decisions, pinned ones, erased ones
    burned     \* runtime: proof ids seen

client == <<pairing, skew, auth>>
runtime == <<sealed, held, shredded, burned>>
planeVars == <<pairing, skew, auth, op, left, spent, wire, entered, sent, sealed, held, shredded, burned>>

Holds == {"PlaceLegalHold", "ReleaseLegalHold"}

\* The oldest a request gets: beyond it, it is stale whatever the skew.
AgeCap == Max({0, Window + 1 - Min(Skews)})
-----------------------------------------------------------------------------
(* What the methods put on the wire. *)

\* _tenant_metadata: the header is sent when a tenant is given, "" included.
TenantHeader(tenant) == IF tenant = None THEN {} ELSE {tenant}

NoArgs == [count |-> 0, decision |-> None, header |-> {}]

\* place_legal_hold and release_legal_hold.
HoldArgs(d, tenant) == [NoArgs EXCEPT !.decision = d, !.header = TenantHeader(tenant)]

\* Mutant: the count is not sent.
MutantCountDropped(preview) == NoArgs

\* erase_subject_confirmed: the count is that of the preview's would_erase.
ConfirmArgs(preview) == [NoArgs EXCEPT !.count = Cardinality(preview.would_erase)]

\* The timeout of its second call is the caller's, like that of the first.
ConfirmTimeout == CallTimeout

\* Mutant: one proof id for every call.
MutantSharedJti(rpc, args) ==
    [jti |-> 1, signed |-> 0, htu |-> <<auth.aud, rpc>>, body |-> args, key |-> auth.key]

\* A proof for exactly this request, with a fresh jti and an iat of now.
WithProof(rpc, args) ==
    ProofFor(auth, rpc, args, sent + 1)

\* The request of one call as the interceptor passes it on; `inv` is the
\* method invocation it belongs to.
Request(p, inv, rpc, args, shown) ==
    [p |-> p, inv |-> inv, rpc |-> rpc, args |-> args, shown |-> shown,
     token |-> IF auth = None THEN None ELSE auth.token,
     scheme |-> IF auth = None THEN None ELSE auth.scheme,
     proof |-> IF auth # None /\ auth.scheme = "DPoP" THEN WithProof(rpc, args) ELSE None,
     age |-> 0, result |-> None, saw |-> None, waited |-> TRUE]
-----------------------------------------------------------------------------
(* The client. *)

PlaneInit ==
    /\ pairing \in Pairings /\ skew \in Skews
    /\ auth = Odd
    /\ op = [p \in Operators |-> None]
    /\ left = [p \in Operators |-> 0] /\ spent = [p \in Operators |-> 0]
    /\ wire = {} /\ entered = 0 /\ sent = 0 /\ sealed = SealedBefore /\ held = {} /\ shredded = {} /\ burned = {}

\* connect: a refusal is raised before a channel exists.
Connect ==
    /\ auth = Odd
    /\ auth' = ManagementAuth(pairing.token, pairing.key, pairing.aud, pairing.clock)
    /\ UNCHANGED <<pairing, skew, op, left, spent, wire, entered, sent, runtime>>

Connected == auth # Odd /\ (auth # None => ~IsRefusal(auth))

\* A method makes its call, the first of two in a confirmed erasure.
Enter(p, method, rpc, args) ==
    /\ Connected /\ op[p] = None /\ entered < MaxMethods
    /\ entered' = entered + 1
    /\ op' = [op EXCEPT ![p] = method]
    /\ left' = [left EXCEPT ![p] = CallTimeout]
    /\ spent' = [spent EXCEPT ![p] = 0]
    /\ wire' = wire \cup {Request(p, entered + 1, rpc, args, None)}
    /\ sent' = sent + 1
    /\ UNCHANGED <<client, runtime>>

PreviewErasure(p) == Enter(p, "PreviewErasure", "PreviewErasure", NoArgs)
EraseSubjectConfirmed(p) == Enter(p, "EraseSubjectConfirmed", "PreviewErasure", NoArgs)
EraseSubject(p) ==
    \E n \in Counts :
        Enter(p, "EraseSubject", "EraseSubject", [NoArgs EXCEPT !.count = n])
EnforceRetention(p) == Enter(p, "EnforceRetention", "EnforceRetention", NoArgs)
LegalHold(p) == \E m \in Holds, d \in Decisions, t \in Tenants : Enter(p, m, m, HoldArgs(d, t))
Govern(p) == \E m \in Governed : Enter(p, m, m, NoArgs)

Waits(p, r) == r.p = p /\ r.waited
Return(p) ==
    /\ op' = [op EXCEPT ![p] = None]
    /\ left' = [left EXCEPT ![p] = 0]
    /\ spent' = [spent EXCEPT ![p] = 0]

\* An answer arrives before the deadline: the method returns it, a refusal as
\* a typed error.
Answered(p) ==
    \E r \in wire :
        /\ Waits(p, r) /\ r.result # None
        /\ ~(op[p] = "EraseSubjectConfirmed" /\ r.rpc = "PreviewErasure" /\ r.result = "done")
        /\ Return(p)
        /\ wire' = wire \ {r}
        /\ UNCHANGED <<client, entered, sent, runtime>>

\* erase_subject_confirmed: the preview's answer is followed by the erasure.
Confirm(p) ==
    \E r \in wire :
        /\ Waits(p, r) /\ r.result = "done"
        /\ op[p] = "EraseSubjectConfirmed" /\ r.rpc = "PreviewErasure"
        /\ wire' = (wire \ {r})
                   \cup {Request(p, r.inv, "EraseSubject", ConfirmArgs(r.saw), r.saw)}
        /\ sent' = sent + 1
        /\ left' = [left EXCEPT ![p] = ConfirmTimeout]
        /\ UNCHANGED <<client, op, spent, entered, runtime>>

\* Mutants: the call is sent once more at its deadline; the erasure has none.
MutantResend(p) ==
    \E r \in wire :
        /\ Waits(p, r) /\ left[p] = 0 /\ sent <= MaxMethods
        /\ wire' = (wire \ {r}) \cup {[r EXCEPT !.waited = FALSE],
                                     Request(p, r.inv, r.rpc, r.args, r.shown)}
        /\ sent' = sent + 1
        /\ left' = [left EXCEPT ![p] = CallTimeout]
        /\ UNCHANGED <<client, op, spent, entered, runtime>>
MutantNoDeadline(p) ==
    \E r \in wire :
        /\ Waits(p, r) /\ left[p] = 0 /\ r.rpc # "EraseSubject"
        /\ Return(p)
        /\ wire' = (wire \ {r}) \cup {[r EXCEPT !.waited = FALSE]}
        /\ UNCHANGED <<client, entered, sent, runtime>>

\* DEADLINE_EXCEEDED: the method raises, and its request may still be on its
\* way.
Deadline(p) ==
    \E r \in wire :
        /\ Waits(p, r) /\ left[p] = 0
        /\ Return(p)
        /\ wire' = (wire \ {r}) \cup {[r EXCEPT !.waited = FALSE]}
        /\ UNCHANGED <<client, entered, sent, runtime>>
-----------------------------------------------------------------------------
(* The runtime and the network. *)

WouldErase == sealed \ (held \cup shredded)

\* The request is refused or carried out; `saw` is what the answer shows.
Serve(r) ==
    LET refusal == AuthRefusal(r, r.age + skew, burned, RuntimeAud)
        preview == [would_erase |-> WouldErase, held |-> held]
        saw == IF r.rpc \in {"PreviewErasure", "EraseSubject"} THEN preview ELSE None
        answer(result) == wire' = (wire \ {r}) \cup {[r EXCEPT !.result = result, !.saw = saw]} IN
    /\ r.result = None
    /\ burned' = IF r.proof # None /\ refusal = None THEN burned \cup {r.proof.jti} ELSE burned
    /\ \/ refusal # None /\ answer(refusal) /\ UNCHANGED <<held, shredded>>
       \/ /\ refusal = None
          /\ \/ /\ r.rpc \in PlainMethods \cup {"PreviewErasure"}
                /\ answer("done") /\ UNCHANGED <<held, shredded>>
             \/ /\ r.rpc = "EraseSubject"
                /\ IF r.args.count = Cardinality(WouldErase)
                   THEN answer("done") /\ shredded' = shredded \cup WouldErase
                   ELSE answer("count") /\ UNCHANGED shredded
                /\ UNCHANGED held
             \/ /\ r.rpc = "EnforceRetention"
                /\ \E purged \in SUBSET WouldErase : shredded' = shredded \cup purged
                /\ answer("done") /\ UNCHANGED held
             \/ /\ r.rpc \in Holds
                /\ IF "" \in r.args.header
                   THEN answer("argument") /\ UNCHANGED held
                   ELSE /\ answer("done")
                        /\ held' = IF r.rpc = "PlaceLegalHold" THEN held \cup {r.args.decision}
                                   ELSE held \ {r.args.decision}
                /\ UNCHANGED shredded
    /\ UNCHANGED <<client, op, left, spent, entered, sent, sealed>>

\* The data plane seals a decision of the subject.
Seal(d) ==
    /\ Connected /\ d \notin sealed
    /\ sealed' = sealed \cup {d}
    /\ UNCHANGED <<client, op, left, spent, wire, entered, sent, held, shredded, burned>>

\* A unit of time; no deadline is passed over.
Tick ==
    /\ \A p \in Operators : op[p] # None => left[p] > 0
    /\ left' = [p \in Operators |-> IF op[p] # None THEN left[p] - 1 ELSE 0]
    /\ spent' = [p \in Operators |-> IF op[p] # None THEN spent[p] + 1 ELSE 0]
    /\ wire' = {IF r.result = None /\ r.age < AgeCap THEN [r EXCEPT !.age = @ + 1] ELSE r : r \in wire}
    /\ UNCHANGED <<client, op, entered, sent, runtime>>
PlaneNext ==
    \/ Connect
    \/ \E p \in Operators :
         \/ PreviewErasure(p) \/ EraseSubject(p) \/ EraseSubjectConfirmed(p)
         \/ EnforceRetention(p) \/ LegalHold(p) \/ Govern(p)
         \/ Answered(p) \/ Confirm(p) \/ Deadline(p)
    \/ \E r \in wire : Serve(r)
    \/ \E d \in Decisions : Seal(d)
    \/ Tick

\* Time passes and a deadline that is due fires; the runtime owes nothing.
PlaneFairness == WF_planeVars(Tick) /\ \A p \in Operators : WF_planeVars(Deadline(p))

PlaneSpec == PlaneInit /\ [][PlaneNext]_planeVars /\ PlaneFairness
-----------------------------------------------------------------------------
(* Properties. *)

\* Once `connect` has accepted a pairing, no request of any thread is refused
\* for its scheme, its key or a proof id already burned, for its audience only
\* when the caller or the token named another one, and as stale only for the
\* clock and the time on the way: the interceptor signs every call afresh.
PairingHonoured ==
    \A r \in wire :
        /\ r.result \notin {"scheme", "binding", "replay"}
        /\ r.result = "audience" => auth.aud # RuntimeAud
        /\ r.result = "stale" => r.age + skew \notin -Window .. Window

\* An erasure that follows a preview shreds as many decisions as that preview
\* showed, whatever other threads, holds, retention and late requests of an
\* earlier attempt did in between, and it is refused for its count only when
\* what would be erased has changed since (erase_subject_confirmed).
ErasedAsShown ==
    \A r \in wire : r.shown # None /\ r.rpc = "EraseSubject" =>
        /\ r.result = "done" =>
              Cardinality(r.saw.would_erase) = Cardinality(r.shown.would_erase)
        /\ r.result = "count" => r.saw.would_erase # r.shown.would_erase

\* One invocation carries each of its calls out at most once, although it may
\* be carried out after the caller has seen DEADLINE_EXCEEDED: the client never
\* resends on its own.
AtMostOnce ==
    \A r, q \in wire :
        r # q /\ r.inv = q.inv /\ r.rpc = q.rpc => ~(r.result = "done" /\ q.result = "done")

\* No method is in its call longer than the timeout passed to it, the confirmed
\* erasure not longer than twice that, as its docstring says.
WithinTimeout ==
    \A p \in Operators :
        spent[p] <= IF op[p] = "EraseSubjectConfirmed" THEN 2 * CallTimeout ELSE CallTimeout

\* Every management method returns, although the runtime may never answer, and
\* in time.
EveryMethodReturns ==
    (\A p \in Operators : op[p] # None ~> op[p] = None) /\ []WithinTimeout
=============================================================================
