----------------------------- MODULE Enrolment -----------------------------
(***************************************************************************)
(* The enrolment proof: minted by the agent (Agent.enrolment_proof,        *)
(* crypto.enroll_pop), handed to an operator, checked and put on the wire  *)
(* by enroll_tenant (admin.py).                                            *)
(*                                                                         *)
(* A nonce is "n" or one outside the contract ("", "long", "bad char"); a  *)
(* signature is a key, what it signs and a number of bytes, or Odd (the    *)
(* base64url text of the REST form).                                       *)
(***************************************************************************)
EXTENDS Verdicts

EnrolmentKinds == {"agent", "outcome_reporter", "changeset_worker"}

\* validate_enroll_pop_nonce.
NonceRefusal(nonce) ==
    IF nonce = Odd THEN Raise("type")
    ELSE Check(nonce \in {"", "long", "bad char"}, Raise("value"))

\* What the proof signs (enroll_pop_payload).
Consent(aid, tenant, namespace, at, nonce) ==
    [aid |-> aid, tenant |-> tenant, namespace |-> namespace, issued_at_ms |-> at, nonce |-> nonce]

\* enroll_pop: the subject is the AID of the key that signs.
EnrollPop(key, tenant, namespace, at, nonce) ==
    FirstRefusal(
        <<NonceRefusal(nonce), UintSlot(at)>>,
        [issued_at_ms |-> at, nonce |-> nonce,
         signature |-> [key |-> key, signed |-> Consent(key, tenant, namespace, at, nonce),
                        len |-> 64]])

\* verify_enroll_pop: any failure, an exception included, is FALSE.
VerifyEnrollPop(aid, tenant, namespace, pop) ==
    /\ KeyOf(aid) # None /\ UintSlot(pop.issued_at_ms) = None
    /\ pop.signature = [key |-> KeyOf(aid),
                        signed |-> Consent(aid, tenant, namespace, pop.issued_at_ms, pop.nonce),
                        len |-> 64]

\* _enroll_pop_pb: an absent proof stays absent, a malformed one is refused.
EnrollPopPb(pop) ==
    IF pop = None THEN None
    ELSE IF pop = Odd THEN Raise("type")
    ELSE FirstRefusal(<<NonceRefusal(pop.nonce), UintSlot(pop.issued_at_ms),
                        Check(pop.signature = Odd, Raise("type")),
                        Check(pop.signature # Odd /\ pop.signature.len # 64, Raise("value"))>>, pop)

\* enroll_tenant up to its RPC: the request, or the refusal before any RPC.
EnrollTenantRequest(aid, tenant, namespace, pop, kind) ==
    LET wire == EnrollPopPb(pop) IN
    IF wire # None /\ IsRefusal(wire) THEN wire
    ELSE IF kind \notin EnrolmentKinds \cup {None} THEN Raise("value")
    ELSE [subject_aid |-> aid, tenant |-> tenant, namespace |-> namespace, pop |-> wire,
          kind |-> kind]
=============================================================================
