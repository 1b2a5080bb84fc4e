------------------------------ MODULE Verdicts ------------------------------
(***************************************************************************)
(* What the SDK concludes from an artefact it was handed: a streamed       *)
(* record, a chain-head attestation, a commitment token, an answer of the  *)
(* runtime.  Each operator is one verifier or decoder of crypto.py,        *)
(* admin.py, _authorize.py, _collective.py, _policy.py or _seal.py, with   *)
(* its checks in the code's order.                                         *)
(*                                                                         *)
(* Framing shows that a preimage determines its fields, so a digest is     *)
(* here the record of the fields it covers, and a signature the pair of a  *)
(* key and what it signs.                                                  *)
(***************************************************************************)
EXTENDS Values

CONSTANT Max64      \* stands for 2^64 - 1: the first number out of range is Max64 + 1

Digest(of) == [digest |-> of]
-----------------------------------------------------------------------------
(* record_digest_v4: a slot is None, a text or byte string, or Odd; "" is  *)
(* the empty one and "short" a digest of another length than 32.           *)

\* _sub_digest: absent-when-mandatory, wrong type and wrong length are all the
\* same refusal.
SubDigest(r, f, optional) ==
    Check(/\ ~(optional /\ r[f] = None)
          /\ r[f] \in {None, "", "short", Odd},
          RaiseFor("strip", f))

\* Mutant: an empty text is present.
MutantEmptyIsText(r, f) ==
    IF r[f] = None THEN RaiseFor("strip", f) ELSE Check(r[f] = Odd, RaiseFor("type", f))

\* _mandatory_text: empty is absent.
MandatoryText(r, f) ==
    IF r[f] \in {None, ""} THEN RaiseFor("strip", f)
    ELSE Check(r[f] = Odd, RaiseFor("type", f))

\* _rd_text.
RdText(r, f, optional) ==
    Check(r[f] = Odd \/ (r[f] = None /\ ~optional), RaiseFor("type", f))

\* _uint_slot.
UintSlot(n) ==
    IF n = Odd THEN Raise("type") ELSE Check(n \notin 0 .. Max64, Raise("range"))

\* record_digest_v4: the version gate, then every slot, then the digest.
RecordDigestV4(r) ==
    FirstRefusal(
        <<Check(r.schema_version # 4, Raise("unsupported")),
          SubDigest(r, "context_digest", FALSE),
          SubDigest(r, "participation_digest", FALSE),
          SubDigest(r, "policy_rules_digest", TRUE),
          SubDigest(r, "participants_digest", FALSE),
          MandatoryText(r, "classification"),
          MandatoryText(r, "trust_basis_commitment"),
          MandatoryText(r, "auth_method"),
          Check(r.ciphertext_digest \in {None, Odd}, Raise("type")),
          RdText(r, "decision_id", FALSE), RdText(r, "tenant", FALSE),
          RdText(r, "namespace", FALSE), RdText(r, "outcome", FALSE),
          RdText(r, "mode", TRUE), RdText(r, "policy_version", TRUE), RdText(r, "supersedes", TRUE),
          UintSlot(r.sealed_at)>>,
        Digest(r))

\* verify_streamed_record_digest over an event: kind, digest (None when
\* unset) and the payload p; an unset optional text is None, any other unset
\* field its default.
VerifyStreamed(e) ==
    LET p == e.payload
        recomputed == RecordDigestV4([p EXCEPT !.policy_rules_digest =
                                         IF @ = "" THEN None ELSE @]) IN
    FirstRefusal(
        <<Check(e.kind # "DECISION_SEALED", Raise("value")),
          Check(p.schema_version # 4, Raise("unsupported")),
          Check(e.digest = None, Raise("value")),
          Check(p.ciphertext_digest = "", Answer(FALSE))>>,
        IF IsRefusal(recomputed) THEN recomputed ELSE Answer(recomputed = e.digest))
-----------------------------------------------------------------------------
(* verify_chain_head_attestation: the arguments are a record; "lone" is a  *)
(* text with a lone surrogate.                                             *)

IntSlots == {"attested_len", "attested_at", "digest_schema"}
OtherSlots == {"attested_head", "issuer_aid", "tenant", "signature"}

\* _require_int, _as_bytes and the str checks: every type is checked before
\* any range.
WrongTyped(a) == \E f \in IntSlots \cup OtherSlots : a[f] = Odd
OutOfRange(a) == \E f \in IntSlots : UintSlot(a[f]) # None

\* What is signed: the framing and the fields it covers.
HeadSigned(a, tenant) ==
    [framing |-> IF tenant = None THEN "v1" ELSE "v2", tenant |-> tenant,
     attested_len |-> a.attested_len, attested_head |-> a.attested_head,
     attested_at |-> a.attested_at, digest_schema |-> a.digest_schema,
     issuer_aid |-> a.issuer_aid]

\* `_aid_to_pubkey` and `from_public_bytes`: an AID that embeds no key fails.
KeyOf(aid) == IF aid \in {"no key", "lone"} THEN None ELSE aid

\* The digest is taken outside the try: a tenant that has no UTF-8 escapes.
VerifyChainHead(a) ==
    LET framing == IF a.tenant = "" THEN None ELSE a.tenant IN
    FirstRefusal(
        <<Check(WrongTyped(a), Raise("type")),
          Check(OutOfRange(a), Answer(FALSE)),
          Check(KeyOf(a.issuer_aid) = None, Answer(FALSE)),
          Check(framing = "lone", Raise("encode"))>>,
        Answer(a.signature = [key |-> KeyOf(a.issuer_aid), signed |-> HeadSigned(a, framing)]))

\* Mutant: the key is the one the message names.
MutantOwnIssuer(pinned, m) == VerifyChainHead(m)

\* verify_chain_head_attestation_message.
VerifyChainHeadMessage(pinned, m) ==
    FirstRefusal(
        <<Check(pinned = Odd, Raise("type")), Check(m.issuer_aid # pinned, Answer(FALSE))>>,
        VerifyChainHead([m EXCEPT !.issuer_aid = pinned]))
-----------------------------------------------------------------------------
(* verify_tct. *)

EntryKinds == {"vote", "evaluation", "objection", "ballot"}

\* explanation_digest: raises on an unknown kind or a confidence that is not
\* canonical, else covers the entries.
ExplanationDigest(entries) ==
    IF \E i \in DOMAIN entries : \/ entries[i].kind \notin EntryKinds
                                 \/ entries[i].confidence \in {"nan", "-0.0", "1.5", "true"}
    THEN Raise("value") ELSE Digest(entries)

\* Mutant: a published digest is believed without looking at the entries.
MutantPublishedWins(c) ==
    IF c.explanation_digest # None THEN c.explanation_digest
    ELSE ExplanationDigest(IF c.explanation = None THEN <<>> ELSE c.explanation)

\* _commitment_explanation_digest.
CommitmentExplanation(c) ==
    IF c.explanation = None
    THEN IF c.explanation_digest = None THEN ExplanationDigest(<<>>) ELSE c.explanation_digest
    ELSE LET computed == ExplanationDigest(c.explanation) IN
         IF IsRefusal(computed) \/ c.explanation_digest \in {None, computed} THEN computed
         ELSE Raise("value")

\* _seam_commitment_digest.
CommitmentDigest(c) ==
    LET why == CommitmentExplanation(c) IN
    IF IsRefusal(why) THEN why
    ELSE Digest([about |-> c.about, supersedes |-> c.supersedes,
                 committer |-> IF c.committer = None THEN "" ELSE c.committer, why |-> why])

\* int(exp): a number is counted in halves of a second and truncated to whole
\* seconds towards zero.
Truncated(halves) == IF halves >= 0 THEN halves \div 2 ELSE -((-halves) \div 2)

\* The expiry test: exp is a JSON number within int64 (not a bool, a string,
\* missing, too large or NaN), and now is strictly before it.
Expired(exp, now) ==
    \/ exp.type # "number"
    \/ now >= Truncated(exp.halves)

\* verify_tct: any failure, an exception included, is FALSE.
VerifyTct(issuer, t, c, now) ==
    LET claims == t.claims
        digest == CommitmentDigest(c) IN
    /\ t.parts = 3
    /\ KeyOf(issuer) # None /\ t.signature = [key |-> KeyOf(issuer), signed |-> <<t.header, claims>>]
    /\ ~t.header.duplicate /\ ~claims.duplicate
    /\ t.header.alg = "EdDSA" /\ t.header.typ = "aitp-tct+jwt"
    /\ claims.iss = claims.sub /\ claims.sub = claims.aud /\ claims.aud = issuer
    /\ ~Expired(claims.exp, now)
    /\ claims.grants = <<"aitp.attestation">>
    /\ claims.ext.keys = {"com.zer07labs.seam"} /\ claims.ext.fields = {"type", "commitment_digest"}
    /\ claims.ext.type = "seam:commitment"
    /\ ~IsRefusal(digest) /\ claims.ext.commitment_digest = digest

\* commitment_view of a served commitment: presence survives, a published
\* digest of no bytes is none, and an unknown kind becomes a word the digest
\* refuses.
EntryView(e) == [kind |-> IF e.kind \in EntryKinds THEN e.kind ELSE "<unknown kind>",
                 confidence |-> e.confidence]
CommitmentView(c) ==
    [c EXCEPT !.explanation = [i \in DOMAIN c.explanation |-> EntryView(c.explanation[i])]]

\* verify_decision over the proof fetched; the artefact is decoded outside
\* verify_tct's try.
VerifyDecision(expected, proof, now) ==
    FirstRefusal(
        <<Check(proof.issuer_aid # expected, Raise("issuer mismatch")),
          Check(proof.token = Odd, Raise("decode"))>>,
        Answer(VerifyTct(expected, proof.token, CommitmentView(proof.commitment), now)))
-----------------------------------------------------------------------------
(* build_authorize_request. *)

\* canonicalize_tool_input and _resolve_canonical: exactly one of the object
\* and the bytes, bytes that are immutable and not empty.  An object that
\* cannot be canonicalized (Odd) is the same typed refusal.
ResolveCanonical(a) ==
    IF a.canonical = None
    THEN CASE a.tool_input = Odd -> Raise("canonicalization")
           [] a.tool_input = None -> Digest("{}")
           [] OTHER -> Digest(a.tool_input)
    ELSE IF a.tool_input # None \/ a.canonical \in {Odd, ""} THEN Raise("canonicalization")
    ELSE Digest(a.canonical)

\* What call_sig_v3 signs.
CallSigned(ticket, digest, a) ==
    [ticket |-> ticket, tool_input_digest |-> digest, tool_name |-> a.tool_name,
     agent_id |-> a.agent_id, subject |-> a.subject, subjects |-> a.subjects,
     client_request_id |-> a.client_request_id, session_id |-> a.session_id,
     features |-> IF a.features = None THEN <<>> ELSE a.features]

\* Mutant: the features are signed as given and sent normalised.
MutantSignsRaw(agent, ticket, a) ==
    LET canonical == ResolveCanonical(a) IN
    IF IsRefusal(canonical) THEN canonical
    ELSE [ticket |-> ticket, tool_name |-> a.tool_name, tool_input_digest |-> canonical,
          call_sig |-> [key |-> agent,
                        signed |-> [CallSigned(ticket, canonical, a) EXCEPT !.features = a.features]],
          session_id |-> a.session_id, subject |-> a.subject, subjects |-> a.subjects,
          agent_id |-> a.agent_id, client_request_id |-> a.client_request_id,
          tool_input |-> IF a.digest_only THEN "" ELSE canonical.digest,
          features |-> IF a.features = None THEN <<>> ELSE a.features]

\* build_authorize_request: the request on the wire.
BuildAuthorizeRequest(agent, ticket, a) ==
    LET canonical == ResolveCanonical(a) IN
    IF IsRefusal(canonical) THEN canonical
    ELSE [ticket |-> ticket, tool_name |-> a.tool_name, tool_input_digest |-> canonical,
          call_sig |-> [key |-> agent, signed |-> CallSigned(ticket, canonical, a)],
          session_id |-> a.session_id, subject |-> a.subject, subjects |-> a.subjects,
          agent_id |-> a.agent_id, client_request_id |-> a.client_request_id,
          tool_input |-> IF a.digest_only THEN "" ELSE canonical.digest,
          features |-> IF a.features = None THEN <<>> ELSE a.features]

\* The runtime's check of a request it received (external): it rebuilds the
\* payload from the wire, and the digest from the input when one is carried.
RuntimeAccepts(agent, req) ==
    /\ req.call_sig = [key |-> agent, signed |-> CallSigned(req.ticket, req.tool_input_digest, req)]
    /\ req.tool_input # "" => Digest(req.tool_input) = req.tool_input_digest

-----------------------------------------------------------------------------
(* Decoders of the runtime's answers.  A wire enum is an integer.          *)

AuthorizeVerdicts == [n \in 1 .. 4 |-> <<"ALLOW", "DENY", "TRANSFORM", "ESCALATE">>[n]]
CollectiveVerdicts ==
    [n \in 1 .. 5 |-> <<"APPROVED", "DECLINED", "SPLIT", "ESCALATED", "NO_VOTES">>[n]]
Availabilities ==
    [n \in 1 .. 6 |-> <<"RECORDED", "NOT_RECORDED", "KEY_UNAVAILABLE", "ARCHIVED",
                        "CLEARANCE_DENIED", "UNAVAILABLE">>[n]]
Reasons == [n \in 1 .. 4 |-> <<"COMMIT", "CANCEL", "EXPIRE_TTL", "EXPIRE_SUSPEND_CAP">>[n]]

\* result_of.
ResultOf(resp) ==
    IF resp.verdict \notin DOMAIN AuthorizeVerdicts THEN Raise("unknown verdict")
    ELSE LET name == AuthorizeVerdicts[resp.verdict] IN
         IF name = "TRANSFORM" /\ resp.transformed_input = "" THEN Raise("protocol violation")
         ELSE [verdict |-> name,
               transformed_input |-> IF name = "TRANSFORM" THEN resp.transformed_input ELSE None]

\* _decode_collective.
DecodeCollective(o) ==
    IF o.verdict \notin DOMAIN CollectiveVerdicts THEN Raise("unknown verdict")
    ELSE [verdict |-> CollectiveVerdicts[o.verdict], effective_threshold |-> o.effective_threshold]

\* collective_outcome_of.
CollectiveOutcomeOf(resp) ==
    IF resp.collective_outcome = None THEN None ELSE DecodeCollective(resp.collective_outcome)

\* policy_enforcement_of: HasField is asked of the message and of its id, since
\* an absent field reads as its default.
PolicyEnforcementOf(resp) ==
    LET wire == resp.policy_enforcement IN
    IF ~wire.present THEN None
    ELSE [enforced |-> wire.enforced,
          policy_id |-> IF wire.id_present THEN wire.policy_id ELSE None]

\* seal_attestation_of: the payload is read only under RECORDED, the collective
\* outcome only under COMMIT.
Named(names, n) == IF n \in DOMAIN names THEN names[n] ELSE "UNRECOGNIZED"

\* Mutant: the outcome is read whatever the reason and the availability.
MutantReadsAlways(view) ==
    IF view.seal_attestation = None THEN None
    ELSE LET att == view.seal_attestation IN
         [availability |-> Named(Availabilities, att.availability),
          seal_reason |-> Named(Reasons, att.seal_reason),
          collective_outcome |-> IF att.collective_outcome = None THEN None
                                 ELSE DecodeCollective(att.collective_outcome)]

SealAttestationOf(view) ==
    IF view.seal_attestation = None THEN None
    ELSE LET att == view.seal_attestation
             availability == Named(Availabilities, att.availability)
             reason == Named(Reasons, att.seal_reason)
             outcome == IF reason = "COMMIT" /\ att.collective_outcome # None
                        THEN DecodeCollective(att.collective_outcome) ELSE None IN
         IF availability # "RECORDED"
         THEN [availability |-> availability, seal_reason |-> None, collective_outcome |-> None]
         ELSE IF outcome # None /\ IsRefusal(outcome) THEN outcome
         ELSE [availability |-> availability, seal_reason |-> reason, collective_outcome |-> outcome]
=============================================================================
