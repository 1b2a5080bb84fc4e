--------------------------- MODULE VerdictChecks ----------------------------
(***************************************************************************)
(* What the SDK concludes from an artefact that was damaged after its      *)
(* producer made it, and from answers and requests.                        *)
(***************************************************************************)
EXTENDS Probes, Enrolment

CONSTANT WireInts     \* what a wire enum may hold, known to this build or not

\* The texts, exceptions and slots that the verifiers tell apart by name.
MarkedTexts ==
    {"", "short", "lone", "no key", "long", "bad char", "nan", "-0.0", "1.5", "true",
     "h", "i", "k1", "t1", "m", "n", "d", "t", "other"}
Errors ==
    {"type", "range", "unsupported", "value", "encode", "issuer mismatch", "decode",
     "canonicalization", "unknown verdict", "protocol violation"}
Slots ==
    {"context_digest", "participation_digest", "policy_rules_digest", "participants_digest",
     "classification", "trust_basis_commitment", "auth_method", "decision_id", "tenant",
     "namespace", "outcome", "mode", "policy_version", "supersedes"}
-----------------------------------------------------------------------------
(* Sealed records, as the event stream carries them.                       *)

\* proto3 hands an unset digest to the verifier as the empty string.
Canon(p) == [p EXCEPT !.policy_rules_digest = IF @ = "" THEN None ELSE @]

SealedPayloads ==
    [decision_id : {"t"}, tenant : {"t"}, namespace : {"t"}, ciphertext_digest : {"d"}, sealed_at : {1},
     outcome : {"t"}, mode : {None, "t"}, policy_version : {None}, supersedes : {None},
     context_digest : {"d"}, participation_digest : {"d"}, policy_rules_digest : {"", "d"},
     classification : {"t"}, participants_digest : {"d"}, trust_basis_commitment : {"t"},
     auth_method : {"t"}, schema_version : {4}]

MandatoryDigests == {"context_digest", "participation_digest", "participants_digest"}
MandatoryTexts == {"classification", "trust_basis_commitment", "auth_method"}

\* What a field may be found to hold instead.
WrongValues(f) ==
    CASE f \in MandatoryDigests \cup {"policy_rules_digest"} -> {"", "short", "other"}
      [] f \in {"mode", "policy_version", "supersedes"} -> {None, "", "other"}
      [] f = "sealed_at" -> {0, Max64}
      [] f = "schema_version" -> {0, 5}
      [] OTHER -> {"", "other"}

\* The runtime seals the record and streams it (external).
PickRecord ==
    /\ Fresh
    /\ \E p \in SealedPayloads :
          LET e == [kind |-> "DECISION_SEALED", digest |-> Digest(Canon(p)), payload |-> p] IN
          probe' = Probe("record", e, e)

DamageRecord ==
    /\ Of("record")
    /\ \/ \E f \in DOMAIN probe.x.payload : \E v \in WrongValues(f) :
             Damaged([probe.x EXCEPT !.payload[f] = v])
       \/ \E d \in {None, Digest(Canon([probe.was.payload EXCEPT !.decision_id = "another"]))} :
             Damaged([probe.x EXCEPT !.digest = d])
       \/ Damaged([probe.x EXCEPT !.kind = "AUDIT_ENTRY"])

\* The mandatory fields a payload does not hold, in any form of absence.
StrippedSlots(p) ==
    {f \in MandatoryDigests : p[f] \in {"", "short"}} \cup {f \in MandatoryTexts : p[f] = ""}
    \cup {f \in {"policy_rules_digest"} : p[f] = "short"}

RecordJudged(x, was) ==
    LET v == VerifyStreamed(x) IN
    /\ v = Answer(TRUE) <=> [x EXCEPT !.payload = Canon(@)] = [was EXCEPT !.payload = Canon(@)]
    /\ IsRefusal(v) /\ v.raised = "strip" => v.field \in StrippedSlots(x.payload)
    /\ /\ StrippedSlots(x.payload) # {} /\ x.kind = "DECISION_SEALED" /\ x.payload.schema_version = 4
       /\ x.digest # None /\ x.payload.ciphertext_digest # ""
       => IsRefusal(v) /\ v.raised = "strip"

\* A streamed record verifies exactly when it is the one that was sealed; a
\* mandatory field that was stripped from it is reported as a strip that names
\* a stripped field, never as an ordinary mismatch (verify_streamed_record_digest,
\* record_digest_v4).
StreamedVerdict == Of("record") => RecordJudged(probe.x, probe.was)
-----------------------------------------------------------------------------
(* Chain-head attestations.                                                *)

TenantOf(a) == IF a.tenant = "" THEN None ELSE a.tenant

SignedBy(key, a) ==
    [a EXCEPT !.issuer_aid = key,
              !.signature = [key |-> key, signed |-> HeadSigned([a EXCEPT !.issuer_aid = key], TenantOf(a))]]

\* What the runtime of key k1 serves (external).
ServedHead(tenant) ==
    SignedBy("k1", [attested_len |-> 1, attested_head |-> "h", attested_at |-> 1, digest_schema |-> 1,
                    issuer_aid |-> "k1", tenant |-> tenant, signature |-> None])

PickHead ==
    /\ Fresh
    /\ \E tenant \in {None, "", "t1"} : probe' = Probe("head", ServedHead(tenant), ServedHead(tenant))

DamageHead ==
    /\ Of("head")
    /\ \/ \E f \in IntSlots, v \in {Odd, 0, -1, Max64 + 1} : Damaged([probe.x EXCEPT ![f] = v])
       \/ \E v \in {Odd, "h2"} : Damaged([probe.x EXCEPT !.attested_head = v])
       \/ \E v \in {Odd, None, "", "t2", "lone"} : Damaged([probe.x EXCEPT !.tenant = v])
       \/ \E v \in {Odd, "k2", "no key"} : Damaged([probe.x EXCEPT !.issuer_aid = v])
       \/ \E v \in {Odd, [key |-> None, signed |-> None]} : Damaged([probe.x EXCEPT !.signature = v])
       \/ ~WrongTyped(probe.x) /\ Damaged(SignedBy("k2", probe.x))

SameHead(a, b) ==
    TenantOf(a) = TenantOf(b) /\ \A f \in DOMAIN a \ {"tenant"} : a[f] = b[f]

HeadJudged(pinned, x, was) ==
    LET v == VerifyChainHead(x) IN
    /\ VerifyChainHeadMessage(pinned, x) = Answer(TRUE) <=> SameHead(x, was)
    /\ IF WrongTyped(x) THEN v = Raise("type")
       ELSE IsRefusal(v) => v = Raise("encode") /\ x.tenant = "lone"

\* Against a pinned issuer only the attestation that issuer signed is TRUE, a
\* tenant of "" being none; one that someone else signed and named themselves
\* in is not.  A value of the wrong type is a TypeError whatever else is wrong,
\* and any other damage is FALSE, raised by nothing except a tenant that has no
\* UTF-8 form (verify_chain_head_attestation and its message form).
HeadVerdict == Of("head") => HeadJudged("k1", probe.x, probe.was)
-----------------------------------------------------------------------------
(* Commitments and their tokens.                                           *)

Entry(kind, confidence) == [kind |-> kind, confidence |-> confidence]

TctFor(key, c, halves) ==
    LET header == [alg |-> "EdDSA", typ |-> "aitp-tct+jwt", duplicate |-> FALSE]
        claims == [iss |-> key, sub |-> key, aud |-> key, duplicate |-> FALSE,
                   exp |-> [type |-> "number", halves |-> halves], grants |-> <<"aitp.attestation">>,
                   ext |-> [keys |-> {"com.zer07labs.seam"}, fields |-> {"type", "commitment_digest"},
                            type |-> "seam:commitment", commitment_digest |-> CommitmentDigest(c)]] IN
    [parts |-> 3, header |-> header, claims |-> claims,
     signature |-> [key |-> key, signed |-> <<header, claims>>]]

\* What the runtime of key k1 serves for a decision (external).
ServedProof(c, halves) == [issuer_aid |-> "k1", token |-> TctFor("k1", c, halves), commitment |-> c]
Reversed(e) == [i \in 1 .. Len(e) |-> e[(Len(e) - i) + 1]]
Explanations == {<<>>, <<Entry("vote", "0.5")>>, <<Entry("vote", None), Entry("ballot", "0.5")>>}
AnyEntry == [kind : EntryKinds \cup {"veto", "<unknown kind>"}, confidence : {None, "0.5", "0.1"}]
ServedCommitments ==
    UNION {[about : {"a"}, supersedes : {None}, committer : {"", "m"}, explanation : {e},
            explanation_digest : {None, Digest(e)}] : e \in Explanations}

PickProof ==
    /\ Fresh
    /\ \E c \in ServedCommitments, halves \in {3, 4} :
          probe' = Probe("proof", ServedProof(c, halves), ServedProof(c, halves))

DamageProof ==
    /\ Of("proof")
    /\ \/ \E c \in {[probe.x.commitment EXCEPT !.about = "b"],
                    [probe.x.commitment EXCEPT !.supersedes = ""],
                    [probe.x.commitment EXCEPT !.committer = "n"],
                    [probe.x.commitment EXCEPT !.explanation_digest = None],
                    [probe.x.commitment EXCEPT !.explanation_digest = Digest(<<Entry("vote", "0.1")>>)],
                    [probe.x.commitment EXCEPT !.explanation = <<Entry("vote", "0.1")>>],
                    [probe.x.commitment EXCEPT !.explanation = <<Entry("veto", "0.5")>>],
                    [probe.x.commitment EXCEPT !.explanation = Reversed(@)],
                    [probe.x.commitment EXCEPT !.explanation = <<>>]} :
             Damaged([probe.x EXCEPT !.commitment = c])
       \/ Damaged([probe.x EXCEPT !.issuer_aid = "k2"])
       \/ Damaged([probe.x EXCEPT !.token = Odd])
       \/ /\ probe.x.token # Odd
          /\ \/ \E exp \in {[type |-> "number", halves |-> 8], [type |-> "text", halves |-> 8]} :
                   Damaged([probe.x EXCEPT !.token.claims.exp = exp])
             \/ Damaged([probe.x EXCEPT !.token.parts = 2])
             \/ Damaged([probe.x EXCEPT !.token.header.alg = "none"])
             \/ Damaged([probe.x EXCEPT !.token.claims.duplicate = TRUE])
             \/ Damaged([probe.x EXCEPT !.token = TctFor("k2", probe.x.commitment, 8)])

\* The entries a commitment shows are those of the digest it publishes, if any.
Consistent(c) == c.explanation_digest \in {None, Digest(c.explanation)}

\* A token without the entries vouches for the commitment it signs and for the
\* digest that was published of them, and for no other.
PublishedDigestStands(issuer, x, was) ==
    LET c == [x.commitment EXCEPT !.explanation = None] IN
    VerifyTct(issuer, x.token, c, 0) =>
        /\ c.about = was.commitment.about /\ c.committer = was.commitment.committer
        /\ (IF c.explanation_digest = None THEN Digest(<<>>) ELSE c.explanation_digest)
               = Digest(was.commitment.explanation)

SameDecision(x, was) ==
    /\ x.token = was.token /\ Consistent(x.commitment)
    /\ [x.commitment EXCEPT !.explanation_digest = None]
           = [was.commitment EXCEPT !.explanation_digest = None]

DecisionJudged(issuer, x, was, now) ==
    LET v == VerifyDecision(issuer, x, now) IN
    IF x.issuer_aid # issuer THEN v = Raise("issuer mismatch")
    ELSE IF x.token = Odd THEN v = Raise("decode")
    ELSE v = Answer(SameDecision(x, was) /\ now < was.token.claims.exp.halves \div 2)

\* A decision verifies exactly when the token is the one the pinned issuer
\* signed, the commitment is the one it signs with every entry of its
\* explanation (or, without them, their published digest), and it has not
\* expired; another issuer and bytes that are no text are raised and never a
\* verdict (verify_decision, verify_tct, _commitment_explanation_digest).
DecisionVerdict ==
    Of("proof") =>
        /\ \A now \in 0 .. 3 : DecisionJudged("k1", probe.x, probe.was, now)
        /\ probe.x.token # Odd => PublishedDigestStands("k1", probe.x, probe.was)
-----------------------------------------------------------------------------
(* Answers of the runtime, and requests to it.                             *)

Outcomes == {None} \cup [verdict : WireInts, effective_threshold : {1}]

\* policy_enforcement on the wire: an absent field holds its default.
Policies ==
    {p \in [present : BOOLEAN, enforced : BOOLEAN, id_present : BOOLEAN, policy_id : {"", "t"}] :
        /\ ~p.present => ~p.enforced /\ ~p.id_present
        /\ ~p.id_present => p.policy_id = ""}

PickAnswer ==
    /\ Fresh
    /\ \E verdict, availability, reason \in WireInts, input \in {"", "i"}, outcome \in Outcomes,
          policy \in Policies :
          LET x == [verdict |-> verdict, policy_enforcement |-> policy, transformed_input |-> input,
                    collective_outcome |-> outcome,
                    seal_attestation |-> [availability |-> availability, seal_reason |-> reason,
                                          collective_outcome |-> outcome]] IN
          probe' = Probe("answer", x, x)

Known(outcome) == outcome # None /\ outcome.verdict \in DOMAIN CollectiveVerdicts

FailsClosed(x) ==
    LET result == ResultOf(x)
        seal == SealAttestationOf(x)
        outcome == CollectiveOutcomeOf(x)
        binding == x.seal_attestation.availability = 1 /\ x.seal_attestation.seal_reason = 1 IN
    /\ IsRefusal(result) <=> x.verdict \notin 1 .. 4 \/ (x.verdict = 3 /\ x.transformed_input = "")
    /\ ~IsRefusal(result) => (result.transformed_input # None <=> x.verdict = 3)
    /\ outcome # None /\ ~IsRefusal(outcome) => Known(x.collective_outcome)
    /\ IsRefusal(seal) <=> binding /\ x.collective_outcome # None /\ ~Known(x.collective_outcome)
    /\ ~IsRefusal(seal) /\ seal.collective_outcome # None => binding
    /\ \A p \in Policies :
          PolicyEnforcementOf([policy_enforcement |-> p]) = PolicyEnforcementOf(x)
              => p = x.policy_enforcement

\* A value this build does not know never becomes one it knows: an unknown
\* verdict is refused, a TRANSFORM comes with its input, and a collective
\* outcome is read, and can be refused, only under the seal that makes it
\* mean something; and two policy statements that differ on the wire are read
\* differently, so that an absent one is not one that says no, nor an absent
\* policy id an empty one (result_of, collective_outcome_of,
\* seal_attestation_of, policy_enforcement_of).
AnswersFailClosed == Of("answer") => FailsClosed(probe.x)

PickRequest ==
    /\ Fresh
    /\ \E x \in [tool_input : {None, "i", Odd}, canonical : {None, "c", "", Odd}, tool_name : {"t"},
                 agent_id : {"", "a"}, subject : {"s"}, subjects : {<<>>, <<"s">>},
                 client_request_id : {""}, session_id : {"", "x"}, features : {None, <<>>, <<"f">>},
                 digest_only : BOOLEAN] :
          probe' = Probe("request", x, x)

BuiltVerifies(agent, ticket, x) ==
    LET r == BuildAuthorizeRequest(agent, ticket, x) IN
    /\ IsRefusal(r) <=> \/ x.tool_input # None /\ x.canonical # None
                        \/ x.tool_input = Odd \/ x.canonical \in {Odd, ""}
    /\ ~IsRefusal(r) => RuntimeAccepts(agent, r) /\ (x.digest_only => r.tool_input = "")

\* A request that is built verifies at the runtime, which has only the wire to
\* rebuild the signed payload from: what is normalised is normalised before it
\* is signed, the digest sent is that of the input sent, and with digest_only
\* no input leaves.  It is refused exactly when the input is ambiguous or
\* cannot be canonicalized (build_authorize_request).
AuthorizationVerifies == Of("request") => BuiltVerifies("k1", "ticket", probe.x)
-----------------------------------------------------------------------------
(* Enrolments: an agent mints a proof, or the operator has none.           *)

PickEnrolment ==
    /\ Fresh
    /\ \E nonce \in {"n", "", "long", "bad char", Odd}, at \in {0, Max64, Max64 + 1, -1, Odd},
          kind \in EnrolmentKinds \cup {None, "", "admin"} :
          LET pop == EnrollPop("k1", "t", "s", at, nonce)
              x == [subject_aid |-> "k1", tenant |-> "t", namespace |-> "s", kind |-> kind,
                    pop |-> IF IsRefusal(pop) THEN None ELSE pop] IN
          probe' = Probe("enrolment", x, x)

\* The operator enrols another AID, or under another tenant or namespace, than
\* the proof speaks for, or passes a proof that is damaged.
DamageEnrolment ==
    /\ Of("enrolment") /\ probe.x.pop \notin {None, Odd}
    /\ \/ \E f \in {"subject_aid", "tenant", "namespace"} :
            Damaged([probe.x EXCEPT ![f] = "other"])
       \/ Damaged([probe.x EXCEPT !.pop = Odd])
       \/ \E at \in {1, -1, Odd, Max64 + 1} : Damaged([probe.x EXCEPT !.pop.issued_at_ms = at])
       \/ \E nonce \in {"m", "", Odd} : Damaged([probe.x EXCEPT !.pop.nonce = nonce])
       \/ Damaged([probe.x EXCEPT !.pop.signature = Odd])
       \/ probe.x.pop.signature # Odd /\ Damaged([probe.x EXCEPT !.pop.signature.len = 63])

WellFormed(pop) ==
    /\ pop # Odd /\ pop.nonce \notin {"", "long", "bad char", Odd} /\ pop.issued_at_ms # Odd
    /\ pop.issued_at_ms \in 0 .. Max64 /\ pop.signature # Odd /\ pop.signature.len = 64

ConsentCarried(x, was) ==
    LET r == EnrollTenantRequest(x.subject_aid, x.tenant, x.namespace, x.pop, x.kind) IN
    /\ IsRefusal(r) <=> \/ x.pop # None /\ ~WellFormed(x.pop)
                        \/ x.kind \notin EnrolmentKinds \cup {None}
    /\ ~IsRefusal(r) =>
          /\ r.pop = None <=> x.pop = None
          /\ r.kind = None <=> x.kind = None
          /\ r.pop # None =>
                (VerifyEnrollPop(r.subject_aid, r.tenant, r.namespace, r.pop) <=> x = was)

\* An enrolment leaves with the agent's consent exactly as the agent signed it,
\* or without any: a proof the runtime could not even parse, or a kind outside
\* the closed set, is refused before the RPC, an absent proof or kind stays
\* absent, and the proof verifies at the runtime for the request it arrives
\* with just when the agent signed that subject, tenant and namespace
\* (enroll_pop, _enroll_pop_pb, enroll_tenant).
EnrolmentCarriesConsent == Of("enrolment") => ConsentCarried(probe.x, probe.was)

\* Whatever the client signs is sent so that the runtime can verify it: the
\* authorize requests and the enrolments it builds.
RequestsVerify == AuthorizationVerifies /\ EnrolmentCarriesConsent
-----------------------------------------------------------------------------
VerdictNext ==
    \/ PickRecord \/ DamageRecord \/ PickHead \/ DamageHead \/ PickProof \/ DamageProof
    \/ PickAnswer \/ PickRequest \/ PickEnrolment \/ DamageEnrolment

VerdictSpec == Unprobed /\ [][VerdictNext]_probe
-----------------------------------------------------------------------------
\* None and Odd are neither texts nor numbers, and None is no record: in the
\* code it is Python's None, and Odd a value of a type the code does not take.
ASSUME VerdictAssumption ==
    /\ Max64 \in Nat \ {0} /\ None # Odd /\ WireInts \subseteq Int
    /\ \A v \in {None, Odd} : v \notin MarkedTexts /\ v \notin Int
    /\ \A e \in Errors : Raise(e) # None
    /\ \A f \in Slots : RaiseFor("strip", f) # None /\ RaiseFor("type", f) # None
    /\ Answer(FALSE) # None
    /\ None \notin [verdict : {CollectiveVerdicts[n] : n \in 1 .. 5}, effective_threshold : Int]

\* The same of the values that the inputs are made of.
ASSUME InputsAssumption ==
    /\ \A p \in SealedPayloads : Digest(Canon(p)) # None
    /\ \A tenant \in {None, "", "t1"} : ServedHead(tenant).signature # Odd
    /\ \A c \in ServedCommitments, halves \in {3, 4} : TctFor("k1", c, halves) # Odd
    /\ \A n \in 0 .. 2 : None \notin [1 .. n -> AnyEntry]
    /\ None \notin [availability : Int, seal_reason : Int, collective_outcome : Outcomes]
    /\ None \notin [enforced : BOOLEAN, policy_id : {None, "", "t"}]
=============================================================================
