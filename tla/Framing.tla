------------------------------ MODULE Framing ------------------------------
(***************************************************************************)
(* The byte strings the SDK signs and hashes (crypto.py): how fields are   *)
(* framed, and the payload of every signature and digest.                  *)
(*                                                                         *)
(* A text or byte string is a sequence of bytes.  The fixed-width integer  *)
(* encodings of struct.pack are constants of which only the width and      *)
(* one-to-oneness matter.  A digest is an atom of a byte string: SHA-256   *)
(* is taken to be collision free, and a payload stands for its digest.     *)
(* Payloads nest to the right, field by field, as b"".join builds them.    *)
(***************************************************************************)
EXTENDS Integers, Sequences

CONSTANTS Byte,      \* the bytes a field may hold
          MaxLen,    \* the largest length, count or number of 32 bits
          MaxNum,    \* the largest number of 64 bits
          Le32(_),   \* struct.pack("<I", n)
          Le64(_),   \* struct.pack("<Q", n)
          Be64(_),   \* n.to_bytes(8, "big")
          Tag,       \* the domain tag of each payload, by name
          Absent     \* the Python None of an optional field

\* The kinds whose tag is framed with be64; "pop" is not framed at all, the
\* others are framed with u32le.
BeTagNames == {"commitment", "explanation"}
TagNames == {"call v2", "call v3", "request", "enroll", "commitment", "explanation",
             "participants", "context", "record", "head v1", "head v2", "pop"}

\* Integers are encoded in a fixed width, one to one, and no two payload
\* kinds share a tag.
ASSUME FramingAssumption ==
    /\ MaxLen \in Nat /\ MaxNum \in Nat /\ MaxLen <= MaxNum
    /\ {0, 1} \subseteq Byte /\ Absent \notin Seq(Byte)
    /\ Len(Le32(0)) <= MaxLen /\ Len(Le64(0)) <= MaxLen
    /\ \A n \in 0 .. MaxLen : Le32(n) \in Seq(Byte) /\ Len(Le32(n)) = Len(Le32(0))
    /\ \A n \in 0 .. MaxNum : Le64(n) \in Seq(Byte) /\ Len(Le64(n)) = Len(Le64(0))
    /\ \A n \in 0 .. MaxNum : Be64(n) \in Seq(Byte) /\ Len(Be64(n)) = Len(Be64(0))
    /\ \A m, n \in 0 .. MaxLen : Le32(m) = Le32(n) => m = n
    /\ \A m, n \in 0 .. MaxNum : Le64(m) = Le64(n) => m = n
    /\ \A m, n \in 0 .. MaxNum : Be64(m) = Be64(n) => m = n
    /\ \A name \in TagNames : Tag[name] \in Seq(Byte) /\ Len(Tag[name]) <= MaxLen
    /\ \A a, b \in TagNames : Tag[a] = Tag[b] => a = b

\* The first byte tells the three ways to open a payload apart: the tags are 18
\* to 36 bytes long, so it is that length in little endian, 0 in big endian and
\* the letter "a" of the tag that is not framed.
ASSUME OpeningAssumption ==
    /\ Len(Le32(0)) > 0 /\ Len(Be64(0)) > 0 /\ Tag["pop"] # <<>>
    /\ \A a \in TagNames \ BeTagNames : a # "pop" => Le32(Len(Tag[a]))[1] # Tag["pop"][1]
    /\ \A b \in BeTagNames : Be64(Len(Tag[b]))[1] # Tag["pop"][1]
    /\ \A a \in TagNames \ BeTagNames, b \in BeTagNames :
          a # "pop" => Le32(Len(Tag[a]))[1] # Be64(Len(Tag[b]))[1]

\* Byte strings short enough for their length to be encoded.
Text == {s \in Seq(Byte) : Len(s) <= MaxLen}
OptText == Text \cup {Absent}

\* What each payload of fixed shape is computed from.
SignedCalls == [ticket : Text, input_digest : Text, tool_name : Text, agent_id : Text]
SignedRequests == [ticket : Text, rpc_full_name : Text, resource_id : Text, body_digest : Text]
Enrolments == [subject_aid : Text, tenant : Text, namespace : Text, issued_at_ms : 0 .. MaxNum,
               nonce : Text]
Commitments == [id : Text, action : Text, authority : Text, supersedes : OptText,
                auth_method : Text, trust_basis : Text, committer : OptText,
                explanation_digest : Text]
Records == [decision_id : Text, tenant : Text, namespace : Text, ciphertext_digest : Text,
            sealed_at : 0 .. MaxNum, outcome : Text, mode : OptText, policy_version : OptText,
            supersedes : OptText, context_digest : Text, participation_digest : Text,
            policy_rules_digest : OptText, classification : Text, participants_digest : Text,
            trust_basis_commitment : Text, auth_method : Text, schema_version : 0 .. MaxLen]
Attestations == [attested_len : 0 .. MaxNum, attested_head : Text, attested_at : 0 .. MaxNum,
                 digest_schema : 0 .. MaxLen, issuer_aid : Text, tenant : OptText]
-----------------------------------------------------------------------------
(* Fields. *)

\* _frame: u32le(len) || x.
Frame(x) == Le32(Len(x)) \o x

\* _be64_frame: be64(len) || x.
BeFrame(x) == Be64(Len(x)) \o x

\* _rd_opt_text and _opt_bytes: a presence byte, then the frame.
Opt(x) == IF x = Absent THEN <<0>> ELSE <<1>> \o Frame(x)

\* The same for supersedes and rationale_ref, framed with be64.
BeOpt(x) == IF x = Absent THEN <<0>> ELSE <<1>> \o BeFrame(x)

\* The fields of a list one after the other.
Concat(parts) ==
    LET joined[n \in 0 .. Len(parts)] == IF n = 0 THEN <<>> ELSE joined[n - 1] \o parts[n]
    IN  joined[Len(parts)]

\* Mutant: the items of a list without their lengths.
MutantBareItems(xs) == Concat(xs)

Frames(xs) == Concat([i \in DOMAIN xs |-> Frame(xs[i])])

\* How the payload of a kind starts: its tag, framed as the kind frames.
Opening(kind) ==
    IF kind = "pop" THEN Tag[kind] ELSE IF kind \in BeTagNames THEN BeFrame(Tag[kind]) ELSE Frame(Tag[kind])
-----------------------------------------------------------------------------
(* Payloads of fixed shape. *)

\* call_sig_payload.
CallSigPayload(r) ==
    Opening("call v2") \o (Frame(r.ticket) \o (Frame(r.input_digest)
        \o (Frame(r.tool_name) \o Frame(r.agent_id))))

\* request_sig_payload.
RequestSigPayload(r) ==
    Opening("request") \o (Frame(r.ticket) \o (Frame(r.rpc_full_name)
        \o (Frame(r.resource_id) \o Frame(r.body_digest))))

\* enroll_pop_payload.
EnrollPopPayload(r) ==
    Opening("enroll") \o (Frame(r.subject_aid) \o (Frame(r.tenant) \o (Frame(r.namespace)
        \o (Frame(Le64(r.issued_at_ms)) \o Frame(r.nonce)))))

\* The committer as it is hashed: an absent one is the empty text.
Committer(c) == IF c.committer = Absent THEN <<>> ELSE c.committer

\* _seam_commitment_digest.
CommitmentPayload(c) ==
    Opening("commitment") \o (BeFrame(c.id) \o (BeFrame(c.action) \o (BeFrame(c.authority)
        \o (BeOpt(c.supersedes) \o (BeFrame(c.auth_method) \o (BeFrame(c.trust_basis)
        \o (BeFrame(Committer(c)) \o BeFrame(c.explanation_digest))))))))

\* record_digest_v4.
RecordPayload(r) ==
    Opening("record") \o (Frame(r.decision_id) \o (Frame(r.tenant) \o (Frame(r.namespace)
        \o (Frame(r.ciphertext_digest) \o (Frame(Le64(r.sealed_at)) \o (Frame(r.outcome)
        \o (Opt(r.mode) \o (Opt(r.policy_version) \o (Opt(r.supersedes)
        \o (Frame(r.context_digest) \o (Frame(r.participation_digest)
        \o (Opt(r.policy_rules_digest) \o (Frame(r.classification)
        \o (Frame(r.participants_digest) \o (Frame(r.trust_basis_commitment)
        \o (Frame(r.auth_method) \o Frame(Le32(r.schema_version))))))))))))))))))

\* _chain_head_attestation_digest: without a tenant the v1 framing, with one
\* the v2 framing and one more frame.
HeadKind(a) == IF a.tenant = Absent THEN "head v1" ELSE "head v2"
TenantFrame(a) == IF a.tenant = Absent THEN <<>> ELSE Frame(a.tenant)
ChainHeadPayload(a) ==
    Opening(HeadKind(a)) \o (Frame(Le64(a.attested_len)) \o (Frame(a.attested_head)
        \o (Frame(Le64(a.attested_at)) \o (Frame(Le32(a.digest_schema))
        \o (Frame(a.issuer_aid) \o TenantFrame(a))))))
-----------------------------------------------------------------------------
(* Payloads that hold a list. *)

\* call_sig_v3_payload: subjects in the order sent, features by `keys`, their
\* keys sorted by bytes, both counts framed.
CallSigV3Payload(r, keys) ==
    Opening("call v3") \o Concat(
           <<Frame(r.ticket), Frame(r.input_digest), Frame(r.tool_name), Frame(r.agent_id),
             Frame(r.subject), Frame(Le32(Len(r.subjects))), Frames(r.subjects),
             Frame(r.client_request_id), Frame(r.session_id), Frame(Le32(Len(keys))),
             Concat([i \in DOMAIN keys |-> Frame(keys[i]) \o Frame(r.features[keys[i]])])>>)

\* participants_digest_v4: a bare count, ids in stored order.
ParticipantsPayload(ids) ==
    Opening("participants") \o (Le32(Len(ids)) \o Frames(ids))

\* One row of context_digest_v4.
BindingPayload(b) ==
    Concat(<<Frame(b.ctx_ref), Frame(b.fidelity), Frame(b.classification), Opt(b.lineage_id),
             Frame(Le32(b.version)), Le32(Len(b.derived_from)), Frames(b.derived_from),
             Opt(b.content_hash), Opt(b.receipt_hash), Opt(b.key_status),
             Opt(b.resolved_status), Opt(b.receipt_key_status)>>)

\* context_digest_v4 refuses, before it hashes a byte, a binding whose
\* receipt_key_status and receipt_hash do not come together or whose status
\* is not of the closed vocabulary.
BindingRefused(b, statuses) ==
    \/ (b.receipt_key_status = Absent) # (b.receipt_hash = Absent)
    \/ b.receipt_key_status # Absent /\ b.receipt_key_status \notin statuses

ContextPayload(bs, statuses) ==
    IF \E i \in DOMAIN bs : BindingRefused(bs[i], statuses) THEN Absent
    ELSE Opening("context") \o (Le32(Len(bs))
             \o Concat([i \in DOMAIN bs |-> BindingPayload(bs[i])]))

\* One entry of explanation_digest: five frames, then the confidence (eight
\* packed bytes, an atom here) and the rationale reference with a presence
\* byte each.
EntryPayload(e) ==
    Concat(<<BeFrame(e.kind), BeFrame(e.participant), BeFrame(e.proposal_id), BeFrame(e.value),
             BeFrame(e.reason),
             IF e.confidence = Absent THEN <<0>> ELSE <<1>> \o Le64(e.confidence),
             BeOpt(e.rationale_ref)>>)

ExplanationPayload(es) ==
    Opening("explanation") \o (Be64(Len(es))
        \o Concat([i \in DOMAIN es |-> EntryPayload(es[i])]))

\* build_presentation: NUL-terminated texts, the raw nonce last and
\* unterminated.
PresentationPayload(p) ==
    Opening("pop") \o Concat(<<p.sender_aid, <<0>>, p.receiver_aid, <<0>>, p.message_id, <<0>>,
                               p.timestamp, <<0>>, p.nonce>>)
=============================================================================
