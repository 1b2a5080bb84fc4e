--------------------------- MODULE EncodingChecks ---------------------------
(***************************************************************************)
(* What the SDK writes and reads byte by byte: the payloads it signs and   *)
(* hashes, the error details it decodes and the JSON it canonicalizes.     *)
(***************************************************************************)
EXTENDS Probes, Framing, StatusDetails, Jcs

CONSTANT MaxInt       \* the largest integer written as JSON
-----------------------------------------------------------------------------
(* Payloads, over small sets of fields.                                    *)

Texts == {<<>>, <<1>>, <<1, 1>>}
OptTexts == {Absent, <<>>, <<1>>}

CallsV3 ==
    [ticket : {<<1>>}, input_digest : {<<1>>}, tool_name : Texts, agent_id : {<<>>},
     subject : {<<>>, <<1>>}, subjects : UpTo({<<>>, <<1>>}, 2), client_request_id : {<<>>, <<1>>},
     session_id : {<<1>>},
     features : UNION {[K -> {<<>>, <<1>>}] : K \in SUBSET {<<1>>, <<1, 1>>}}]
Bindings ==
    [ctx_ref : {<<>>, <<1>>}, fidelity : {<<1>>}, classification : {<<1>>}, lineage_id : OptTexts,
     version : {1}, derived_from : UpTo({<<>>, <<1>>}, 1), content_hash : {Absent, <<1>>},
     receipt_hash : {Absent, <<1>>}, key_status : {Absent}, resolved_status : {Absent},
     receipt_key_status : {Absent, <<1>>, <<1, 1>>}]
Entries ==
    [kind : {<<1>>}, participant : {<<>>, <<1>>}, proposal_id : {<<>>}, value : Texts,
     reason : {<<>>}, confidence : {Absent, 0, 1}, rationale_ref : OptTexts]
SmallBindings == {b \in Bindings : b.content_hash = Absent /\ b.lineage_id = b.receipt_hash}
SmallEntries == {e \in Entries : e.confidence # 1 /\ e.rationale_ref # <<>>}
\* pop_message_id: of one width, without a NUL, derived from the nonce.
PopMessageId(nonce) == <<1 + (Len(nonce) % 3), 1 + Cardinality({i \in DOMAIN nonce : nonce[i] = 0})>>
\* Among the nonces and receivers, ones that hold what stands next to them.
Nonces == UpTo({0, 1}, 2) \cup {PopMessageId(<<1>>) \o <<0, 1, 0, 1>>, <<1, 1, 0, 1, 0, 1>>}
Receivers == UpTo({0, 1}, 2) \cup {<<0>> \o PopMessageId(nonce) \o <<0, 1>> : nonce \in Nonces}
Presentations ==
    {p \in [sender_aid : {<<1, 1>>, <<1, 2>>}, receiver_aid : Receivers, nonce : Nonces,
            message_id : {PopMessageId(nonce) : nonce \in Nonces}, timestamp : {<<1>>, <<1, 1>>}] :
        p.message_id = PopMessageId(p.nonce)}

\* The closed vocabulary of receipt_key_status.
Statuses == {<<1>>}

SortedKeys(keys) == SetToSortSeq(keys, UnitLess)

\* The inputs of a kind that are not refused, and the payloads they give.
Inputs(kind) ==
    CASE kind = "call v3" -> CallsV3
      [] kind = "participants" -> UpTo(Texts, 3)
      [] kind = "context" -> {bs \in UpTo(Bindings, 1) \cup UpTo(SmallBindings, 2) :
                                 ContextPayload(bs, Statuses) # Absent}
      [] kind = "explanation" -> UpTo(Entries, 1) \cup UpTo(SmallEntries, 2)
      [] kind = "pop" -> Presentations
PayloadOf(kind, v) ==
    CASE kind = "call v3" -> CallSigV3Payload(v, SortedKeys(DOMAIN v.features))
      [] kind = "participants" -> ParticipantsPayload(v)
      [] kind = "context" -> ContextPayload(v, Statuses)
      [] kind = "explanation" -> ExplanationPayload(v)
      [] kind = "pop" -> PresentationPayload(v)

\* The sets of inputs of a kind whose payloads must differ.  The challenge's
\* receiver_aid is signed as it came and ends at a NUL: a presentation is known
\* from its bytes when that text holds none, or when all nonces have one length.
Alternatives(kind) ==
    IF kind # "pop" THEN {Inputs(kind)}
    ELSE {{p \in Presentations : \A i \in DOMAIN p.receiver_aid : p.receiver_aid[i] # 0}}
         \cup {{p \in Presentations : Len(p.nonce) = Len(nonce)} : nonce \in Nonces}

PickPayload ==
    /\ Fresh
    /\ \E kind \in {"call v3", "participants", "context", "explanation", "pop"} :
          probe' = Probe("payload", kind, kind)

\* The payload of a call, a list of participants, a context, an explanation or
\* a presentation tells its fields, the length and order of every list and the
\* presence of every optional field: as many payloads as inputs, so two
\* different inputs never sign or hash the same bytes.  For presentations, which
\* separate their texts by NULs, this is said of receivers without a NUL and of
\* nonces of one length (call_sig_v3_payload, participants_digest_v4,
\* context_digest_v4, explanation_digest, build_presentation).
PayloadsTellApart ==
    Of("payload") =>
        \A inputs \in Alternatives(probe.x) :
            Cardinality({PayloadOf(probe.x, v) : v \in inputs}) = Cardinality(inputs)
-----------------------------------------------------------------------------
(* Errors: the details a runtime encodes (external), cut anywhere.         *)

VarintBytes(n) == IF n < 128 THEN <<n>> ELSE <<(n % 128) + 128, n \div 128>>
BytesField(num, bytes) == <<8 * num + 2, Len(bytes)>> \o bytes
IntField(num, n) == IF n = 0 THEN <<>> ELSE <<8 * num>> \o VarintBytes(n % (2 ^ IntBits))

ErrorInfo(reason, domain, macp) == [type |-> ErrorInfoType, reason |-> reason, domain |-> domain, macp |-> macp]
RetryInfo(seconds, nanos) == [type |-> RetryInfoType, delay |-> [seconds |-> seconds, nanos |-> nanos]]

EncodedDetail(d) ==
    BytesField(1, d.type) \o BytesField(2,
        IF d.type = ErrorInfoType
        THEN BytesField(1, d.reason) \o BytesField(2, d.domain)
             \o (IF d.macp = None THEN <<>>
                 ELSE BytesField(3, BytesField(1, MacpCodeKey) \o BytesField(2, d.macp)))
        ELSE BytesField(1, IntField(1, d.delay.seconds) \o IntField(2, d.delay.nanos)))
EncodedStatus(ds) ==
    IntField(1, 9) \o FlattenSeq([i \in DOMAIN ds |-> BytesField(3, EncodedDetail(ds[i]))])

SentDetails ==
    {ErrorInfo(SessionUnavailableReason, SeamDomain, None), ErrorInfo(TenantMovingReason, SeamDomain, None),
     ErrorInfo(ProtocolReason, SeamDomain, <<7>>), ErrorInfo(WrongCellReason, SeamDomain, <<7>>),
     ErrorInfo(SessionUnavailableReason, <<102>>, None),
     RetryInfo(1, 0), RetryInfo(200, 5), RetryInfo(0, -5), RetryInfo(-1, 0)}

\* The exception as the stub raises it; `accessor` is what trailing_metadata
\* does.
Raised(code, accessor, bytes) ==
    [typed |-> FALSE, code |-> code, accessor |-> accessor,
     raw |-> <<[key |-> "other", value |-> [type |-> "text"]],
               [key |-> "details", value |-> [type |-> "bytes", bytes |-> bytes]]>>]

PickError ==
    /\ Fresh
    /\ \E ds \in UpTo(SentDetails, 2), code \in {"UNAVAILABLE", "FAILED_PRECONDITION", "ABORTED"},
          accessor \in {"returns", "raises"} :
            probe' = Probe("error", Raised(code, accessor, EncodedStatus(ds)), ds)

\* The buffer is cut: what a broken transport leaves of it.
CutError ==
    /\ Of("error") /\ probe.x.accessor = "returns" /\ probe.x.code = "UNAVAILABLE" /\ probe.damage = 0
    /\ \E n \in 0 .. Len(probe.x.raw[2].value.bytes) - 1 :
            Damaged([probe.x EXCEPT !.raw[2].value.bytes = SubSeq(@, 1, n)])

\* What the details sent say: the first of Seam's infos, the first delay.
FirstOr(ds, Test(_), none) == LET at == SelectInSeq(ds, Test) IN IF at = 0 THEN none ELSE ds[at]
SentInfo(ds) ==
    FirstOr(ds, LAMBDA d : d.type = ErrorInfoType /\ d.domain = SeamDomain, ErrorInfo(None, None, None))
SentDelay(ds) == FirstOr(ds, LAMBDA d : d.type = RetryInfoType, [delay |-> None]).delay

\* A typed error says what the runtime attached: the reason of the first
\* ErrorInfo of Seam's domain wherever it stands among the details, its
\* macp_code only with a PROTOCOL reason, the first retry delay with its sign,
\* and is_retryable exactly for the two reasons under the code that goes with
\* each.  Details cut at any byte are silent or say what was sent, never
\* something else (map_rpc_error, _fields, _status_details, reason, macp_code,
\* retry_after, is_retryable).
TypedAsSent ==
    Of("error") =>
        LET err == MapRpcError(probe.x)
            seen == IF probe.x.accessor = "returns" THEN probe.was ELSE <<>>
            info == SentInfo(seen)
            macp == IF info.reason = ProtocolReason THEN info.macp ELSE None
            silent == IF probe.damage = 0 THEN {} ELSE {None} IN
        /\ Reason(err) \in {info.reason} \cup silent
        /\ RetryAfter(err) \in {SentDelay(seen)} \cup silent
        /\ MacpCode(err) \in {macp} \cup silent
        /\ IsWrongCell(err) <=> probe.x.code = "FAILED_PRECONDITION" /\ Reason(err) = WrongCellReason
        /\ IsRetryable(err) <=> <<probe.x.code, Reason(err)>> \in
               {<<"UNAVAILABLE", SessionUnavailableReason>>, <<"FAILED_PRECONDITION", TenantMovingReason>>}
-----------------------------------------------------------------------------
(* Canonical JSON.                                                         *)

PickInt == Fresh /\ \E n \in -MaxInt .. MaxInt : probe' = Probe("int", n, n)

\* An integer the SDK writes is written as a peer that reads numbers as
\* doubles writes it, and every integer of the safe range is written.
IntegerAsDouble(n) ==
    /\ JcsInt(n) # Odd => JcsInt(n) = JcsNumber(Float(n))
    /\ Abs(n) <= MaxSafeInt => JcsInt(n) # Odd

Str(s) == [t |-> "str", s |-> s]
Num(type, n) == [t |-> type, n |-> n]
Keys == {<<3>>, <<3, 3>>, <<6>>, <<Astral>>, <<LoneSurrogate>>}
Dicts ==
    {[t |-> "dict", entries |-> es] :
        es \in {es \in UpTo([key : Keys, value : {Num("int", 1), Str(<<>>)}], 2) :
                    \A i, j \in DOMAIN es : es[i].key = es[j].key => i = j}}
JsonValues ==
    [t : {"null", "true", "false", "other"}]
    \cup [t : {"int"}, n : -20 .. 20]
    \cup [t : {"float"}, n : {n \in -20 .. 20 : Float(n) = n}]
    \cup [t : {"str"}, s : UpTo({0, Quote, Backslash, 3, LoneSurrogate, 6, Astral}, 2)]
    \cup [t : {"list"}, items : UpTo({Num("int", 1), Str(<<Quote>>), [t |-> "null"]}, 2)]
    \cup Dicts

\* What a value says: numbers of the two types are one number, and a dict is
\* the set of its entries.
Meaning(v) ==
    CASE v.t \in {"int", "float"} -> [t |-> "number", n |-> v.n]
      [] v.t = "dict" -> [t |-> "dict", entries |-> ToSet(v.entries)]
      [] OTHER -> v

\* What every value says, beside the bytes it is written as.
Written == {<<Meaning(v), JcsWrite(v)>> : v \in JsonValues}

PickJson == Fresh /\ \E v \in JsonValues : probe' = Probe("json", v, v)

\* Two values that are written have the same bytes exactly when they say the
\* same, however their dicts were filled, and values that say the same are
\* refused together; an integer has the bytes a peer with doubles gives it
\* (jcs_canonicalize, _jcs_int, tool_input_digest).
CanonicalBytes ==
    /\ Of("int") => IntegerAsDouble(probe.x)
    /\ Of("json") =>
          LET bytes == JcsWrite(probe.x) IN
          \A w \in Written :
              IF w[1] = Meaning(probe.x) THEN w[2] = bytes ELSE w[2] = bytes => bytes = Odd
=============================================================================
