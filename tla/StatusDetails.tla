--------------------------- MODULE StatusDetails ---------------------------
(***************************************************************************)
(* Typed errors (errors.py): the mapping of a gRPC error to a SeamRpcError *)
(* and the hand-written protobuf reader that takes the reason, its         *)
(* metadata and the retry delay out of grpc-status-details-bin.            *)
(*                                                                         *)
(* Buffers are sequences of bytes in the protobuf wire format.  A text is  *)
(* a sequence of bytes too, short enough to keep the buffers small; a byte *)
(* from 128 on stands for invalid UTF-8.  Numbers are IntBits wide (the    *)
(* code's 64): a varint stops after IntBits - 1 bits of shift.             *)
(***************************************************************************)
EXTENDS Values, SequencesExt

CONSTANT IntBits     \* width of a varint

ASSUME StatusAssumption == IntBits \in 8 .. 28

ErrorInfoType == <<69>>
RetryInfoType == <<82>>
SeamDomain == <<100>>
SessionUnavailableReason == <<83>>
TenantMovingReason == <<84>>
ProtocolReason == <<80>>
WrongCellReason == <<87>>
MacpCodeKey == <<109>>

\* Results of a reader that may raise.
Ok(v) == [ok |-> TRUE, v |-> v]
Malformed == [ok |-> FALSE, v |-> None]
-----------------------------------------------------------------------------
(* The wire reader. *)

\* _varint at index i of buf: seven bits a byte, least significant first, up
\* to the first byte below 128.  `next` is the index after it.
Varint(buf, i) ==
    LET ends == {j \in i .. Len(buf) : buf[j] < 128 /\ 7 * (j - i) <= IntBits - 1} IN
    IF ends = {} THEN Malformed
    ELSE LET last == Min(ends)
             sum[j \in i .. last + 1] ==
                 IF j > last THEN 0 ELSE (buf[j] % 128) + 128 * sum[j + 1]
         IN  Ok([n |-> sum[i], next |-> last + 1])

\* Mutant: a slice past the end of the buffer is not noticed.
MutantShortSlice(buf, len) ==
    IF ~len.ok THEN Malformed
    ELSE Ok([n |-> SubSeq(buf, len.v.next, IF len.v.next + len.v.n - 1 > Len(buf) THEN Len(buf)
                                           ELSE len.v.next + len.v.n - 1),
             next |-> len.v.next + len.v.n])

\* The slice that follows its length.
Delimited(buf, len) ==
    IF ~len.ok \/ len.v.next + len.v.n - 1 > Len(buf) THEN Malformed
    ELSE Ok([n |-> SubSeq(buf, len.v.next, len.v.next + len.v.n - 1), next |-> len.v.next + len.v.n])

\* The value of a field of wire type wt at index i, and the index after it.
FieldValue(buf, i, wt) ==
    LET fixed(k) == IF i + k - 1 > Len(buf) THEN Malformed ELSE Ok([n |-> None, next |-> i + k])
    IN  CASE wt = 0 -> Varint(buf, i)
          [] wt = 1 -> fixed(8)
          [] wt = 2 -> Delimited(buf, Varint(buf, i))
          [] wt = 5 -> fixed(4)
          [] OTHER -> Malformed

\* The field behind a key.
Field(buf, key) ==
    IF ~key.ok THEN Malformed
    ELSE LET value == FieldValue(buf, key.v.next, key.v.n % 8) IN
         IF ~value.ok THEN Malformed
         ELSE Ok([num |-> key.v.n \div 8, wt |-> key.v.n % 8, v |-> value.v.n, next |-> value.v.next])

\* _fields: the fields read before the end of the buffer, or before the place
\* where the generator raises.
RECURSIVE FieldsFrom(_, _, _)
FieldsFrom(buf, i, read) ==
    IF i > Len(buf) THEN [fs |-> read, ok |-> TRUE]
    ELSE LET field == Field(buf, Varint(buf, i)) IN
         IF ~field.ok THEN [fs |-> read, ok |-> FALSE]
         ELSE FieldsFrom(buf, field.v.next, Append(read, field.v))

Fields(buf) == FieldsFrom(buf, 1, <<>>)

\* The values of length-delimited field num, in order.
ValuesOf(fs, num) ==
    LET mine == SelectSeq(fs, LAMBDA x : x.num = num /\ x.wt = 2) IN
    [k \in DOMAIN mine |-> mine[k].v]

\* The last of them, as a loop that overwrites leaves it.
LastOf(fs, num) == LET vs == ValuesOf(fs, num) IN IF vs = <<>> THEN <<>> ELSE Last(vs)

\* bytes.decode("utf-8") of every value of field num succeeds.
Utf8(fs, num) == \A v \in ToSet(ValuesOf(fs, num)) : \A c \in ToSet(v) : c < 128
-----------------------------------------------------------------------------
(* google.rpc messages; f is what Fields read of one.                      *)

\* google.protobuf.Any: the type URL and the value.
DecodeAny(f) ==
    IF f.ok /\ Utf8(f.fs, 1) THEN Ok([type |-> LastOf(f.fs, 1), value |-> LastOf(f.fs, 2)])
    ELSE Malformed

\* Every one of a list decodes, or none counts.
AllDecoded(xs) ==
    IF \A k \in DOMAIN xs : xs[k].ok THEN [k \in DOMAIN xs |-> xs[k].v] ELSE <<>>

AnysOf(f) ==
    IF ~f.ok THEN <<>>
    ELSE LET ds == ValuesOf(f.fs, 3) IN AllDecoded([k \in DOMAIN ds |-> DecodeAny(Fields(ds[k]))])

\* _status_details: the last value under the details key, read to its end; a
\* payload that is absent, not bytes or malformed has no details.
Details(trailing) ==
    LET mine == IF trailing = None THEN {}
                ELSE {k \in DOMAIN trailing : trailing[k].key = "details"} IN
    IF mine = {} \/ trailing[Max(mine)].value.type # "bytes" THEN <<>>
    ELSE AnysOf(Fields(trailing[Max(mine)].value.bytes))

\* The metadata map: a later entry of a key overwrites an earlier one.
Metadata(entries) ==
    LET keyOf(e) == LastOf(e.fs, 1) IN
    [key \in {keyOf(e) : e \in ToSet(entries)} |->
        LastOf(Last(SelectSeq(entries, LAMBDA e : keyOf(e) = key)).fs, 2)]

InfoOf(f, entries) ==
    IF \A m \in {f} \cup ToSet(entries) : m.ok /\ Utf8(m.fs, 1) /\ Utf8(m.fs, 2)
    THEN Ok([reason |-> LastOf(f.fs, 1), domain |-> LastOf(f.fs, 2), metadata |-> Metadata(entries)])
    ELSE Malformed

\* _decode_error_info: reason, domain and the metadata map.
DecodeErrorInfo(f) ==
    LET es == ValuesOf(f.fs, 3) IN InfoOf(f, [k \in DOMAIN es |-> Fields(es[k])])

\* Two's complement of a varint.
Signed(n) == IF n >= 2 ^ (IntBits - 1) THEN n - 2 ^ IntBits ELSE n

\* The Duration, whose last value of a field counts.
DurationOf(f) ==
    LET lastInt(num) == LET mine == SelectSeq(f.fs, LAMBDA x : x.num = num /\ x.wt = 0) IN
                        IF mine = <<>> THEN 0 ELSE Signed(Last(mine).v)
    IN  IF f.ok THEN [seconds |-> lastInt(1), nanos |-> lastInt(2)] ELSE None

\* _decode_retry_delay returns at the first Duration: what follows it in the
\* buffer is not read, what follows inside it is.
DecodeRetryDelay(f) ==
    LET durations == ValuesOf(f.fs, 1) IN
    IF durations = <<>> THEN None ELSE DurationOf(Fields(durations[1]))
-----------------------------------------------------------------------------
(* SeamRpcError. *)

\* The values of the details of a type.
OfType(ds, type) == SelectSeq(ds, LAMBDA d : d.type = type)

\* The first of Seam's domain; an ErrorInfo before it that does not decode
\* ends the search.
FirstSeamInfo(infos) ==
    LET at == SelectInSeq(infos, LAMBDA i : ~i.ok \/ i.v.domain = SeamDomain) IN
    IF at = 0 THEN None ELSE infos[at].v

\* _seam_error_info.
SeamErrorInfo(err) ==
    LET ds == OfType(Details(err.trailing), ErrorInfoType) IN
    FirstSeamInfo([k \in DOMAIN ds |-> DecodeErrorInfo(Fields(ds[k].value))])

ReasonOf(info) == IF info = None THEN None ELSE info.reason
Reason(err) == ReasonOf(SeamErrorInfo(err))

\* macp_code: only a PROTOCOL refusal has one.
MacpCodeOf(info) ==
    IF info = None \/ info.reason # ProtocolReason \/ MacpCodeKey \notin DOMAIN info.metadata
    THEN None ELSE info.metadata[MacpCodeKey]
MacpCode(err) == MacpCodeOf(SeamErrorInfo(err))

\* retry_after: the first RetryInfo decides, decodable or not.
RetryAfter(err) ==
    LET ds == OfType(Details(err.trailing), RetryInfoType) IN
    IF ds = <<>> THEN None ELSE DecodeRetryDelay(Fields(ds[1].value))

IsSessionUnavailable(err) ==
    err.class = "UNAVAILABLE" /\ Reason(err) = SessionUnavailableReason
IsTenantMoving(err) ==
    err.class = "FAILED_PRECONDITION" /\ Reason(err) = TenantMovingReason
IsWrongCell(err) ==
    err.class = "FAILED_PRECONDITION" /\ Reason(err) = WrongCellReason
IsRetryable(err) == IsSessionUnavailable(err) \/ IsTenantMoving(err)

\* _BY_CODE: the codes with a class of their own; all others are InternalError.
ByCode == {"INVALID_ARGUMENT", "FAILED_PRECONDITION", "PERMISSION_DENIED", "UNAUTHENTICATED",
           "NOT_FOUND", "ALREADY_EXISTS", "RESOURCE_EXHAUSTED", "UNAVAILABLE",
           "DEADLINE_EXCEEDED", "UNIMPLEMENTED", "INTERNAL"}

\* _normalized_trailing: pairs, or None for what is not pairs.
NormalizedTrailing(raw) == IF raw = Odd THEN None ELSE raw

\* map_rpc_error: a typed error is returned as it is; a missing code is
\* UNKNOWN; a trailing-metadata accessor that is missing or raises is None.
MapRpcError(exc) ==
    IF exc.typed THEN exc.err
    ELSE [class |-> IF exc.code \in ByCode THEN exc.code ELSE "INTERNAL",
          trailing |-> IF exc.accessor = "returns" THEN NormalizedTrailing(exc.raw) ELSE None]
=============================================================================
