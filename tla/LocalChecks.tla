---------------------------- MODULE LocalChecks ----------------------------
(***************************************************************************)
(* What the SDK checks and converts on its own before it sends or uses a   *)
(* value: session and decision ids (ids.py), outcome reports (_outcome.py, *)
(* client.py), the loaders of the identity file (identity.py) and the      *)
(* tenant header (tenant.py, admin.py).                                    *)
(*                                                                         *)
(* A text is a sequence of characters: "4" is a hex digit that is a UUID   *)
(* version this SDK takes (4 or 7), "h" and "H" are any other hex digit in *)
(* lower and in upper case, "-" is a dash and ":" a colon.  Lengths are    *)
(* scaled down: <<x, "-", v>> is the shape of a UUID, v its version.       *)
(***************************************************************************)
EXTENDS Values, SequencesExt

CONSTANTS TokenMin,   \* SESSION_ID_TOKEN_MIN_LEN
          IdMax,      \* SESSION_ID_MAX_BYTES, and the cap of a tenant
          Micro,      \* microseconds of a millisecond
          Day,        \* milliseconds of a day, as a day of a timedelta
          MaxMillis   \* _U64_MAX; later than any datetime

TokenChars == {"h", "H", "4", "-"}
LowerHex == {"h", "4"}
Hex == LowerHex \cup {"H"}
IsToken(s) == s # <<>> /\ \A i \in DOMAIN s : s[i] \in TokenChars
IsUuidShape(s) == Len(s) = 3 /\ s[1] \in Hex /\ s[2] = "-" /\ s[3] \in Hex
IsCanonicalUuid(s) == s[1] \in LowerHex /\ s[3] = "4"

\* _session_refusal: TRUE when the id is accepted.
SessionAccepted(s) ==
    /\ s # Odd
    /\ Len(s) <= IdMax
    /\ IF IsUuidShape(s) THEN IsCanonicalUuid(s) ELSE IsToken(s) /\ Len(s) >= TokenMin

\* Mutant: a tenant with a colon.
MutantColonTenant(t) ==
    t # Odd /\ t # <<>> /\ (\A i \in DOMAIN t : t[i] \in TokenChars \cup {":"}) /\ Len(t) <= IdMax

\* _check_tenant.
TenantAccepted(t) == t # Odd /\ IsToken(t) /\ Len(t) <= IdMax

\* decision_id_for_session; Odd stands for InvalidDecisionIdError.
DecPrefix == <<"d", ":">>
DecisionIdForSession(t, s) ==
    IF TenantAccepted(t) /\ SessionAccepted(s) THEN DecPrefix \o t \o <<":">> \o s ELSE Odd

\* str.partition(":"): what is before the first colon and after it.
Partition(s) ==
    LET at == SelectInSeq(s, LAMBDA c : c = ":") IN
    [found |-> at > 0,
     before |-> IF at > 0 THEN SubSeq(s, 1, at - 1) ELSE s,
     after |-> IF at > 0 THEN SubSeq(s, at + 1, Len(s)) ELSE <<>>]

\* parse_decision_id.
ParseDecisionId(id) ==
    IF ~IsPrefix(DecPrefix, id) THEN Odd
    ELSE LET halves == Partition(SubSeq(id, 3, Len(id))) IN
         IF halves.found /\ TenantAccepted(halves.before) /\ SessionAccepted(halves.after)
         THEN [tenant |-> halves.before, session_id |-> halves.after] ELSE Odd
-----------------------------------------------------------------------------
(* Outcome reports. *)

\* datetime - _EPOCH: a timedelta is a number of days, of which only the first
\* component is negative, then seconds and microseconds of the day.
Timedelta(micros) ==
    [days |-> micros \div (Day * Micro), rest |-> micros % (Day * Micro)]

\* _observed_at_millis of a datetime (given as microseconds since the epoch,
\* None when naive) or of integer milliseconds.
Millis(ms) == IF ms \in 0 .. MaxMillis THEN ms ELSE Odd
ObservedAtMillis(at) ==
    CASE at.type = "naive" -> Odd
      [] at.type = "datetime" ->
           LET td == Timedelta(at.value) IN Millis(td.days * Day + td.rest \div Micro)
      [] at.type = "int" -> Millis(at.value)
      [] OTHER -> Odd

\* _finite: bools and non-numbers are type errors, an int beyond the range of a
\* double, NaN and the infinities value errors.
Finite(v) == v \notin {"bool", "text", "nan", "inf", "10^400"}

\* check_outcome_fields and _set_outcome_fields: the fields set on the request,
\* or Odd; an empty mapping of metrics is an absent one.
OutcomeFields(reward, metrics, at, metricsMax) ==
    LET ms == IF at = None THEN None ELSE ObservedAtMillis(at) IN
    IF \/ reward # None /\ ~Finite(reward)
       \/ metrics # None /\ \/ Len(metrics) > metricsMax
                              \/ \E i \in DOMAIN metrics : ~metrics[i].keyOk \/ ~Finite(metrics[i].value)
       \/ ms = Odd
    THEN Odd
    ELSE [reward |-> reward,
          metrics |-> IF metrics = None THEN <<>> ELSE metrics,
          observed_at_millis |-> ms]

-----------------------------------------------------------------------------
(* The identity file: a JSON object with a version, a seed (its public AID *)
(* stands for it), three facts and perhaps a recorded aid.                 *)

\* _read_and_validate: the first refusal of the one validator, or None.
Validate(f) ==
    CASE f = None -> "no file"
      [] f = Odd -> "not JSON"
      [] f # None /\ f # Odd /\ f.version # 1 -> "version"
      [] f # None /\ f # Odd /\ f.version = 1 /\ f.seed = "short" -> "seed length"
      [] f # None /\ f # Odd /\ f.version = 1 /\ f.seed = "not hex" -> "seed hex"
      [] OTHER -> IF f.missing # {} THEN "missing"
                  ELSE IF f.aid = "malformed" THEN "aid malformed" ELSE None

\* load_identity_file: the recorded aid is verified against the seed.
LoadIdentityFile(f) ==
    IF Validate(f) # None THEN [error |-> Validate(f)]
    ELSE IF f.aid \notin {None, f.seed} THEN [error |-> "aid mismatch"]
    ELSE [aid |-> f.seed]

\* load_identity_facts: a recorded aid is returned as the file's claim, an
\* absent one derived (_derive_aid).
LoadIdentityFacts(f) ==
    IF Validate(f) # None THEN [error |-> Validate(f)]
    ELSE [aid |-> IF f.aid = None THEN f.seed ELSE f.aid]
-----------------------------------------------------------------------------
(* The tenant header.  Metadata is a sequence of pairs.                    *)

Header == "x-seam-tenant"

\* _with_tenant.
WithTenant(metadata, tenant) ==
    IF \E i \in DOMAIN metadata : metadata[i].key = Header THEN metadata
    ELSE Append(metadata, [key |-> Header, value |-> tenant])

\* A client built with a tenant intercepts every call (_require_tenant refuses
\* an empty one, and no interceptor is installed for None).
Intercepted(metadata, clientTenant) ==
    IF clientTenant = None THEN metadata ELSE WithTenant(metadata, clientTenant)

\* _tenant_metadata of a legal-hold call: presence, not truthiness.
TenantMetadata(tenant) ==
    IF tenant = None THEN <<>> ELSE <<[key |-> Header, value |-> tenant]>>
=============================================================================
