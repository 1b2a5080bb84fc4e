---------------------------- MODULE InputChecks -----------------------------
(***************************************************************************)
(* What the SDK makes of a caller's input before anything is sent: ids,    *)
(* outcome reports, the identity file, the tenant header, and the token,   *)
(* key, audience and URL of a management client.                           *)
(***************************************************************************)
EXTENDS Probes, LocalChecks, MgmtAuth

CONSTANT MaxInstant   \* the latest instant of a report, in microseconds
-----------------------------------------------------------------------------
(* Decision ids.                                                           *)

Tenants == UpTo({"h", "-", ":"}, 2) \cup {Odd}
SessionIds == UpTo({"h", "H", "4", "-", ":"}, 3) \cup {Odd}
IdTails == UpTo({"h", "4", "-", ":"}, 5)

PickId ==
    /\ Fresh
    /\ \/ \E t \in Tenants, s \in SessionIds :
             probe' = Probe("id", DecisionIdForSession(t, s), [tenant |-> t, session_id |-> s])
       \/ \E w \in IdTails : probe' = Probe("id", DecPrefix \o w, None)

\* A decision id names one tenant and one session: what is built parses to
\* what it was built from, what parses is built again from its parts, and a
\* session that is a UUID has one spelling, since the token rule does not take
\* what the UUID rule refuses (decision_id_for_session, parse_decision_id).
IdsRoundTrip ==
    Of("id") /\ probe.x # Odd =>
        LET parsed == ParseDecisionId(probe.x) IN
        /\ probe.was # None => parsed = probe.was
        /\ parsed # Odd =>
              /\ DecisionIdForSession(parsed.tenant, parsed.session_id) = probe.x
              /\ IsUuidShape(parsed.session_id) => parsed.session_id = Lower(parsed.session_id)
-----------------------------------------------------------------------------
(* Outcome reports.                                                        *)

Rewards == {None, "1.0", "nan", "bool"}
Metrics ==
    {None} \cup UpTo([keyOk : BOOLEAN, value : {"1.0", "inf"}], 2)
Instants ==
    {None} \cup [type : {"naive", "text"}, value : {0}]
    \cup [type : {"datetime", "int"}, value : -MaxInstant .. MaxInstant]

PickReport ==
    /\ Fresh
    /\ \E reward \in Rewards, metrics \in Metrics, at \in Instants :
          /\ at \in [type : {"datetime"}, value : {0, 1}] \/ (reward = None /\ metrics = None)
          /\ LET x == [reward |-> reward, metrics |-> metrics, at |-> at] IN
             probe' = Probe("report", x, x)

\* A report is sent as a whole or not at all, and the instant on it is the
\* millisecond the outcome was observed in, never rounded up.  It is refused
\* exactly when a part of it is malformed, or its instant lies before the
\* epoch by any fraction of a millisecond or does not fit a u64
\* (check_outcome_fields, _observed_at_millis).
InstantIsFloored ==
    Of("report") =>
        LET x == probe.x
            fields == OutcomeFields(x.reward, x.metrics, x.at, 1)
            At(type) == x.at # None /\ x.at.type = type
            early == (At("datetime") \/ At("int")) /\ x.at.value < 0
            late == At("int") /\ x.at.value > MaxMillis
            badMetric == \E i \in DOMAIN x.metrics : ~x.metrics[i].keyOk \/ x.metrics[i].value = "inf"
            malformed == \/ x.reward \in {"nan", "bool"} \/ At("naive") \/ At("text")
                         \/ x.metrics # None /\ (Len(x.metrics) > 1 \/ badMetric) IN
        /\ fields = Odd <=> early \/ late \/ malformed
        /\ fields # Odd /\ x.at # None =>
              LET ms == fields.observed_at_millis IN
              IF At("int") THEN ms = x.at.value
              ELSE ms * Micro <= x.at.value /\ x.at.value < (ms + 1) * Micro
-----------------------------------------------------------------------------
(* The identity file.                                                      *)

Files ==
    {None, Odd}
    \cup [version : {1, 2}, seed : {"k1", "short", "not hex"}, missing : SUBSET {"tenant", "namespace"},
          aid : {None, "k1", "k2", "malformed"}]

PickFile == Fresh /\ \E f \in Files : probe' = Probe("file", f, f)

\* The two loaders refuse the same files with the same refusal and name the
\* same agent, with one exception: a recorded aid that the seed does not give
\* is refused by the one that holds the seed and reported by the other
\* (load_identity_file, load_identity_facts, _read_and_validate).
LoadersAgree ==
    Of("file") =>
        LET file == LoadIdentityFile(probe.x)
            facts == LoadIdentityFacts(probe.x) IN
        file = facts \/ (file = [error |-> "aid mismatch"] /\ facts = [aid |-> probe.x.aid])
-----------------------------------------------------------------------------
(* The tenant header.                                                      *)

PickHeaders ==
    /\ Fresh
    /\ \E client, call \in {None, "", "t1", "t2"}, own \in {<<>>, <<[key |-> "other", value |-> "v"]>>} :
          /\ client # ""
          /\ probe' = Probe("headers", Intercepted(own \o TenantMetadata(call), client),
                            [client |-> client, call |-> call])

\* A call carries the tenant header at most once, and the tenant it names is
\* the call's own before the client's (TenantInterceptor, _tenant_metadata).
OneTenantHeader ==
    Of("headers") =>
        LET named == SelectSeq(probe.x, LAMBDA h : h.key = Header)
            tenant == IF probe.was.call # None THEN probe.was.call ELSE probe.was.client IN
        IF tenant = None THEN named = <<>> ELSE named = <<[key |-> Header, value |-> tenant]>>
-----------------------------------------------------------------------------
(* Management credentials.                                                 *)

Claims ==
    {Odd, [iss |-> "i"], [aud |-> "a1"]}
    \cup [cnf : {"k1", None, Odd}] \cup [cnf : {"k1"}, aud : {"a1", "a b", None, Odd}]
Tokens == {None, Odd} \cup [visible : BOOLEAN, claims : Claims]
Auds == {None, "", "a/b", "a1", DefaultAud, Odd}

PickPairing ==
    /\ Fresh
    /\ \E token \in Tokens, key \in {None, Odd, "k1", "k2"}, aud \in Auds,
          clock \in {None, "seconds", "broken"} :
          LET x == [token |-> token, key |-> key, aud |-> aud, clock |-> clock] IN
          probe' = Probe("pairing", x, x)

\* A client that connects with a token that can stand in a header sends
\* requests the runtime can accept: the scheme and the key are those the token
\* is bound to, whoever gives a DPoP key never falls back to Bearer or to
\* nothing, and only a named audience can be another than the runtime's.
PairingIsSound ==
    LET x == probe.x
        a == ManagementAuth(x.token, x.key, x.aud, x.clock) IN
    IF a = None THEN x.token = None /\ x.key = None
    ELSE ~IsRefusal(a) /\ a.token # Odd /\ a.token.visible =>
        LET r == [token |-> a.token, scheme |-> a.scheme, rpc |-> "rpc", args |-> "args",
                  proof |-> IF a.scheme = "DPoP" THEN ProofFor(a, "rpc", "args", 1) ELSE None]
            refusal == AuthRefusal(r, 0, {}, DefaultAud) IN
        /\ (a.scheme = "DPoP") = (x.key # None)
        /\ refusal \in {None, "audience"}
        /\ refusal = "audience" => x.aud = "a1" \/ (x.aud = None /\ x.token.claims.aud = "a1")

PickJwk ==
    /\ Fresh
    /\ LET jwk == [kty |-> "OKP", crv |-> "Ed25519", alg |-> "EdDSA", use |-> "sig", d |-> "k1", x |-> "k1"]
       IN  probe' = Probe("jwk", jwk, jwk)

\* A member is lost or replaced.
DamageJwk ==
    /\ Of("jwk") /\ probe.x # Odd
    /\ \/ \E f \in DOMAIN probe.x : Damaged([g \in DOMAIN probe.x \ {f} |-> probe.x[g]])
       \/ \E f \in DOMAIN probe.x \ {"d", "x"} : Damaged([probe.x EXCEPT ![f] = "other"])
       \/ \E f \in DOMAIN probe.x \cap {"d", "x"}, v \in {"k2", "padded", "31 bytes", Odd} :
             Damaged([probe.x EXCEPT ![f] = v])
       \/ Damaged(Odd)

\* A key is loaded only whole: the seed and the public key are both there, in
\* their one encoding, and belong together.
KeyIsWhole ==
    LET key == FromJwk(probe.x) IN
    ~IsRefusal(key) => /\ key.jkt \in {"k1", "k2"} /\ probe.x.x = key.jkt /\ probe.x.d = key.jkt
                       /\ \A f \in DOMAIN probe.x \ {"d", "x"} : probe.x[f] = probe.was[f]

\* Credentials that cannot work are refused before a channel exists: a key is
\* loaded whole or not at all, and a client that connects sends what the
\* runtime can accept (OperatorDpopKey.from_jwk, _management_auth).
CredentialsWork ==
    /\ Of("pairing") => PairingIsSound
    /\ Of("jwk") => KeyIsWhole

Parts ==
    [scheme : {"https", "HTTP", "http", "ftp"}, user : {<<>>, <<"h", "@">>},
     host : {<<"h">>, <<"H">>, <<"[", "h", "]">>, <<"[", "]">>, <<>>},
     port : {<<>>, <<":">>, <<":", "80">>, <<":", "0443">>, <<":", "8080">>, <<":", "8080", ":">>},
     path : {<<>>, <<"/", "H">>, <<"/", ":", "@">>}, rest : {<<>>, <<"?", "/", "H">>, <<"#", "@">>}]
Url(p) == <<p.scheme, "://">> \o p.user \o p.host \o p.port \o p.path \o p.rest

PickUrl == Fresh /\ \E p \in Parts : probe' = Probe("url", Url(p), p)

Refused(p) ==
    \/ p.scheme = "ftp" \/ p.user # <<>> \/ p.host \in {<<>>, <<"[", "]">>} \/ Len(p.port) > 2

\* The htu of a URL is that of the parts it was put together from, whatever of
\* them is missing: host in lower case, the port unless it is the scheme's
\* own, the path as it is, nothing of query or fragment, and no userinfo
\* (mgmt_dpop_http_htu).
HtuNamesTarget ==
    Of("url") =>
        LET p == probe.was
            port == IF Len(p.port) < 2 THEN None ELSE Ports[p.port[2]]
            own == IF p.scheme = "https" THEN "443" ELSE "80" IN
        HttpHtu(probe.x) =
            IF Refused(p) THEN Odd
            ELSE <<"https", "://">> \o (IF p.host = <<"H">> THEN <<"h">> ELSE p.host)
                 \o (IF port \in {None, own} THEN <<>> ELSE <<":", port>>)
                 \o (IF p.path = <<>> THEN <<"/">> ELSE p.path)
-----------------------------------------------------------------------------
\* What the SDK derives from a caller's input says what the input said: a
\* decision id its tenant and session, a report its instant, an identity the
\* agent of its seed, the tenant header the call's tenant, an htu its URL
\* (ids.py, _outcome.py, identity.py, tenant.py, mgmt_dpop_http_htu).
InputsKeepTheirMeaning ==
    IdsRoundTrip /\ InstantIsFloored /\ LoadersAgree /\ OneTenantHeader /\ HtuNamesTarget
=============================================================================
