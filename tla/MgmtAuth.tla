------------------------------ MODULE MgmtAuth ------------------------------
(***************************************************************************)
(* How a management client authenticates (admin.py, dpop.py): the pairing  *)
(* of operator token, DPoP key and audience that `connect` accepts, the    *)
(* proof it signs for a call, and the htu of a URL.                        *)
(*                                                                         *)
(* A key is named by its thumbprint.  A token is None (or empty), Odd (not *)
(* a string) or a record: `visible` when its text may stand in a header,   *)
(* `claims` the payload it decodes to, Odd when it is not a JWS with a     *)
(* JSON object inside.  A claim that is absent is no field of `claims`; a  *)
(* JSON null is None.                                                      *)
(***************************************************************************)
EXTENDS Values

CONSTANT Window      \* how far the iat of a proof may be off at the runtime

DefaultAud == "seam-runtime"

\* An audience of visible characters and without a slash.
AudIsPlain(aud) == aud \notin {"", "a/b", "a b", Odd}

\* _b64url_32 refuses a member that is no string, no unpadded base64url, not 32
\* bytes, or not the canonical encoding of its bytes.
NotKeyBytes(member) == member \in {Odd, "padded", "31 bytes", "stray bits"}

\* OperatorDpopKey.from_jwk: the thumbprint, or the first refusal.  `d` names
\* the key it is the seed of.
FromJwk(jwk) ==
    LET has(f) == f \in DOMAIN jwk IN
    IF jwk = Odd THEN Raise("key")
    ELSE FirstRefusal(
        <<Check(~has("kty") \/ ~has("crv"), Raise("key")),
          Check(has("kty") /\ jwk.kty # "OKP", Raise("key")),
          Check(has("crv") /\ jwk.crv # "Ed25519", Raise("key")),
          Check(has("alg") /\ jwk.alg \notin {"EdDSA", "Ed25519"}, Raise("key")),
          Check(has("use") /\ jwk.use # "sig", Raise("key")),
          Check(~has("d") \/ ~has("x"), Raise("key")),
          Check(has("d") /\ NotKeyBytes(jwk.d), Raise("key")),
          Check(has("x") /\ NotKeyBytes(jwk.x), Raise("key")),
          Check(has("x") /\ has("d") /\ jwk.x # jwk.d, Raise("key"))>>,
        [jkt |-> jwk.d])

\* _check_token and _peek_token_claims: the claims, unverified.
PeekTokenClaims(token) ==
    IF token \in {None, Odd} THEN Raise("dpop")
    ELSE FirstRefusal(<<Check(~token.visible, Raise("dpop")), Check(token.claims = Odd, Raise("key"))>>,
                      token.claims)

\* _token_cnf_jkt: absent and null are no binding, anything but an object with
\* a text thumbprint is malformed.
TokenCnfJkt(claims) ==
    IF "cnf" \notin DOMAIN claims \/ claims.cnf = None THEN None
    ELSE IF claims.cnf = Odd THEN Raise("key") ELSE [jkt |-> claims.cnf]

\* _resolve_operator_aud.
ResolveOperatorAud(explicit, claims) ==
    LET aud == IF explicit # None THEN explicit
               ELSE IF "aud" \notin DOMAIN claims THEN DefaultAud ELSE claims.aud IN
    FirstRefusal(<<Check(explicit = None /\ aud \in {Odd, None}, Raise("key")),
                   Check(~AudIsPlain(aud), Raise("dpop"))>>, [aud |-> aud])

\* The test that a bound token is not sent as Bearer: by the presence of cnf;
\* a token that does not decode is opaque and not bound.
IsBound(token) ==
    LET claims == PeekTokenClaims(token) IN ~IsRefusal(claims) /\ "cnf" \in DOMAIN claims

\* A clock that, probed once, gives integer seconds.
ClockWorks(clock) == clock \in {None, "seconds"}

\* Mutant: the token's binding is not compared with the key.
MutantAnyKey(token, key, aud, clock) ==
    LET claims == PeekTokenClaims(token)
        binding == IF IsRefusal(claims) THEN claims ELSE TokenCnfJkt(claims)
        resolved == ResolveOperatorAud(aud, claims) IN
    IF key = None
    THEN IF aud # None \/ clock # None THEN Raise("dpop")
         ELSE IF token = None THEN None
         ELSE IF IsBound(token) THEN Raise("key")
         ELSE [scheme |-> "Bearer", token |-> token]
    ELSE IF key = Odd \/ token = None \/ ~ClockWorks(clock) THEN Raise("dpop")
    ELSE IF binding = None \/ IsRefusal(binding) \/ IsRefusal(resolved) THEN Raise("key")
    ELSE [scheme |-> "DPoP", token |-> token, key |-> key, aud |-> resolved.aud]

\* _management_auth: the interceptor `connect` installs (None: no interceptor),
\* or the refusal before a channel exists.
ManagementAuth(token, key, aud, clock) ==
    LET claims == PeekTokenClaims(token)
        binding == IF IsRefusal(claims) THEN claims ELSE TokenCnfJkt(claims)
        resolved == ResolveOperatorAud(aud, claims) IN
    IF key = None
    THEN IF aud # None \/ clock # None THEN Raise("dpop")
         ELSE IF token = None THEN None
         ELSE IF IsBound(token) THEN Raise("key")
         ELSE [scheme |-> "Bearer", token |-> token]
    ELSE FirstRefusal(
        <<Check(key = Odd, Raise("dpop")),
          Check(token = None, Raise("key")),
          Check(~ClockWorks(clock), Raise("dpop"))>>,
        IF binding = None THEN Raise("key")
        ELSE IF IsRefusal(binding) THEN binding
        ELSE IF binding.jkt # key THEN Raise("key")
        ELSE IF IsRefusal(resolved) THEN resolved
        ELSE [scheme |-> "DPoP", token |-> token, key |-> key, aud |-> resolved.aud])

\* _DpopAuthInterceptor and mgmt_dpop_proof: a proof of one request, signed with
\* the client's key.  `signed` is how long before sending it was signed.
ProofFor(auth, rpc, args, jti) ==
    [jti |-> jti, signed |-> 0, htu |-> <<auth.aud, rpc>>, body |-> args, key |-> auth.key]

\* The authentication a request meets at the runtime (external).  `off` is how
\* far its sending is from the runtime's clock by now.
AuthRefusal(r, off, burned, runtimeAud) ==
    IF r.token = None THEN None
    ELSE IF (r.token.claims # Odd /\ "cnf" \in DOMAIN r.token.claims) # (r.scheme = "DPoP") THEN "scheme"
    ELSE IF r.scheme = "Bearer" THEN None
    ELSE IF r.proof.key # r.token.claims.cnf \/ r.proof.body # r.args THEN "binding"
    ELSE IF r.proof.htu # <<runtimeAud, r.rpc>> THEN "audience"
    ELSE IF off + r.proof.signed \notin -Window .. Window THEN "stale"
    ELSE IF r.proof.jti \in burned THEN "replay" ELSE None
-----------------------------------------------------------------------------
(* mgmt_dpop_http_htu.  A URL is a sequence of tokens: a scheme, "://",    *)
(* "h" and "H" for text in lower and upper case, a port, and delimiters.   *)

Schemes == [s \in {"http", "https", "HTTP", "HTTPS"} |->
               IF s \in {"http", "HTTP"} THEN "http" ELSE "https"]
Ports == [p \in {"80", "443", "0443", "8080"} |->
             CASE p = "80" -> "80" [] p \in {"443", "0443"} -> "443" [] OTHER -> "8080"]
DefaultPort == [s \in {"http", "https"} |-> IF s = "http" THEN "80" ELSE "443"]

Lower(ts) == [i \in DOMAIN ts |-> IF ts[i] = "H" THEN "h" ELSE ts[i]]

\* The place of the first token of a set, what precedes it, and the rest from it on.
FirstAt(ts, marks) ==
    LET found == {i \in DOMAIN ts : ts[i] \in marks} IN IF found = {} THEN 0 ELSE Min(found)
Until(ts, marks) ==
    LET at == FirstAt(ts, marks) IN IF at = 0 THEN ts ELSE SubSeq(ts, 1, at - 1)
From(ts, marks) == SubSeq(ts, Len(Until(ts, marks)) + 1, Len(ts))

\* The authority: host and port text, or Odd.
SplitAuthority(a) ==
    LET bracketed == a # <<>> /\ a[1] = "["
        close == FirstAt(a, {"]"})
        host == IF bracketed THEN SubSeq(a, 1, close) ELSE Until(a, {":"})
        after == SubSeq(a, Len(host) + 1, Len(a)) IN
    IF \/ "@" \in Range(a) \/ host = <<>>
       \/ bracketed /\ (close <= 2 \/ (after # <<>> /\ after[1] # ":"))
       \/ ~bracketed /\ Len(SelectSeq(a, LAMBDA t : t = ":")) > 1
    THEN Odd
    ELSE [host |-> Lower(host), port |-> IF after = <<>> THEN <<>> ELSE Tail(after)]

HttpHtu(url) ==
    LET scheme == Until(url, {"://"})
        rest == IF "://" \in Range(url) THEN Tail(From(url, {"://"})) ELSE <<>>
        authority == SplitAuthority(Until(rest, {"/", "?", "#"}))
        path == Until(From(rest, {"/", "?", "#"}), {"?", "#"}) IN
    IF \/ " " \in Range(url) \/ "://" \notin Range(url)
       \/ Len(scheme) # 1 \/ scheme[1] \notin DOMAIN Schemes
       \/ authority = Odd
       \/ authority.port # <<>> /\ (Len(authority.port) # 1 \/ authority.port[1] \notin DOMAIN Ports)
    THEN Odd
    ELSE LET port == IF authority.port = <<>> THEN None ELSE Ports[authority.port[1]]
             isDefault == port \in {None, DefaultPort[Schemes[scheme[1]]]} IN
         <<"https", "://">> \o authority.host \o (IF isDefault THEN <<>> ELSE <<":", port>>)
             \o (IF path = <<>> THEN <<"/">> ELSE path)
=============================================================================
