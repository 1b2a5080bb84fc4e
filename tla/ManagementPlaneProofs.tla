----------------------- MODULE ManagementPlaneProofs -----------------------
(***************************************************************************)
(* The management client, for any number of operator threads, methods,     *)
(* decisions, pairings, clocks and timeouts.                               *)
(*                                                                         *)
(* The inductive invariant has four parts: what connect accepted, what     *)
(* every request on the wire carries, how two requests differ, and how     *)
(* long a method can still take.                                           *)
(***************************************************************************)
EXTENDS ManagementPlane, TLAPS

Methods == PlainMethods \cup Holds
             \cup {"PreviewErasure", "EraseSubject", "EraseSubjectConfirmed", "EnforceRetention"}

\* A token that names the key it is bound to.
Bound(token) == token.claims # Odd /\ "cnf" \in DOMAIN token.claims

\* The interceptor of an accepted pairing: a bound token goes with a proof by
\* the key it names, any other token goes as Bearer.
Paired(a) ==
    \/ a = None
    \/ /\ a.token # None /\ a.scheme \in {"Bearer", "DPoP"}
       /\ a.scheme = "DPoP" <=> Bound(a.token)
       /\ a.scheme = "DPoP" => a.key = a.token.claims.cnf

IsRequest(r) ==
    r = [p |-> r.p, inv |-> r.inv, rpc |-> r.rpc, args |-> r.args, shown |-> r.shown,
         token |-> r.token, scheme |-> r.scheme, proof |-> r.proof,
         age |-> r.age, result |-> r.result, saw |-> r.saw, waited |-> r.waited]

\* A proof is for this request, by the key of the token, and not yet burned
\* when the request is not yet answered.
Proven(r) ==
    /\ r.token # None
    /\ r.proof.key = r.token.claims.cnf /\ r.proof.body = r.args
    /\ r.proof.htu = <<auth.aud, r.rpc>> /\ r.proof.signed = 0
    /\ r.proof.jti \in 1..sent
    /\ r.result = None => r.proof.jti \notin burned

\* What every request on the wire carries.
Carries(r) ==
    /\ IsRequest(r) /\ r.p \in Operators /\ r.inv \in 1..entered
    /\ r.age \in Nat /\ r.waited \in BOOLEAN
    /\ r.token # None => /\ r.scheme \in {"Bearer", "DPoP"}
                         /\ r.scheme = "DPoP" <=> Bound(r.token)
    /\ IF r.scheme = "DPoP" THEN Proven(r) ELSE r.proof = None
    /\ r.shown # None /\ r.rpc = "EraseSubject" => r.args.count = Cardinality(r.shown.would_erase)

\* No two requests belong to one invocation, share a proof or are waited for by
\* one thread.
Apart(r, q) ==
    /\ r.inv # q.inv
    /\ r.scheme = "DPoP" /\ q.scheme = "DPoP" => r.proof.jti # q.proof.jti
    /\ r.waited /\ q.waited => r.p # q.p

\* The time a method of p can still take.
InTime(p) ==
    /\ op[p] = None => spent[p] = 0
    /\ op[p] \notin {None, "EraseSubjectConfirmed"} => spent[p] + left[p] <= CallTimeout
    /\ op[p] = "EraseSubjectConfirmed" => spent[p] + left[p] <= 2 * CallTimeout
    /\ \A r \in wire : op[p] = "EraseSubjectConfirmed" /\ Waits(p, r) /\ r.rpc = "PreviewErasure"
          => spent[p] + left[p] <= CallTimeout

PlaneTypes ==
    /\ pairing \in Pairings /\ skew \in Int
    /\ entered \in Nat /\ sent \in Nat /\ burned \subseteq 1..sent
    /\ op \in [Operators -> Methods \cup {None}]
    /\ left \in [Operators -> Nat] /\ spent \in [Operators -> Nat]
    /\ Connected => Paired(auth)

WireInv ==
    /\ wire # {} => Connected
    /\ \A r \in wire : Carries(r) /\ (r.waited => op[r.p] # None)
    /\ \A r, q \in wire : r # q => Apart(r, q)

PlaneInv ==
    /\ PlaneTypes /\ WireInv
    /\ PairingHonoured /\ ErasedAsShown
    /\ \A p \in Operators : InTime(p)

-------------------------------------------------------------------------------
(* What connect accepts. *)

\* The least element of a set of indices is one of them.
LEMMA LeastIndex ==
    ASSUME NEW S \in SUBSET {1, 2, 3}, S # {}
    PROVE  Min(S) \in S
<1>1. \E x \in S : \A y \in S : x =< y
  <2>1. CASE 1 \in S
    BY <2>1
  <2>2. CASE 1 \notin S /\ 2 \in S
    BY <2>2
  <2>3. CASE S = {3}
    BY <2>3
  <2>. QED
    BY Zenon, <2>1, <2>2, <2>3
<1>. QED
  BY Zenon, <1>1 DEF Min

\* The first refusal of two or three checks is one of them, or all of them pass.
LEMMA FirstOfThree ==
    ASSUME NEW a, NEW b, NEW c, NEW ok
    PROVE  \/ a = None /\ b = None /\ c = None /\ FirstRefusal(<<a, b, c>>, ok) = ok
           \/ FirstRefusal(<<a, b, c>>, ok) \in {a, b, c} \ {None}
<1>. DEFINE t == <<a, b, c>>
            S == {i \in 1..Len(t) : t[i] # None}
<1>1. Len(t) = 3 /\ t[1] = a /\ t[2] = b /\ t[3] = c
  OBVIOUS
<1>2. S \in SUBSET {1, 2, 3}
  BY <1>1
<1>3. FirstRefusal(t, ok) = IF S = {} THEN ok ELSE t[Min(S)]
  BY DEF FirstRefusal
<1>4. CASE S = {}
  <2>1. a = None /\ b = None /\ c = None
    BY <1>1, <1>4
  <2>. QED
    BY <1>3, <1>4, <2>1
<1>5. CASE S # {}
  <2>1. Min(S) \in S
    BY <1>2, <1>5, LeastIndex
  <2>2. Min(S) # 0 /\ t[Min(S)] \in {a, b, c} \ {None}
    BY <1>1, <2>1
  <2>3. FirstRefusal(t, ok) = t[Min(S)]
    BY <1>3, <1>5, <2>2
  <2>. QED
    BY <2>2, <2>3
<1>. QED
  BY <1>4, <1>5

LEMMA FirstOfTwo ==
    ASSUME NEW a, NEW b, NEW ok
    PROVE  \/ a = None /\ b = None /\ FirstRefusal(<<a, b>>, ok) = ok
           \/ FirstRefusal(<<a, b>>, ok) \in {a, b} \ {None}
<1>. DEFINE t == <<a, b>>
            S == {i \in 1..Len(t) : t[i] # None}
<1>1. Len(t) = 2 /\ t[1] = a /\ t[2] = b
  OBVIOUS
<1>2. S \in SUBSET {1, 2, 3}
  BY <1>1
<1>3. FirstRefusal(t, ok) = IF S = {} THEN ok ELSE t[Min(S)]
  BY DEF FirstRefusal
<1>4. CASE S = {}
  <2>1. a = None /\ b = None
    BY <1>1, <1>4
  <2>. QED
    BY <1>3, <1>4, <2>1
<1>5. CASE S # {}
  <2>1. Min(S) \in S
    BY <1>2, <1>5, LeastIndex
  <2>2. Min(S) # 0 /\ t[Min(S)] \in {a, b} \ {None}
    BY <1>1, <2>1
  <2>3. FirstRefusal(t, ok) = t[Min(S)]
    BY <1>3, <1>5, <2>2
  <2>. QED
    BY <2>2, <2>3
<1>. QED
  BY <1>4, <1>5

LEMMA RaiseRefuses ==
    ASSUME NEW e
    PROVE  IsRefusal(Raise(e))
BY DEF IsRefusal, Raise

\* A token that can stand in a header is decoded, or refused as no JWS.
LEMMA PeekDecodes ==
    ASSUME NEW token, token \notin {None, Odd}, token.visible,
           token.claims = Odd \/ "raised" \notin DOMAIN token.claims
    PROVE  \/ token.claims # Odd /\ PeekTokenClaims(token) = token.claims
                /\ ~IsRefusal(PeekTokenClaims(token))
           \/ token.claims = Odd /\ PeekTokenClaims(token) = Raise("key")
                /\ IsRefusal(PeekTokenClaims(token))
<1>. DEFINE a == Check(~token.visible, Raise("dpop"))
            b == Check(token.claims = Odd, Raise("key"))
<1>1. PeekTokenClaims(token) = FirstRefusal(<<a, b>>, token.claims)
  BY DEF PeekTokenClaims
<1>2. a = None
  BY DEF Check
<1>. HIDE DEF a
<1>3. CASE token.claims # Odd
  <2>1. b = None
    BY <1>3 DEF Check
  <2>. HIDE DEF b
  <2>2. PeekTokenClaims(token) = token.claims
    BY <1>1, <1>2, <2>1, FirstOfTwo
  <2>. QED
    BY <1>3, <2>2 DEF IsRefusal
<1>4. CASE token.claims = Odd
  <2>1. b = Raise("key") /\ b # None
    BY <1>4, NoneAssumption DEF Check
  <2>. HIDE DEF b
  <2>2. PeekTokenClaims(token) = b
    BY <1>1, <1>2, <2>1, FirstOfTwo
  <2>. QED
    BY <1>4, <2>1, <2>2, RaiseRefuses
<1>. QED
  BY <1>3, <1>4

\* _management_auth: what it returns without raising is a sound pairing.
LEMMA ConnectPairs ==
    ASSUME NEW x \in Pairings, NEW a, a = ManagementAuth(x.token, x.key, x.aud, x.clock),
           a # None => ~IsRefusal(a)
    PROVE  Paired(a)
<1>. DEFINE claims == PeekTokenClaims(x.token)
            binding == IF IsRefusal(claims) THEN claims ELSE TokenCnfJkt(claims)
            resolved == ResolveOperatorAud(x.aud, claims)
            accept == [scheme |-> "DPoP", token |-> x.token, key |-> x.key, aud |-> resolved.aud]
            last == IF binding = None THEN Raise("key")
                    ELSE IF IsRefusal(binding) THEN binding
                    ELSE IF binding.jkt # x.key THEN Raise("key")
                    ELSE IF IsRefusal(resolved) THEN resolved
                    ELSE accept
<1>1. a # Raise("key") /\ a # Raise("dpop")
  BY RaiseRefuses, NoneAssumption
<1>2. x.token # None => \/ x.token.claims # Odd /\ claims = x.token.claims /\ ~IsRefusal(claims)
                        \/ x.token.claims = Odd /\ claims = Raise("key") /\ IsRefusal(claims)
  BY PairingsAssumption, PeekDecodes
<1>3. CASE x.key = None
  <2>1. a = IF x.aud # None \/ x.clock # None THEN Raise("dpop")
            ELSE IF x.token = None THEN None
            ELSE IF IsBound(x.token) THEN Raise("key")
            ELSE [scheme |-> "Bearer", token |-> x.token]
    BY <1>3 DEF ManagementAuth
  <2>2. \/ a = None
        \/ x.token # None /\ ~IsBound(x.token) /\ a = [scheme |-> "Bearer", token |-> x.token]
    BY <1>1, <2>1
  <2>3. x.token # None => (IsBound(x.token) <=> Bound(x.token))
    BY <1>2 DEF IsBound, Bound
  <2>. QED
    BY SMT, SMTT(30), <2>2, <2>3 DEF Paired
<1>4. CASE x.key # None
  <2>. DEFINE c1 == Check(x.key = Odd, Raise("dpop"))
              c2 == Check(x.token = None, Raise("key"))
              c3 == Check(~ClockWorks(x.clock), Raise("dpop"))
  <2>1. a = FirstRefusal(<<c1, c2, c3>>, last)
    BY <1>4 DEF ManagementAuth
  <2>2. c2 = None => x.token # None
    BY NoneAssumption DEF Check
  <2>3. c1 \in {None, Raise("dpop")} /\ c2 \in {None, Raise("key")} /\ c3 \in {None, Raise("dpop")}
    BY DEF Check
  <2>. HIDE DEF c1, c2, c3, last
  <2>4. x.token # None /\ a = last
    BY <1>1, <2>1, <2>2, <2>3, FirstOfThree
  <2>. USE DEF last
  <2>. HIDE DEF claims, resolved, accept
  <2>5. IsRefusal(claims) => binding = Raise("key")
    BY <1>2, <2>4
  <2>6. binding # None /\ ~IsRefusal(binding) /\ binding.jkt = x.key
    BY <1>1, <2>4, NoneAssumption
  <2>7. ~IsRefusal(claims)
    BY <2>5, <2>6, RaiseRefuses
  <2>8. x.token.claims # Odd /\ claims = x.token.claims /\ binding = TokenCnfJkt(claims)
    BY <1>2, <2>4, <2>7
  <2>9. "cnf" \in DOMAIN claims /\ binding = [jkt |-> claims.cnf]
    BY <2>6, <2>8, RaiseRefuses DEF TokenCnfJkt
  <2>10. Bound(x.token) /\ x.key = x.token.claims.cnf
    BY <2>6, <2>8, <2>9 DEF Bound
  <2>11. a = None \/ a = accept
    BY <2>4, <2>6
  <2>. QED
    BY SMT, SMTT(30), <2>4, <2>10, <2>11 DEF Paired, accept
<1>. QED
  BY <1>3, <1>4

-------------------------------------------------------------------------------
(* Requests. *)

\* s is request r, but for how old it is, its answer and whether it is waited for.
Same(s, r) ==
    /\ IsRequest(s)
    /\ s.p = r.p /\ s.inv = r.inv /\ s.rpc = r.rpc /\ s.args = r.args /\ s.shown = r.shown
    /\ s.token = r.token /\ s.scheme = r.scheme /\ s.proof = r.proof

LEMMA AbandonedRequest ==
    ASSUME NEW r, IsRequest(r), NEW s, s = [r EXCEPT !.waited = FALSE]
    PROVE  Same(s, r) /\ s.age = r.age /\ s.result = r.result /\ s.saw = r.saw /\ s.waited = FALSE
BY Zenon DEF IsRequest, Same

LEMMA OlderRequest ==
    ASSUME NEW r, IsRequest(r), NEW s, s = [r EXCEPT !.age = @ + 1]
    PROVE  Same(s, r) /\ s.age = r.age + 1 /\ s.result = r.result /\ s.saw = r.saw
             /\ s.waited = r.waited
BY DEF IsRequest, Same

LEMMA SameItself ==
    ASSUME NEW r, IsRequest(r)
    PROVE  Same(r, r)
BY DEF Same

LEMMA SameApart ==
    ASSUME NEW r, NEW q, Apart(r, q), NEW s, Same(s, r), NEW t, Same(t, q),
           r.waited \in BOOLEAN, q.waited \in BOOLEAN,
           s.waited \in {r.waited, FALSE}, t.waited \in {q.waited, FALSE}
    PROVE  Apart(s, t)
BY Zenon DEF Same, Apart

\* What a request carries it carries on, while other requests are sent and
\* other proofs are burned.
LEMMA SameCarries ==
    ASSUME PlaneTypes, PlaneTypes', auth' = auth, entered' >= entered, sent' >= sent,
           NEW r, NEW s, Carries(r), Same(s, r), s.age \in Nat, s.waited \in BOOLEAN,
           s.result = None => /\ r.result = None
                              /\ r.scheme = "DPoP" /\ r.proof.jti \notin burned
                                    => r.proof.jti \notin burned'
    PROVE  Carries(s)'
<1>1. s.inv \in 1..entered'
  BY DEF Carries, Same, PlaneTypes
<1>2. s.scheme = "DPoP" => Proven(s)'
  BY SMT, SMTT(30) DEF Carries, Same, PlaneTypes, Proven
<1>. QED
  BY <1>1, <1>2 DEF Carries, Same

\* A request as the interceptor passes it on.
LEMMA FreshCarries ==
    ASSUME PlaneTypes, Connected, auth' = auth, sent' = sent + 1, burned' = burned,
           NEW p \in Operators, NEW inv \in 1..entered', NEW rpc, NEW args, NEW shown,
           NEW s, s = Request(p, inv, rpc, args, shown),
           shown # None /\ rpc = "EraseSubject" => args.count = Cardinality(shown.would_erase)
    PROVE  /\ Carries(s)' /\ s.p = p /\ s.inv = inv /\ s.rpc = rpc /\ s.shown = shown
           /\ s.result = None /\ s.waited
           /\ s.scheme = "DPoP" => s.proof.jti = sent + 1
<1>1. /\ IsRequest(s) /\ s.p = p /\ s.inv = inv /\ s.rpc = rpc /\ s.args = args /\ s.shown = shown
      /\ s.age = 0 /\ s.result = None /\ s.waited = TRUE
      /\ s.token = IF auth = None THEN None ELSE auth.token
      /\ s.scheme = IF auth = None THEN None ELSE auth.scheme
      /\ s.proof = IF auth # None /\ auth.scheme = "DPoP" THEN WithProof(rpc, args) ELSE None
  BY DEF Request, IsRequest
<1>2. Paired(auth)
  BY DEF PlaneTypes
<1>3. s.token # None => s.scheme \in {"Bearer", "DPoP"} /\ (s.scheme = "DPoP" <=> Bound(s.token))
  BY <1>1, <1>2 DEF Paired
<1>a. s.waited \in BOOLEAN
  BY <1>1, Zenon
<1>b. s.age \in Nat /\ s.p \in Operators /\ s.inv \in 1..entered'
  BY SMT, SMTT(30), <1>1
<1>4. CASE s.scheme = "DPoP"
  <2>1. auth # None /\ auth.scheme = "DPoP"
    BY <1>1, <1>4, NoneAssumption
  <2>2. s.proof = WithProof(rpc, args) /\ s.token # None /\ auth.key = s.token.claims.cnf
    BY <1>1, <1>2, <2>1 DEF Paired
  <2>3. /\ s.proof.jti = sent + 1 /\ s.proof.signed = 0 /\ s.proof.htu = <<auth.aud, rpc>>
        /\ s.proof.body = args /\ s.proof.key = auth.key
    BY <2>2 DEF WithProof, ProofFor
  <2>4. sent + 1 \in 1..sent' /\ sent + 1 \notin burned'
    BY SMT, SMTT(30) DEF PlaneTypes
  <2>5. Proven(s)'
    BY <1>1, <2>2, <2>3, <2>4 DEF Proven
  <2>. QED
    BY <1>1, <1>3, <1>4, <1>a, <1>b, <2>3, <2>5 DEF Carries
<1>5. CASE s.scheme # "DPoP"
  <2>1. s.proof = None
    BY <1>1, <1>5
  <2>. QED
    BY <1>1, <1>3, <1>5, <1>a, <1>b, <2>1 DEF Carries
<1>. QED
  BY <1>4, <1>5

-------------------------------------------------------------------------------
(* The steps of the client. *)

LEMMA InitPlane == PlaneInit => PlaneInv
<1>. SUFFICES ASSUME PlaneInit PROVE PlaneInv
  OBVIOUS
<1>1. ~Connected /\ wire = {}
  BY DEF PlaneInit, Connected
<1>2. PlaneTypes
  BY <1>1, PlaneAssumption DEF PlaneInit, PlaneTypes
<1>3. WireInv /\ PairingHonoured /\ ErasedAsShown
  BY <1>1 DEF WireInv, PairingHonoured, ErasedAsShown
<1>4. \A p \in Operators : InTime(p)
  BY NoneAssumption DEF PlaneInit, InTime
<1>. QED
  BY <1>2, <1>3, <1>4 DEF PlaneInv

LEMMA ConnectKeeps ==
    ASSUME PlaneInv, Connect
    PROVE  PlaneInv'
<1>. USE DEF PlaneInv
<1>1. wire = {}
  BY DEF Connect, WireInv, Connected
<1>2. Connected' => Paired(auth')
  BY ConnectPairs DEF Connect, Connected, PlaneTypes
<1>3. PlaneTypes'
  BY Zenon, <1>2 DEF Connect, PlaneTypes, runtime
<1>4. (WireInv /\ PairingHonoured /\ ErasedAsShown)'
  BY <1>1 DEF Connect, WireInv, PairingHonoured, ErasedAsShown
<1>5. \A p \in Operators : InTime(p)'
  BY <1>1 DEF Connect, InTime
<1>. QED
  BY <1>3, <1>4, <1>5

LEMMA EnterKeeps ==
    ASSUME PlaneInv, NEW p \in Operators, NEW m \in Methods, NEW rpc, NEW args,
           Enter(p, m, rpc, args)
    PROVE  PlaneInv'
<1>. USE DEF PlaneInv
<1>1. /\ Connected /\ op[p] = None /\ auth' = auth /\ pairing' = pairing /\ skew' = skew
      /\ entered' = entered + 1 /\ sent' = sent + 1 /\ burned' = burned
      /\ op' = [op EXCEPT ![p] = m] /\ left' = [left EXCEPT ![p] = CallTimeout]
      /\ spent' = [spent EXCEPT ![p] = 0]
  BY DEF Enter, client, runtime
<1>a. PICK i \in 1..entered' : i = entered + 1
  BY <1>1 DEF PlaneTypes
<1>2. PICK s : s = Request(p, i, rpc, args, None) /\ wire' = wire \cup {s}
  BY <1>a DEF Enter
<1>3. m # None
  BY NoneAssumption DEF Methods, Holds
<1>4. PlaneTypes'
  BY SMT, SMTT(30), <1>1, PlaneAssumption DEF PlaneTypes, Connected
<1>6. /\ Carries(s)' /\ s.p = p /\ s.inv = i /\ s.rpc = rpc /\ s.shown = None
      /\ s.result = None /\ s.waited
      /\ s.scheme = "DPoP" => s.proof.jti = sent + 1
  BY SMT, SMTT(30), <1>1, <1>2, FreshCarries
<1>7. ASSUME NEW r \in wire
      PROVE  /\ Carries(r)' /\ (r.waited => r.p # p /\ op'[r.p] # None)
             /\ Apart(r, s) /\ Apart(s, r)
  <2>1. Carries(r) /\ (r.waited => op[r.p] # None) /\ r.p \in Operators
    BY DEF WireInv, Carries
  <2>2. Same(r, r) /\ r.age \in Nat /\ r.waited \in BOOLEAN /\ r.inv \in 1..entered
    BY ZenonT(40), <2>1, SameItself DEF Carries
  <2>3. Carries(r)'
    BY SMT, SMTT(30), <1>1, <1>4, <2>1, <2>2, SameCarries DEF PlaneTypes
  <2>4. r.waited => r.p # p /\ op'[r.p] # None
    BY <1>1, <2>1 DEF PlaneTypes
  <2>5. r.scheme = "DPoP" => r.proof.jti \in 1..sent
    BY Zenon, <2>1 DEF Carries, Proven
  <2>6. r.inv # s.inv /\ (r.scheme = "DPoP" /\ s.scheme = "DPoP" => r.proof.jti # s.proof.jti)
    BY SMT, SMTT(30), <1>a, <1>6, <2>2, <2>5 DEF PlaneTypes
  <2>. QED
    BY Zenon, <1>6, <2>3, <2>4, <2>6 DEF Apart
<1>8. WireInv'
  <2>1. op'[s.p] # None
    BY <1>1, <1>3, <1>6 DEF PlaneTypes
  <2>2. Connected'
    BY ZenonT(40), <1>1 DEF Connected
  <2>. QED
    BY SMT, SMTT(30), <1>2, <1>6, <1>7, <2>1, <2>2 DEF WireInv
<1>9. PairingHonoured' /\ ErasedAsShown'
  BY SMT, SMTT(30), <1>1, <1>2, <1>6, NoneAssumption DEF PairingHonoured, ErasedAsShown
<1>10. ASSUME NEW q \in Operators PROVE InTime(q)'
  <2>1. CASE q # p
    BY ZenonT(40), <1>1, <1>2, <1>6, <2>1 DEF InTime, PlaneTypes, Waits
  <2>2. CASE q = p
    <3>1. spent'[p] + left'[p] = CallTimeout /\ op'[p] # None
      BY <1>1, <1>3, PlaneAssumption DEF PlaneTypes
    <3>2. CallTimeout <= 2 * CallTimeout /\ CallTimeout <= CallTimeout
      BY PlaneAssumption
    <3>. QED
      BY <2>2, <3>1, <3>2 DEF InTime
  <2>. QED
    BY <2>1, <2>2
<1>. QED
  BY <1>4, <1>8, <1>9, <1>10

\* An answer, or an error, goes to the method that waits for it.
LEMMA AnsweredKeeps ==
    ASSUME PlaneInv, NEW p \in Operators, Answered(p)
    PROVE  PlaneInv'
<1>. USE DEF PlaneInv
<1>1. PICK r \in wire : Waits(p, r) /\ Return(p) /\ wire' = wire \ {r}
                          /\ UNCHANGED <<client, entered, sent, runtime>>
  BY DEF Answered
<1>2. /\ auth' = auth /\ pairing' = pairing /\ skew' = skew /\ entered' = entered /\ sent' = sent
      /\ burned' = burned /\ op' = [op EXCEPT ![p] = None] /\ left' = [left EXCEPT ![p] = 0]
      /\ spent' = [spent EXCEPT ![p] = 0]
  BY <1>1 DEF client, runtime, Return
<1>3. PlaneTypes'
  BY <1>2 DEF PlaneTypes, Connected
<1>4. ASSUME NEW q \in wire'
      PROVE  Carries(q)' /\ (q.waited => op'[q.p] # None)
  <2>1. Carries(q) /\ Apart(r, q) /\ (q.waited => op[q.p] # None) /\ q.p \in Operators
    BY Zenon, <1>1 DEF WireInv, Carries
  <2>2. Carries(q)'
    BY Zenon, <1>2, <2>1 DEF Carries, Proven
  <2>3. q.waited => q.p # p
    BY <1>1, <2>1 DEF Apart, Waits
  <2>. QED
    BY Zenon, <1>2, <2>1, <2>2, <2>3 DEF PlaneTypes
<1>5. WireInv'
  BY Zenon, <1>1, <1>2, <1>4 DEF WireInv, Connected
<1>6. PairingHonoured' /\ ErasedAsShown'
  BY <1>1, <1>2 DEF PairingHonoured, ErasedAsShown
<1>7. ASSUME NEW q \in Operators PROVE InTime(q)'
  BY Zenon, <1>1, <1>2, NoneAssumption DEF InTime, PlaneTypes
<1>. QED
  BY <1>3, <1>5, <1>6, <1>7

\* A request is answered, or given up by the thread that waits for it.
LEMMA ReplaceWire ==
    ASSUME PlaneTypes, PlaneTypes', WireInv, auth' = auth, entered' = entered, sent' = sent,
           NEW r \in wire, NEW s, Same(s, r), s.age = r.age, s.waited \in {r.waited, FALSE},
           wire' = (wire \ {r}) \cup {s},
           s.result = None => r.result = None,
           \/ burned' = burned
           \/ s.result # None /\ r.scheme = "DPoP" /\ burned' = burned \cup {r.proof.jti},
           \A q \in wire : q.waited /\ q # r => op'[q.p] # None,
           s.waited => op'[r.p] # None
    PROVE  WireInv'
<1>1. Carries(r) /\ r.waited \in BOOLEAN
  BY Zenon DEF WireInv, Carries
<1>2. s.waited \in BOOLEAN /\ s.age \in Nat
  BY ZenonT(40), <1>1 DEF Carries
<1>3. Carries(s)'
  BY <1>1, <1>2, SameCarries DEF PlaneTypes
<1>4. ASSUME NEW q \in wire, q # r
      PROVE  Carries(q)' /\ Apart(q, s) /\ Apart(s, q)
  <2>1. Carries(q) /\ Apart(q, r) /\ Apart(r, q)
    BY <1>4 DEF WireInv
  <2>2. Same(q, q) /\ q.age \in Nat /\ q.waited \in BOOLEAN
    BY Zenon, <2>1, SameItself DEF Carries
  <2>3. q.scheme = "DPoP" /\ q.proof.jti \notin burned => q.proof.jti \notin burned'
    BY Zenon, <2>1 DEF Apart
  <2>4. Carries(q)'
    BY <2>1, <2>2, <2>3, SameCarries DEF PlaneTypes
  <2>. QED
    BY ZenonT(40), <1>1, <2>1, <2>2, <2>4, SameApart
<1>5. Connected'
  BY Zenon DEF WireInv, Connected
<1>6. s.waited => op'[s.p] # None
  BY DEF Same
<1>. QED
  BY <1>3, <1>4, <1>5, <1>6 DEF WireInv

\* Requests that keep their answers keep what is promised of them.
LEMMA AnswersKept ==
    ASSUME PairingHonoured, ErasedAsShown, auth' = auth, skew' = skew,
           \A q \in wire' : \/ q.result = None
                            \/ \E o \in wire : /\ q.result = o.result /\ q.age = o.age
                                               /\ q.rpc = o.rpc /\ q.shown = o.shown
                                               /\ q.saw = o.saw
    PROVE  PairingHonoured' /\ ErasedAsShown'
<1>1. PairingHonoured'
  BY NoneAssumption DEF PairingHonoured
<1>2. ErasedAsShown'
  BY NoneAssumption DEF ErasedAsShown
<1>. QED
  BY <1>1, <1>2

LEMMA DeadlineKeeps ==
    ASSUME PlaneInv, NEW p \in Operators, Deadline(p)
    PROVE  PlaneInv'
<1>. USE DEF PlaneInv
<1>1. PICK r \in wire : /\ Waits(p, r) /\ Return(p)
                        /\ wire' = (wire \ {r}) \cup {[r EXCEPT !.waited = FALSE]}
                        /\ UNCHANGED <<client, entered, sent, runtime>>
  BY DEF Deadline
<1>2. /\ auth' = auth /\ pairing' = pairing /\ skew' = skew /\ entered' = entered /\ sent' = sent
      /\ burned' = burned /\ op' = [op EXCEPT ![p] = None] /\ left' = [left EXCEPT ![p] = 0]
      /\ spent' = [spent EXCEPT ![p] = 0]
  BY <1>1 DEF client, runtime, Return
<1>3. PICK s : s = [r EXCEPT !.waited = FALSE]
  BY Zenon
<1>4. Carries(r)
  BY DEF WireInv
<1>5. Same(s, r) /\ s.age = r.age /\ s.result = r.result /\ s.saw = r.saw /\ s.waited = FALSE
  BY Zenon, <1>3, <1>4, AbandonedRequest DEF Carries
<1>6. PlaneTypes'
  BY <1>2 DEF PlaneTypes, Connected
<1>7. \A q \in wire : q.waited /\ q # r => op'[q.p] # None
  BY <1>1, <1>2 DEF WireInv, Carries, Apart, Waits, PlaneTypes
<1>8. s.waited \in {r.waited, FALSE} /\ ~s.waited
  BY <1>5, Zenon
<1>9. WireInv'
  BY Zenon, <1>1, <1>2, <1>3, <1>5, <1>6, <1>7, <1>8, ReplaceWire
<1>10. PairingHonoured' /\ ErasedAsShown'
  BY Zenon, <1>1, <1>2, <1>3, <1>5, AnswersKept DEF Same
<1>11. ASSUME NEW q \in Operators PROVE InTime(q)'
  BY ZenonT(40), <1>1, <1>2, <1>3, <1>8, NoneAssumption DEF InTime, PlaneTypes, Waits
<1>. QED
  BY <1>6, <1>9, <1>10, <1>11

\* The preview is answered and the erasure follows.
LEMMA ConfirmKeeps ==
    ASSUME PlaneInv, NEW p \in Operators, Confirm(p)
    PROVE  PlaneInv'
<1>. USE DEF PlaneInv
<1>1. PICK r \in wire :
        /\ Waits(p, r) /\ op[p] = "EraseSubjectConfirmed" /\ r.rpc = "PreviewErasure"
        /\ wire' = (wire \ {r}) \cup {Request(p, r.inv, "EraseSubject", ConfirmArgs(r.saw), r.saw)}
        /\ sent' = sent + 1 /\ left' = [left EXCEPT ![p] = ConfirmTimeout]
        /\ UNCHANGED <<client, op, spent, entered, runtime>>
  BY DEF Confirm
<1>2. /\ auth' = auth /\ pairing' = pairing /\ skew' = skew /\ entered' = entered
      /\ burned' = burned /\ op' = op /\ spent' = spent /\ left' = [left EXCEPT ![p] = CallTimeout]
  BY <1>1 DEF client, runtime, ConfirmTimeout
<1>3. PICK args : args = ConfirmArgs(r.saw)
  OBVIOUS
<1>4. PICK s : s = Request(p, r.inv, "EraseSubject", args, r.saw)
  BY ZenonT(40)
<1>5. Carries(r) /\ r.inv \in 1..entered' /\ Connected /\ PlaneTypes
  BY Zenon, <1>2 DEF WireInv, Carries
<1>6. args.count = Cardinality(r.saw.would_erase)
  BY ZenonT(40), <1>3 DEF ConfirmArgs, NoArgs
<1>7. /\ Carries(s)' /\ s.p = p /\ s.inv = r.inv /\ s.rpc = "EraseSubject"
      /\ s.result = None /\ s.waited
      /\ s.scheme = "DPoP" => s.proof.jti = sent + 1
  <2>1. auth' = auth /\ sent' = sent + 1 /\ burned' = burned
    BY <1>1, <1>2
  <2>. QED
    BY ONLY FreshCarries, p \in Operators, <1>4, <1>5, <1>6, <2>1
<1>8. PlaneTypes'
  <2>1. sent' \in Nat /\ burned' \subseteq 1..sent'
    BY SMT, SMTT(30), <1>1, <1>2 DEF PlaneTypes
  <2>2. left' \in [Operators -> Nat]
    BY <1>2, PlaneAssumption DEF PlaneTypes
  <2>. QED
    BY Zenon, <1>2, <2>1, <2>2 DEF PlaneTypes, Connected
<1>9. wire' = (wire \ {r}) \cup {s}
  BY ZenonT(40), <1>1, <1>3, <1>4
<1>10. ASSUME NEW q \in wire, q # r
       PROVE  /\ Carries(q)' /\ (q.waited => q.p # p /\ op'[q.p] # None)
              /\ Apart(q, s) /\ Apart(s, q)
  <2>1. Carries(q) /\ Apart(q, r) /\ (q.waited => op[q.p] # None)
    BY Zenon, <1>10 DEF WireInv
  <2>2. Same(q, q) /\ q.age \in Nat /\ q.waited \in BOOLEAN
    BY <2>1, SameItself DEF Carries
  <2>3. sent' >= sent /\ entered' >= entered
    BY <1>1, <1>2 DEF PlaneTypes
  <2>4. Carries(q)'
    BY ZenonT(40), <1>2, <1>8, <2>1, <2>2, <2>3, SameCarries
  <2>5. q.waited => q.p # p
    BY Zenon, <1>1, <2>1 DEF Apart, Waits
  <2>6. q.scheme = "DPoP" => q.proof.jti \in 1..sent
    BY <2>1 DEF Carries, Proven
  <2>7. q.inv # s.inv /\ (q.scheme = "DPoP" /\ s.scheme = "DPoP" => q.proof.jti # s.proof.jti)
    BY SMT, SMTT(30), <1>7, <2>1, <2>6 DEF PlaneTypes, Apart
  <2>. QED
    BY <1>2, <1>7, <2>1, <2>4, <2>5, <2>7 DEF Apart
<1>11. WireInv'
  <2>1. op'[s.p] # None /\ Connected'
    BY ZenonT(40), <1>1, <1>2, <1>5, <1>7, NoneAssumption DEF Connected
  <2>. QED
    BY Zenon, <1>7, <1>9, <1>10, <2>1 DEF WireInv
<1>12. PairingHonoured' /\ ErasedAsShown'
  BY <1>2, <1>7, <1>9, AnswersKept
<1>13. ASSUME NEW q \in Operators PROVE InTime(q)'
  <2>1. CASE q # p
    BY Zenon, <1>2, <1>7, <1>9, <2>1 DEF InTime, PlaneTypes, Waits
  <2>2. CASE q = p
    <3>1. spent[p] + left[p] <= CallTimeout
      BY Zenon, <1>1 DEF InTime
    <3>2. spent'[p] + left'[p] <= 2 * CallTimeout
      BY <1>2, <3>1, PlaneAssumption DEF PlaneTypes
    <3>3. op'[p] = "EraseSubjectConfirmed" /\ op'[p] # None
      BY ZenonT(40), <1>1, <1>2, NoneAssumption
    <3>4. ASSUME NEW o \in wire', Waits(p, o) PROVE o.rpc # "PreviewErasure"
      BY <1>7, <1>9, <1>10, <3>4 DEF Waits
    <3>. QED
      BY Zenon, <2>2, <3>2, <3>3, <3>4 DEF InTime
  <2>. QED
    BY <2>1, <2>2
<1>. QED
  BY <1>8, <1>11, <1>12, <1>13

LEMMA SealKeeps ==
    ASSUME PlaneInv, NEW d \in Decisions, Seal(d)
    PROVE  PlaneInv'
<1>. USE DEF PlaneInv
<1>1. UNCHANGED <<pairing, skew, auth, op, left, spent, wire, entered, sent, burned>>
  BY DEF Seal, client
<1>2. PlaneTypes' /\ WireInv'
  BY ZenonT(40), <1>1 DEF PlaneTypes, WireInv, Connected, Carries, Proven
<1>3. PairingHonoured' /\ ErasedAsShown' /\ \A p \in Operators : InTime(p)'
  BY <1>1 DEF PairingHonoured, ErasedAsShown, InTime
<1>. QED
  BY <1>2, <1>3

\* Time passes.
LEMMA TickKeeps ==
    ASSUME PlaneInv, Tick
    PROVE  PlaneInv'
<1>. USE DEF PlaneInv
<1>1. /\ UNCHANGED <<pairing, skew, auth, op, entered, sent, burned>>
      /\ \A p \in Operators : op[p] # None => left[p] > 0
      /\ left' = [p \in Operators |-> IF op[p] # None THEN left[p] - 1 ELSE 0]
      /\ spent' = [p \in Operators |-> IF op[p] # None THEN spent[p] + 1 ELSE 0]
  BY DEF Tick, client, runtime
<1>2. PlaneTypes'
  BY <1>1 DEF PlaneTypes, Connected
<1>3. ASSUME NEW s \in wire'
      PROVE  \E r \in wire :
               /\ s = IF r.result = None /\ r.age < AgeCap THEN [r EXCEPT !.age = @ + 1] ELSE r
               /\ Carries(r) /\ (r.waited => op[r.p] # None)
               /\ Same(s, r) /\ s.age \in Nat /\ s.waited = r.waited /\ s.waited \in BOOLEAN
               /\ s.result = r.result /\ s.saw = r.saw /\ (r.result # None => s.age = r.age)
  <2>1. PICK r \in wire :
          s = IF r.result = None /\ r.age < AgeCap THEN [r EXCEPT !.age = @ + 1] ELSE r
    BY Zenon DEF Tick
  <2>2. Carries(r) /\ (r.waited => op[r.p] # None) /\ IsRequest(r) /\ r.age \in Nat
          /\ r.waited \in BOOLEAN
    BY DEF WireInv, Carries
  <2>3. CASE r.result = None /\ r.age < AgeCap
    <3>1. s = [r EXCEPT !.age = @ + 1]
      BY <2>1, <2>3
    <3>2. /\ Same(s, r) /\ s.age = r.age + 1 /\ s.result = r.result /\ s.saw = r.saw
          /\ s.waited = r.waited
      BY <2>2, <3>1, OlderRequest
    <3>3. s.age \in Nat /\ s.waited \in BOOLEAN
      BY <2>2, <3>2
    <3>. QED
      BY <2>1, <2>2, <2>3, <3>2, <3>3, Zenon
  <2>4. CASE ~(r.result = None /\ r.age < AgeCap)
    BY Zenon, <2>1, <2>2, <2>4, SameItself
  <2>. QED
    BY <2>3, <2>4
<1>4. WireInv'
  <2>1. ASSUME NEW s \in wire' PROVE Carries(s)' /\ (s.waited => op'[s.p] # None)
    <3>1. PICK r \in wire :
            /\ Carries(r) /\ (r.waited => op[r.p] # None)
            /\ Same(s, r) /\ s.age \in Nat /\ s.waited = r.waited /\ s.waited \in BOOLEAN
            /\ s.result = r.result
      BY <1>3
    <3>2. sent' >= sent /\ entered' >= entered
      BY SMT, SMTT(30), <1>1 DEF PlaneTypes
    <3>3. Carries(s)'
      BY <1>1, <1>2, <3>1, <3>2, SameCarries
    <3>. QED
      BY <1>1, <3>1, <3>3 DEF Same
  <2>2. ASSUME NEW s \in wire', NEW t \in wire', s # t PROVE Apart(s, t)
    <3>1. PICK r \in wire :
            /\ s = IF r.result = None /\ r.age < AgeCap THEN [r EXCEPT !.age = @ + 1] ELSE r
            /\ Same(s, r) /\ s.waited = r.waited /\ s.waited \in BOOLEAN
      BY <1>3
    <3>2. PICK q \in wire :
            /\ t = IF q.result = None /\ q.age < AgeCap THEN [q EXCEPT !.age = @ + 1] ELSE q
            /\ Same(t, q) /\ t.waited = q.waited /\ t.waited \in BOOLEAN
      BY <1>3
    <3>3. r # q
      BY <2>2, <3>1, <3>2
    <3>4. Apart(r, q)
      BY <3>3 DEF WireInv
    <3>. QED
      BY Zenon, <3>1, <3>2, <3>4, SameApart
  <2>3. wire' # {} => Connected'
    BY Zenon, <1>1, <1>3 DEF WireInv, Connected
  <2>. QED
    BY ZenonT(40), <2>1, <2>2, <2>3 DEF WireInv
<1>5. PairingHonoured' /\ ErasedAsShown'
  <2>1. ASSUME NEW s \in wire'
        PROVE  \/ s.result = None
               \/ \E r \in wire : /\ s.result = r.result /\ s.age = r.age
                                  /\ s.rpc = r.rpc /\ s.shown = r.shown /\ s.saw = r.saw
    BY <1>3 DEF Same
  <2>. QED
    BY <1>1, <2>1, AnswersKept
<1>6. ASSUME NEW p \in Operators PROVE InTime(p)'
  <2>1. CASE op[p] = None
    BY Zenon, <1>1, <2>1, NoneAssumption DEF InTime, PlaneTypes
  <2>2. CASE op[p] # None
    <3>1. spent'[p] + left'[p] = spent[p] + left[p] /\ op'[p] = op[p]
      BY <1>1, <2>2 DEF PlaneTypes
    <3>2. ASSUME NEW s \in wire', Waits(p, s), s.rpc = "PreviewErasure"
          PROVE  \E r \in wire : Waits(p, r) /\ r.rpc = "PreviewErasure"
      BY SMT, SMTT(30), <1>3, <3>2 DEF Same, Waits
    <3>. QED
      BY <2>2, <3>1, <3>2 DEF InTime
  <2>. QED
    BY Zenon, <2>1, <2>2
<1>. QED
  BY <1>2, <1>4, <1>5, <1>6

-------------------------------------------------------------------------------
(* The runtime. *)

\* The requests of an accepted pairing are refused for their audience and for
\* the clock, and for nothing else.
LEMMA RefusalReasons ==
    ASSUME PlaneTypes, NEW r, Carries(r), r.result = None,
           NEW x, x = AuthRefusal(r, r.age + skew, burned, RuntimeAud)
    PROVE  \/ x = None
           \/ x = "audience" /\ auth.aud # RuntimeAud
           \/ x = "stale" /\ r.age + skew \notin -Window .. Window
<1>1. CASE r.token = None
  BY <1>1 DEF AuthRefusal
<1>2. CASE r.token # None /\ r.scheme # "DPoP"
  <2>1. ~Bound(r.token) /\ r.scheme = "Bearer"
    BY <1>2 DEF Carries
  <2>. QED
    BY Zenon, <1>2, <2>1 DEF AuthRefusal, Bound
<1>3. CASE r.token # None /\ r.scheme = "DPoP"
  <2>1. Bound(r.token) /\ Proven(r)
    BY Zenon, <1>3 DEF Carries
  <2>2. r.age + skew + 0 = r.age + skew
    BY DEF Carries, PlaneTypes
  <2>3. x = IF r.proof.htu # <<RuntimeAud, r.rpc>> THEN "audience"
            ELSE IF r.age + skew + r.proof.signed \notin -Window .. Window THEN "stale"
            ELSE IF r.proof.jti \in burned THEN "replay" ELSE None
    BY Zenon, <1>3, <2>1 DEF AuthRefusal, Bound, Proven
  <2>4. r.proof.signed = 0 /\ r.proof.jti \notin burned /\ r.proof.htu = <<auth.aud, r.rpc>>
    BY <2>1 DEF Proven
  <2>. QED
    BY Zenon, <2>2, <2>3, <2>4
<1>. QED
  BY <1>1, <1>2, <1>3

\* A request is answered: what the answer is, and what it shows.
LEMMA ServeAnswers ==
    ASSUME PlaneInv, NEW r \in wire, Serve(r)
    PROVE  \E s : /\ wire' = (wire \ {r}) \cup {s}
                  /\ Same(s, r) /\ s.age = r.age /\ s.waited = r.waited /\ s.result # None
                  /\ \/ s.result \in {"done", "count", "argument"}
                     \/ s.result = "audience" /\ auth.aud # RuntimeAud
                     \/ s.result = "stale" /\ r.age + skew \notin -Window .. Window
                  /\ s.shown # None /\ s.rpc = "EraseSubject" =>
                       /\ s.result = "done" =>
                            Cardinality(s.saw.would_erase) = Cardinality(s.shown.would_erase)
                       /\ s.result = "count" => s.saw.would_erase # s.shown.would_erase
<1>. DEFINE x == AuthRefusal(r, r.age + skew, burned, RuntimeAud)
            saw == IF r.rpc \in {"PreviewErasure", "EraseSubject"}
                   THEN [would_erase |-> WouldErase, held |-> held] ELSE None
            Made(a) == wire' = (wire \ {r}) \cup {[r EXCEPT !.result = a, !.saw = saw]}
<1>1. Carries(r) /\ IsRequest(r) /\ r.result = None /\ PlaneTypes
  BY Zenon DEF Serve, PlaneInv, WireInv, Carries
<1>2. \/ x = None
      \/ x = "audience" /\ auth.aud # RuntimeAud
      \/ x = "stale" /\ r.age + skew \notin -Window .. Window
  BY <1>1, RefusalReasons
<1>3. \E a : /\ Made(a) /\ a # None
             /\ \/ a = x
                \/ /\ a \in {"done", "count", "argument"}
                   /\ r.rpc = "EraseSubject" =>
                        IF r.args.count = Cardinality(WouldErase) THEN a = "done" ELSE a = "count"
  <2>. HIDE DEF saw, x, Made
  <2>1. CASE x # None
    <3>1. Made(x)
      BY Zenon, <2>1 DEF Serve, x, Made, saw
    <3>. QED
      BY <2>1, <3>1
  <2>2. CASE x = None
    <3>1. CASE r.rpc \in PlainMethods \cup {"PreviewErasure"} \/ r.rpc = "EnforceRetention"
      <4>1. Made("done")
        BY Zenon, <2>2, <3>1 DEF Serve, x, Made, saw, PlainMethods, TenantMethods, PartyMethods,
           GrantMethods, Holds
      <4>2. r.rpc # "EraseSubject"
        BY <3>1 DEF PlainMethods, TenantMethods, PartyMethods, GrantMethods
      <4>. QED
        BY <4>1, <4>2, NoneAssumption
    <3>2. CASE r.rpc = "EraseSubject"
      <4>1. IF r.args.count = Cardinality(WouldErase) THEN Made("done") ELSE Made("count")
        BY <2>2, <3>2 DEF Serve, x, Made, saw, PlainMethods, TenantMethods, PartyMethods,
           GrantMethods, Holds
      <4>. QED
        BY <4>1, NoneAssumption
    <3>3. CASE r.rpc \in Holds
      <4>1. Made("done") \/ Made("argument")
        BY Zenon, <2>2, <3>3 DEF Serve, x, Made, saw, PlainMethods, TenantMethods, PartyMethods,
           GrantMethods, Holds
      <4>. QED
        BY <3>3, <4>1, NoneAssumption DEF Holds
    <3>. QED
      BY Zenon, <2>2, <3>1, <3>2, <3>3 DEF Serve, x
  <2>. QED
    BY <2>1, <2>2
<1>4. PICK a : /\ Made(a) /\ a # None
               /\ \/ a = x
                  \/ /\ a \in {"done", "count", "argument"}
                     /\ r.rpc = "EraseSubject" =>
                          IF r.args.count = Cardinality(WouldErase) THEN a = "done" ELSE a = "count"
  BY Zenon, <1>3
<1>a. PICK y : y = saw
  BY Zenon
<1>5. PICK s : s = [r EXCEPT !.result = a, !.saw = y]
  OBVIOUS
<1>6. Same(s, r) /\ s.age = r.age /\ s.waited = r.waited /\ s.result = a /\ s.saw = y
  BY Zenon, <1>1, <1>5 DEF IsRequest, Same
<1>7. wire' = (wire \ {r}) \cup {s}
  BY <1>4, <1>a, <1>5
<1>8. \/ a \in {"done", "count", "argument"}
      \/ a = "audience" /\ auth.aud # RuntimeAud
      \/ a = "stale" /\ r.age + skew \notin -Window .. Window
  BY <1>2, <1>4
<1>9. ASSUME s.shown # None, s.rpc = "EraseSubject"
      PROVE  /\ a = "done" => Cardinality(s.saw.would_erase) = Cardinality(s.shown.would_erase)
             /\ a = "count" => s.saw.would_erase # s.shown.would_erase
  <2>1. r.args.count = Cardinality(s.shown.would_erase) /\ r.rpc = "EraseSubject"
    BY <1>1, <1>6, <1>9 DEF Carries, Same
  <2>2. s.saw.would_erase = WouldErase
    BY <1>a, <1>6, <2>1
  <2>3. a = "done" => r.args.count = Cardinality(WouldErase)
    BY <1>2, <1>4, <2>1
  <2>4. a = "count" => r.args.count # Cardinality(WouldErase)
    BY <1>2, <1>4, <2>1
  <2>. QED
    BY ZenonT(40), <2>1, <2>2, <2>3, <2>4
<1>. QED
  BY <1>4, <1>6, <1>7, <1>8, <1>9

LEMMA ServeKeeps ==
    ASSUME PlaneInv, NEW r \in wire, Serve(r)
    PROVE  PlaneInv'
<1>1. /\ UNCHANGED <<pairing, skew, auth, op, left, spent, entered, sent>>
      /\ burned' = burned \/ (r.proof # None /\ burned' = burned \cup {r.proof.jti})
      /\ r.result = None
  BY Zenon DEF Serve, client
<1>2. PICK s : /\ wire' = (wire \ {r}) \cup {s}
               /\ Same(s, r) /\ s.age = r.age /\ s.waited = r.waited /\ s.result # None
               /\ \/ s.result \in {"done", "count", "argument"}
                  \/ s.result = "audience" /\ auth.aud # RuntimeAud
                  \/ s.result = "stale" /\ r.age + skew \notin -Window .. Window
               /\ s.shown # None /\ s.rpc = "EraseSubject" =>
                    /\ s.result = "done" =>
                         Cardinality(s.saw.would_erase) = Cardinality(s.shown.would_erase)
                    /\ s.result = "count" => s.saw.would_erase # s.shown.would_erase
  BY Zenon, ServeAnswers
<1>3. /\ PlaneTypes /\ WireInv /\ PairingHonoured /\ ErasedAsShown /\ Carries(r)
      /\ (r.waited => op[r.p] # None) /\ \A p \in Operators : InTime(p)
  BY Zenon DEF PlaneInv, WireInv
<1>4. r.proof # None => r.scheme = "DPoP" /\ r.proof.jti \in 1..sent
  BY Zenon, <1>3 DEF Carries, Proven
<1>5. PlaneTypes'
  <2>1. burned' \subseteq 1..sent
    BY Zenon, <1>1, <1>3, <1>4 DEF PlaneTypes
  <2>. QED
    BY <1>1, <1>3, <2>1 DEF PlaneTypes, Connected
<1>6. WireInv'
  <2>1. \A q \in wire : q.waited /\ q # r => op'[q.p] # None
    BY Zenon, <1>1, <1>3 DEF WireInv
  <2>2. s.waited \in {r.waited, FALSE} /\ (s.waited => op'[r.p] # None)
    BY Zenon, <1>1, <1>2, <1>3
  <2>3. \/ burned' = burned
        \/ s.result # None /\ r.scheme = "DPoP" /\ burned' = burned \cup {r.proof.jti}
    BY <1>1, <1>2, <1>4
  <2>. QED
    BY Zenon, <1>1, <1>2, <1>3, <1>5, <2>1, <2>2, <2>3, ReplaceWire
<1>7. PairingHonoured'
  <2>1. /\ s.result \notin {"scheme", "binding", "replay"}
        /\ s.result = "audience" => auth.aud # RuntimeAud
        /\ s.result = "stale" => s.age + skew \notin -Window .. Window
    BY Zenon, <1>2
  <2>. QED
    BY Zenon, <1>1, <1>2, <1>3, <2>1 DEF PairingHonoured
<1>8. ErasedAsShown'
  BY Zenon, <1>2, <1>3 DEF ErasedAsShown
<1>9. ASSUME NEW p \in Operators PROVE InTime(p)'
  <2>1. InTime(p) /\ UNCHANGED <<op, spent, left>>
    BY <1>1, <1>3
  <2>2. ASSUME NEW q \in wire', op[p] = "EraseSubjectConfirmed",
               q.p = p /\ q.waited, q.rpc = "PreviewErasure"
        PROVE  spent[p] + left[p] <= CallTimeout
    <3>1. \E q0 \in wire : q0.p = q.p /\ q0.waited = q.waited /\ q0.rpc = q.rpc
      BY <1>2, Zenon DEF Same
    <3>. QED
      BY Zenon, <2>1, <2>2, <3>1 DEF InTime, Waits
  <2>. QED
    BY ZenonT(40), <2>1, <2>2 DEF InTime, Waits
<1>. QED
  BY <1>5, <1>6, <1>7, <1>8, <1>9 DEF PlaneInv

LEMMA StutterKeeps ==
    ASSUME PlaneInv, UNCHANGED planeVars
    PROVE  PlaneInv'
<1>1. UNCHANGED <<pairing, skew, auth, op, left, spent, wire, entered, sent, burned>>
  BY DEF planeVars
<1>2. PlaneTypes' /\ WireInv'
  BY ZenonT(40), <1>1 DEF PlaneInv, PlaneTypes, WireInv, Connected, Carries, Proven
<1>3. PairingHonoured' /\ ErasedAsShown' /\ \A p \in Operators : InTime(p)'
  BY Zenon, <1>1 DEF PlaneInv, PairingHonoured, ErasedAsShown, InTime
<1>. QED
  BY <1>2, <1>3 DEF PlaneInv

\* Every method enters with a call.
LEMMA MethodsEnter ==
    ASSUME NEW p \in Operators,
           \/ PreviewErasure(p) \/ EraseSubject(p) \/ EraseSubjectConfirmed(p)
           \/ EnforceRetention(p) \/ LegalHold(p) \/ Govern(p)
    PROVE  \E m \in Methods : \E rpc, args : Enter(p, m, rpc, args)
<1>1. /\ "PreviewErasure" \in Methods /\ "EraseSubject" \in Methods
      /\ "EraseSubjectConfirmed" \in Methods /\ "EnforceRetention" \in Methods
      /\ Holds \subseteq Methods /\ Governed \subseteq Methods
  BY Zenon, PlaneAssumption DEF Methods
<1>. QED
  BY <1>1, Zenon DEF PreviewErasure, EraseSubject, EraseSubjectConfirmed, EnforceRetention, LegalHold,
     Govern

LEMMA NextPlane == PlaneInv /\ [PlaneNext]_planeVars => PlaneInv'
<1>. SUFFICES ASSUME PlaneInv, [PlaneNext]_planeVars PROVE PlaneInv'
  OBVIOUS
<1>1. ASSUME NEW p \in Operators,
             \/ PreviewErasure(p) \/ EraseSubject(p) \/ EraseSubjectConfirmed(p)
             \/ EnforceRetention(p) \/ LegalHold(p) \/ Govern(p)
      PROVE  PlaneInv'
  <2>1. PICK m \in Methods : \E rpc, args : Enter(p, m, rpc, args)
    BY <1>1, MethodsEnter
  <2>. QED
    BY <2>1, EnterKeeps
<1>2. ASSUME NEW p \in Operators, Answered(p) \/ Confirm(p) \/ Deadline(p)
      PROVE  PlaneInv'
  BY <1>2, AnsweredKeeps, ConfirmKeeps, DeadlineKeeps
<1>3. ASSUME NEW r \in wire, Serve(r) PROVE PlaneInv'
  BY <1>3, ServeKeeps
<1>4. ASSUME NEW d \in Decisions, Seal(d) PROVE PlaneInv'
  BY <1>4, SealKeeps
<1>. QED
  BY <1>1, <1>2, <1>3, <1>4, ConnectKeeps, TickKeeps, StutterKeeps DEF PlaneNext

-------------------------------------------------------------------------------
(* The theorems. *)

LEMMA PlaneInvariance == PlaneSpec => []PlaneInv
BY InitPlane, NextPlane, PTL DEF PlaneSpec

\* Every pairing that connect accepts works for every request of every thread:
\* none is refused for its scheme, for its key or for a proof id seen before,
\* and for its audience or its age only when the caller, the token, the clock
\* or the way is at fault (_management_auth and the interceptors).
THEOREM AcceptedPairingsWork == PlaneSpec => []PairingHonoured
<1>1. PlaneInv => PairingHonoured
  BY DEF PlaneInv
<1>. QED
  BY <1>1, PlaneInvariance, PTL

\* erase_subject_confirmed erases as many decisions as its preview showed or
\* nothing, whatever other threads, holds, retention, sealing and late requests
\* do between its two calls.
THEOREM ErasuresMatchPreviews == PlaneSpec => []ErasedAsShown
<1>1. PlaneInv => ErasedAsShown
  BY Zenon DEF PlaneInv
<1>. QED
  BY <1>1, PlaneInvariance, PTL

\* No invocation has two requests on the wire, so none is carried out twice,
\* a late one after DEADLINE_EXCEEDED included: the client never resends.
THEOREM CallsAreNotRepeated == PlaneSpec => []AtMostOnce
<1>1. PlaneInv => AtMostOnce
  BY Zenon DEF PlaneInv, WireInv, Apart, AtMostOnce
<1>. QED
  BY <1>1, PlaneInvariance, PTL

\* No method stays in its call beyond the timeout passed to it, and the
\* confirmed erasure not beyond twice that (timeout= of admin.py).
THEOREM MethodsEndInTime == PlaneSpec => []WithinTimeout
<1>1. PlaneInv => WithinTimeout
  <2>. SUFFICES ASSUME PlaneInv, NEW p \in Operators
                PROVE  spent[p] <= IF op[p] = "EraseSubjectConfirmed" THEN 2 * CallTimeout
                                   ELSE CallTimeout
    BY DEF WithinTimeout
  <2>1. spent[p] \in Nat /\ left[p] \in Nat /\ InTime(p)
    BY DEF PlaneInv, PlaneTypes
  <2>. QED
    BY <2>1, PlaneAssumption, NoneAssumption DEF InTime
<1>. QED
  BY <1>1, PlaneInvariance, PTL
=============================================================================
