--------------------------- MODULE VerdictProofs ----------------------------
(***************************************************************************)
(* What the verifiers, decoders and builders conclude, for every input of  *)
(* the right shape and any amount of damage, not only for the inputs the   *)
(* model checker enumerates.                                               *)
(*                                                                         *)
(* First each verifier by itself: what it answers for an original that its *)
(* producer can have made and anything that may have become of it.  Then   *)
(* the inductive invariant, that the two forms of the input in hand stand  *)
(* in that relation whatever was done to it, and the theorems.             *)
(***************************************************************************)
EXTENDS VerdictChecks, WellFoundedInduction, TLAPS
-----------------------------------------------------------------------------
(* The first refusal of a list of checks.                                  *)

LEMMA LeastOf ==
    ASSUME NEW S \in SUBSET Nat, S # {}
    PROVE  Min(S) \in S /\ \A y \in S : Min(S) =< y
<1>1. PICK x \in S : \A y \in S : ~(<<y, x>> \in OpToRel(<, Nat))
  BY Zenon, NatLessThanWellFounded, WFMin DEF OpToRel
<1>2. \A y \in S : ~(y < x)
  BY Zenon, <1>1 DEF OpToRel
<1>3. \A y \in S : x =< y
  BY <1>2
<1>. QED
  BY Zenon, <1>3 DEF Min

\* Every check passes and the answer is ok, or the answer is the first check
\* that does not pass.
LEMMA FirstRefusalIs ==
    ASSUME NEW checks, NEW ok, Len(checks) \in Nat
    PROVE  \/ (\A i \in 1 .. Len(checks) : checks[i] = None) /\ FirstRefusal(checks, ok) = ok
           \/ \E i \in 1 .. Len(checks) : /\ checks[i] # None /\ FirstRefusal(checks, ok) = checks[i]
                                          /\ \A j \in 1 .. i - 1 : checks[j] = None
<1>. DEFINE S == {i \in 1 .. Len(checks) : checks[i] # None}
<1>1. FirstRefusal(checks, ok) = IF S = {} THEN ok ELSE checks[Min(S)]
  BY DEF FirstRefusal
<1>2. CASE S = {}
  <2>1. \A i \in 1 .. Len(checks) : checks[i] = None
    BY <1>2
  <2>. QED
    BY <1>1, <1>2, <2>1
<1>3. CASE S # {}
  <2>1. S \in SUBSET Nat
    OBVIOUS
  <2>2. Min(S) \in S /\ \A y \in S : Min(S) =< y
    BY Zenon, <1>3, <2>1, LeastOf
  <2>3. Min(S) \in 1 .. Len(checks) /\ Min(S) # 0 /\ checks[Min(S)] # None
    BY <2>2
  <2>4. FirstRefusal(checks, ok) = checks[Min(S)]
    BY <1>1, <1>3, <2>3
  <2>5. \A j \in 1 .. Min(S) - 1 : checks[j] = None
    BY <2>2, <2>3
  <2>. QED
    BY Zenon, <2>3, <2>4, <2>5
<1>. QED
  BY <1>2, <1>3

LEMMA RaiseRefuses ==
    ASSUME NEW e
    PROVE  IsRefusal(Raise(e)) /\ Raise(e).raised = e /\ (e \in Errors => Raise(e) # None)
BY VerdictAssumption DEF IsRefusal, Raise

LEMMA RaiseForRefuses ==
    ASSUME NEW e, NEW f
    PROVE  /\ IsRefusal(RaiseFor(e, f)) /\ RaiseFor(e, f).raised = e /\ RaiseFor(e, f).field = f
           /\ e \in {"strip", "type"} /\ f \in Slots => RaiseFor(e, f) # None
BY VerdictAssumption DEF IsRefusal, RaiseFor

LEMMA AnswerIsNoRefusal ==
    ASSUME NEW b
    PROVE  ~IsRefusal(Answer(b)) /\ Answer(b).answer = b
BY DEF IsRefusal, Answer
-----------------------------------------------------------------------------
(* Answers of the runtime.                                                 *)

LEMMA VerdictNames ==
    ASSUME NEW n \in Int
    PROVE  /\ n \in DOMAIN AuthorizeVerdicts <=> n \in 1 .. 4
           /\ n \in 1 .. 4 => (AuthorizeVerdicts[n] = "TRANSFORM" <=> n = 3)
           /\ n \in DOMAIN CollectiveVerdicts <=> n \in 1 .. 5
           /\ n \in 1 .. 5 => CollectiveVerdicts[n] \in {CollectiveVerdicts[m] : m \in 1 .. 5}
           /\ Named(Availabilities, n) = "RECORDED" <=> n = 1
           /\ Named(Reasons, n) = "COMMIT" <=> n = 1
<1>1. n \in DOMAIN AuthorizeVerdicts <=> n \in 1 .. 4
  BY DEF AuthorizeVerdicts
<1>2. n \in DOMAIN CollectiveVerdicts <=> n \in 1 .. 5
  BY DEF CollectiveVerdicts
<1>3. ASSUME n \in 1 .. 4
      PROVE  AuthorizeVerdicts[n] = "TRANSFORM" <=> n = 3
  <2>1. n = 1 \/ n = 2 \/ n = 3 \/ n = 4
    BY <1>3
  <2>. QED
    BY <2>1 DEF AuthorizeVerdicts
<1>4. n \in 1 .. 5 => CollectiveVerdicts[n] \in {CollectiveVerdicts[m] : m \in 1 .. 5}
  OBVIOUS
<1>5. Named(Availabilities, n) = "RECORDED" <=> n = 1
  <2>1. CASE n \notin 1 .. 6
    BY <2>1 DEF Availabilities, Named
  <2>2. CASE n = 1 \/ n = 2 \/ n = 3 \/ n = 4 \/ n = 5 \/ n = 6
    BY <2>2 DEF Availabilities, Named
  <2>. QED
    BY <2>1, <2>2
<1>6. Named(Reasons, n) = "COMMIT" <=> n = 1
  <2>1. CASE n \notin 1 .. 4
    BY <2>1 DEF Reasons, Named
  <2>2. CASE n = 1 \/ n = 2 \/ n = 3 \/ n = 4
    BY <2>2 DEF Reasons, Named
  <2>. QED
    BY <2>1, <2>2
<1>. QED
  BY <1>1, <1>2, <1>3, <1>4, <1>5, <1>6

\* Every answer whose enums are integers: any verdict, availability and reason,
\* known to this build or not.
AnyOutcome == [verdict : Int, effective_threshold : Int]
AnyAnswer(x) ==
    /\ x.verdict \in Int /\ x.transformed_input # None
    /\ x.collective_outcome = None \/ x.collective_outcome \in AnyOutcome
    /\ x.policy_enforcement \in Policies
    /\ x.seal_attestation # None
    /\ x.seal_attestation.availability \in Int /\ x.seal_attestation.seal_reason \in Int
    /\ x.seal_attestation.collective_outcome = x.collective_outcome

LEMMA DecodeFailsClosed ==
    ASSUME NEW o \in AnyOutcome
    PROVE  /\ DecodeCollective(o) # None
           /\ IsRefusal(DecodeCollective(o)) <=> o.verdict \notin DOMAIN CollectiveVerdicts
<1>1. o.verdict \in Int /\ o.effective_threshold \in Int
  BY DEF AnyOutcome
<1>2. CASE o.verdict \notin DOMAIN CollectiveVerdicts
  BY Zenon, <1>2, RaiseRefuses DEF DecodeCollective, Errors
<1>3. CASE o.verdict \in DOMAIN CollectiveVerdicts
  <2>1. DecodeCollective(o) = [verdict |-> CollectiveVerdicts[o.verdict],
                               effective_threshold |-> o.effective_threshold]
    BY <1>3 DEF DecodeCollective
  <2>2. CollectiveVerdicts[o.verdict] \in {CollectiveVerdicts[m] : m \in 1 .. 5}
    BY <1>1, <1>3, VerdictNames
  <2>3. DecodeCollective(o) # None
    BY <1>1, <2>1, <2>2, VerdictAssumption
  <2>4. ~IsRefusal(DecodeCollective(o))
    BY <2>1 DEF IsRefusal
  <2>. QED
    BY <1>3, <2>3, <2>4
<1>. QED
  BY <1>2, <1>3

\* What policy_enforcement_of makes of a statement on the wire.
PolicyReading(p) ==
    IF ~p.present THEN None
    ELSE [enforced |-> p.enforced, policy_id |-> IF p.id_present THEN p.policy_id ELSE None]

\* Absent, and present in any of its forms, are read apart: presence is asked of
\* the field and of its id.
LEMMA PoliciesAreToldApart ==
    ASSUME NEW p \in Policies, NEW q \in Policies, PolicyReading(p) = PolicyReading(q)
    PROVE  p = q
<1>. DEFINE Shape(w) == w = [present |-> w.present, enforced |-> w.enforced,
                             id_present |-> w.id_present, policy_id |-> w.policy_id]
<1>0. PICK empty, texts : empty = "" /\ texts = {"", "t"}
  BY Zenon
<1>1. ASSUME NEW w \in Policies
      PROVE  /\ Shape(w) /\ w.present \in BOOLEAN /\ w.enforced \in BOOLEAN /\ w.id_present \in BOOLEAN
             /\ w.policy_id \in texts
             /\ ~w.present => ~w.enforced /\ ~w.id_present
             /\ ~w.id_present => w.policy_id = empty
  <2>1. w \in [present : BOOLEAN, enforced : BOOLEAN, id_present : BOOLEAN, policy_id : texts]
    BY Zenon, <1>0 DEF Policies
  <2>2. Shape(w) /\ w.policy_id \in texts
    BY SMT, SMTT(30), <2>1
  <2>3. w.present \in BOOLEAN /\ w.enforced \in BOOLEAN /\ w.id_present \in BOOLEAN
    BY Zenon, <2>1
  <2>4. (~w.present => ~w.enforced /\ ~w.id_present) /\ (~w.id_present => w.policy_id = empty)
    BY Zenon, <1>0 DEF Policies
  <2>. QED
    BY Zenon, <2>2, <2>3, <2>4
<1>2. ASSUME NEW w \in Policies PROVE PolicyReading(w) = None <=> ~w.present
  <2>1. ASSUME w.present PROVE PolicyReading(w) \in [enforced : BOOLEAN, policy_id : {None} \cup texts]
    <3>1. PICK id : id = IF w.id_present THEN w.policy_id ELSE None
      BY Zenon
    <3>2. id \in {None} \cup texts /\ w.enforced \in BOOLEAN
      BY Zenon, <1>1, <3>1
    <3>3. PolicyReading(w) = [enforced |-> w.enforced, policy_id |-> id]
      BY Zenon, <2>1, <3>1 DEF PolicyReading
    <3>. QED
      BY SMT, SMTT(30), <3>2, <3>3
  <2>2. {None} \cup texts = {None, "", "t"}
    BY Zenon, <1>0
  <2>. QED
    BY Zenon, <2>1, <2>2, InputsAssumption DEF PolicyReading
<1>3. CASE ~p.present
  <2>1. ~q.present
    BY Zenon, <1>2, <1>3
  <2>2. /\ p.present = q.present /\ p.enforced = q.enforced /\ p.id_present = q.id_present
        /\ p.policy_id = q.policy_id
    BY Zenon, <1>1, <1>3, <2>1
  <2>. QED
    BY Zenon, <1>1, <2>2
<1>4. CASE p.present
  <2>1. q.present
    BY Zenon, <1>2, <1>4
  <2>2. PolicyReading(p).enforced = p.enforced /\ PolicyReading(q).enforced = q.enforced
    BY SMT, SMTT(30), <1>4, <2>1 DEF PolicyReading
  <2>3. /\ PolicyReading(p).policy_id = IF p.id_present THEN p.policy_id ELSE None
        /\ PolicyReading(q).policy_id = IF q.id_present THEN q.policy_id ELSE None
    BY SMT, SMTT(30), <1>4, <2>1 DEF PolicyReading
  <2>4. None \notin texts
    BY Zenon, <1>0, VerdictAssumption DEF MarkedTexts
  <2>5. p.present = q.present /\ p.enforced = q.enforced
    BY Zenon, <1>1, <1>4, <2>1, <2>2
  <2>6. p.id_present = q.id_present
    <3>1. IF p.id_present THEN PolicyReading(p).policy_id \in texts ELSE PolicyReading(p).policy_id = None
      BY Zenon, <1>1, <2>3
    <3>2. IF q.id_present THEN PolicyReading(q).policy_id \in texts ELSE PolicyReading(q).policy_id = None
      BY Zenon, <1>1, <2>3
    <3>3. p.id_present <=> q.id_present
      BY Zenon, <2>4, <3>1, <3>2
    <3>4. p.id_present \in BOOLEAN /\ q.id_present \in BOOLEAN
      BY Zenon, <1>1
    <3>5. \A a, b \in BOOLEAN : (a <=> b) => a = b
      OBVIOUS
    <3>. QED
      BY Zenon, <3>3, <3>4, <3>5
  <2>7. p.policy_id = q.policy_id
    BY Zenon, <1>1, <2>3, <2>6
  <2>. QED
    BY Zenon, <1>1, <2>5, <2>6, <2>7
<1>. QED
  BY Zenon, <1>3, <1>4, <1>1

\* Whatever integers the runtime answers with, no value this build does not know
\* becomes one it knows (result_of, collective_outcome_of, seal_attestation_of,
\* policy_enforcement_of).
LEMMA EveryAnswerFailsClosed ==
    ASSUME NEW x, AnyAnswer(x)
    PROVE  FailsClosed(x)
<1>. DEFINE o == x.collective_outcome
            att == x.seal_attestation
            binding == att.availability = 1 /\ att.seal_reason = 1
<1>1. /\ IsRefusal(ResultOf(x)) <=> x.verdict \notin 1 .. 4 \/ (x.verdict = 3 /\ x.transformed_input = "")
      /\ ~IsRefusal(ResultOf(x)) => (ResultOf(x).transformed_input # None <=> x.verdict = 3)
  <2>1. CASE x.verdict \notin 1 .. 4
    BY Zenon, <2>1, VerdictNames, RaiseRefuses DEF ResultOf, AnyAnswer
  <2>2. CASE x.verdict = 3 /\ x.transformed_input = ""
    BY Zenon, <2>2, VerdictNames, RaiseRefuses DEF ResultOf, AnyAnswer
  <2>3. CASE x.verdict \in 1 .. 4 /\ ~(x.verdict = 3 /\ x.transformed_input = "")
    BY Zenon, <2>3, VerdictNames DEF ResultOf, AnyAnswer, IsRefusal
  <2>. QED
    BY Zenon, <2>1, <2>2, <2>3
<1>2. CollectiveOutcomeOf(x) # None /\ ~IsRefusal(CollectiveOutcomeOf(x)) => Known(o)
  BY DecodeFailsClosed DEF CollectiveOutcomeOf, Known, AnyAnswer
<1>3. /\ IsRefusal(SealAttestationOf(x)) <=> binding /\ o # None /\ ~Known(o)
      /\ ~IsRefusal(SealAttestationOf(x)) /\ SealAttestationOf(x).collective_outcome # None => binding
  <2>1. CASE att.availability # 1
    BY <2>1, VerdictNames DEF SealAttestationOf, AnyAnswer, IsRefusal
  <2>2. CASE att.availability = 1 /\ (att.seal_reason # 1 \/ o = None)
    BY <2>2, VerdictNames DEF SealAttestationOf, AnyAnswer, IsRefusal
  <2>3. CASE binding /\ o # None
    BY <2>3, VerdictNames, DecodeFailsClosed DEF SealAttestationOf, AnyAnswer, IsRefusal, Known
  <2>. QED
    BY <2>1, <2>2, <2>3
<1>4. ASSUME NEW p \in Policies,
             PolicyEnforcementOf([policy_enforcement |-> p]) = PolicyEnforcementOf(x)
      PROVE  p = x.policy_enforcement
  <2>1. PICK q \in Policies : q = x.policy_enforcement
    BY Zenon DEF AnyAnswer
  <2>2. PolicyReading(p) = PolicyReading(q)
    BY <1>4, <2>1 DEF PolicyEnforcementOf, PolicyReading
  <2>. QED
    BY Zenon, <2>1, <2>2, PoliciesAreToldApart
<1>. QED
  BY Zenon, <1>1, <1>2, <1>3, <1>4 DEF FailsClosed
-----------------------------------------------------------------------------
(* Requests.                                                               *)

\* The input of a request is ambiguous or cannot be canonicalized.
Unusable(x) ==
    \/ x.tool_input # None /\ x.canonical # None
    \/ x.tool_input = Odd \/ x.canonical \in {Odd, ""}

\* Whoever asks for whatever, with whatever ticket: a request that is built
\* verifies, and it is not built just when its input is ambiguous or cannot be
\* canonicalized (build_authorize_request).
LEMMA EveryRequestVerifies ==
    ASSUME NEW agent, NEW ticket, NEW x
    PROVE  BuiltVerifies(agent, ticket, x)
<1>. DEFINE r == BuildAuthorizeRequest(agent, ticket, x)
<1>0. None # "" /\ None # Odd
  BY Zenon, VerdictAssumption DEF MarkedTexts
<1>1. \/ ResolveCanonical(x) = Raise("canonicalization") /\ Unusable(x)
      \/ (\E y : ResolveCanonical(x) = Digest(y)) /\ ~Unusable(x)
  <2>. USE DEF Unusable
  <2>1. CASE x.canonical = None /\ x.tool_input = Odd
    BY Zenon, <2>1, VerdictAssumption DEF ResolveCanonical
  <2>2. CASE x.canonical = None /\ x.tool_input # Odd
    <3>1. ResolveCanonical(x) = IF x.tool_input = None THEN Digest("{}") ELSE Digest(x.tool_input)
      BY Zenon, <2>2 DEF ResolveCanonical
    <3>2. ~Unusable(x)
      BY Zenon, <1>0, <2>2
    <3>. QED
      BY Zenon, <3>1, <3>2
  <2>3. CASE x.canonical # None
    <3>1. ResolveCanonical(x) = IF x.tool_input # None \/ x.canonical \in {Odd, ""}
                                THEN Raise("canonicalization") ELSE Digest(x.canonical)
      BY <2>3 DEF ResolveCanonical
    <3>2. CASE x.tool_input # None \/ x.canonical \in {Odd, ""}
      BY Zenon, <2>3, <3>1, <3>2
    <3>3. CASE ~(x.tool_input # None \/ x.canonical \in {Odd, ""})
      <4>1. ~Unusable(x)
        BY Zenon, <1>0, <3>3
      <4>. QED
        BY Zenon, <3>1, <3>3, <4>1
    <3>. QED
      BY Zenon, <3>2, <3>3
  <2>. QED
    BY Zenon, <2>1, <2>2, <2>3
<1>2. CASE ResolveCanonical(x) = Raise("canonicalization")
  <2>1. IsRefusal(r) /\ ~\E y : ResolveCanonical(x) = Digest(y)
    BY <1>2, RaiseRefuses DEF BuildAuthorizeRequest, IsRefusal, Digest
  <2>2. Unusable(x)
    BY Zenon, <1>1, <2>1
  <2>. QED
    BY Zenon, <2>1, <2>2 DEF BuiltVerifies, Unusable
<1>3. ASSUME NEW y, ResolveCanonical(x) = Digest(y)
      PROVE  BuiltVerifies(agent, ticket, x)
  <2>0. ~Unusable(x)
    <3>1. Digest(y) # Raise("canonicalization")
      BY RaiseRefuses DEF IsRefusal, Digest
    <3>. QED
      BY Zenon, <1>1, <1>3, <3>1
  <2>1. ~IsRefusal(Digest(y)) /\ Digest(y).digest = y
    BY DEF IsRefusal, Digest
  <2>2. r = [ticket |-> ticket, tool_name |-> x.tool_name, tool_input_digest |-> Digest(y),
             call_sig |-> [key |-> agent, signed |-> CallSigned(ticket, Digest(y), x)],
             session_id |-> x.session_id, subject |-> x.subject, subjects |-> x.subjects,
             agent_id |-> x.agent_id, client_request_id |-> x.client_request_id,
             tool_input |-> IF x.digest_only THEN "" ELSE y,
             features |-> IF x.features = None THEN <<>> ELSE x.features]
    BY <1>3, <2>1 DEF BuildAuthorizeRequest
  <2>. HIDE DEF r
  <2>3. ~IsRefusal(r) /\ (x.digest_only => r.tool_input = "")
    BY Zenon, <2>2 DEF IsRefusal
  <2>4. CallSigned(r.ticket, r.tool_input_digest, r) = CallSigned(ticket, Digest(y), x)
    BY Zenon, <2>2 DEF CallSigned
  <2>5. RuntimeAccepts(agent, r)
    BY Zenon, <2>2, <2>4 DEF RuntimeAccepts
  <2>. QED
    BY Zenon, <2>0, <2>3, <2>5 DEF BuiltVerifies, Unusable, r
<1>. QED
  BY Zenon, <1>1, <1>2, <1>3

\* An enrolment as the agent of key k gave it away: without a proof, or with one
\* that enroll_pop made.
IsEnrolment(x) ==
    x = [subject_aid |-> x.subject_aid, tenant |-> x.tenant, namespace |-> x.namespace,
         kind |-> x.kind, pop |-> x.pop]
IsPop(p) == p = [issued_at_ms |-> p.issued_at_ms, nonce |-> p.nonce, signature |-> p.signature]
Given(k, was) ==
    /\ IsEnrolment(was) /\ was.subject_aid = k
    /\ was.pop # None =>
          /\ IsPop(was.pop)
          /\ was.pop.signature = [key |-> k, len |-> 64,
                                  signed |-> Consent(k, was.tenant, was.namespace,
                                                     was.pop.issued_at_ms, was.pop.nonce)]
          /\ was.pop.issued_at_ms \in 0 .. Max64
          /\ was.pop.nonce \notin {"", "long", "bad char", Odd}

\* The same enrolment on its way: any subject, tenant, namespace, instant and
\* nonce; what nobody else can make is another signature of the agent.
IsConsent(k, z, was) == z = [key |-> k, signed |-> was.pop.signature.signed, len |-> z.len]
PopArrived(k, p, was) ==
    p # Odd => /\ IsPop(p) /\ p.issued_at_ms \in Int \cup {Odd}
               /\ p.signature # Odd => IsConsent(k, p.signature, was)
Arrived(k, x, was) ==
    /\ IsEnrolment(x) /\ x.kind = was.kind
    /\ x.pop # None => was.pop # None /\ PopArrived(k, x.pop, was)

LEMMA UintSlotPasses ==
    ASSUME NEW n \in Int \cup {Odd}
    PROVE  /\ UintSlot(n) = None <=> n # Odd /\ n \in 0 .. Max64
           /\ UintSlot(n) # None => IsRefusal(UintSlot(n))
<1>1. Odd \notin 0 .. Max64
  BY VerdictAssumption
<1>. QED
  BY Zenon, <1>1, RaiseRefuses DEF UintSlot, Check, Errors

LEMMA NoncePasses ==
    ASSUME NEW nonce
    PROVE  /\ NonceRefusal(nonce) = None <=> nonce \notin {"", "long", "bad char", Odd}
           /\ NonceRefusal(nonce) # None => IsRefusal(NonceRefusal(nonce))
BY Zenon, RaiseRefuses DEF NonceRefusal, Check, Errors

\* _enroll_pop_pb refuses what is not well formed and passes the rest as it is.
LEMMA WireProof ==
    ASSUME NEW k, NEW x, NEW was, Arrived(k, x, was), x.pop # None
    PROVE  IF WellFormed(x.pop) THEN EnrollPopPb(x.pop) = x.pop
           ELSE EnrollPopPb(x.pop) # None /\ IsRefusal(EnrollPopPb(x.pop))
<1>1. CASE x.pop = Odd
  BY Zenon, <1>1, VerdictAssumption, RaiseRefuses DEF EnrollPopPb, WellFormed, Errors
<1>2. CASE x.pop # Odd
  <2>1. PICK at : at = x.pop.issued_at_ms
    OBVIOUS
  <2>2. PICK nonce : nonce = x.pop.nonce
    OBVIOUS
  <2>3. PICK s : s = x.pop.signature
    OBVIOUS
  <2>4. at \in Int \cup {Odd}
    BY <1>2, <2>1 DEF Arrived, PopArrived
  <2>5. PICK c : c = <<NonceRefusal(nonce), UintSlot(at), Check(s = Odd, Raise("type")),
                       Check(s # Odd /\ s.len # 64, Raise("value"))>>
    BY Zenon
  <2>6. /\ Len(c) = 4
        /\ c[1] = NonceRefusal(nonce) /\ c[2] = UintSlot(at)
        /\ c[3] = Check(s = Odd, Raise("type")) /\ c[4] = Check(s # Odd /\ s.len # 64, Raise("value"))
    BY <2>5
  <2>7. EnrollPopPb(x.pop) = FirstRefusal(c, x.pop)
    BY <1>2, <2>1, <2>2, <2>3, <2>5 DEF EnrollPopPb
  <2>8. /\ c[1] = None <=> nonce \notin {"", "long", "bad char", Odd}
        /\ c[1] # None => IsRefusal(c[1])
    BY Zenon, <2>6, NoncePasses
  <2>9. /\ c[2] = None <=> at # Odd /\ at \in 0 .. Max64
        /\ c[2] # None => IsRefusal(c[2])
    BY <2>4, <2>6, UintSlotPasses
  <2>10. /\ c[3] = None <=> s # Odd
         /\ c[3] # None => IsRefusal(c[3])
         /\ c[4] = None <=> s = Odd \/ s.len = 64
         /\ c[4] # None => IsRefusal(c[4])
    <3>1. /\ Raise("type") # None /\ IsRefusal(Raise("type"))
          /\ Raise("value") # None /\ IsRefusal(Raise("value"))
      BY Zenon, RaiseRefuses DEF Errors
    <3>. QED
      BY <2>6, <3>1 DEF Check
  <2>11. WellFormed(x.pop) <=> c[1] = None /\ c[2] = None /\ c[3] = None /\ c[4] = None
    BY Zenon, <1>2, <2>1, <2>2, <2>3, <2>8, <2>9, <2>10 DEF WellFormed
  <2>12. \/ (\A i \in 1 .. 4 : c[i] = None) /\ FirstRefusal(c, x.pop) = x.pop
         \/ \E i \in 1 .. 4 : c[i] # None /\ FirstRefusal(c, x.pop) = c[i]
    BY <2>6, FirstRefusalIs
  <2>13. CASE \A i \in 1 .. 4 : c[i] = None
    BY <2>7, <2>11, <2>12, <2>13
  <2>14. ASSUME NEW i \in 1 .. 4, c[i] # None, FirstRefusal(c, x.pop) = c[i]
         PROVE  ~WellFormed(x.pop) /\ IsRefusal(c[i])
    <3>1. i = 1 \/ i = 2 \/ i = 3 \/ i = 4
      OBVIOUS
    <3>. QED
      BY Zenon, <2>8, <2>9, <2>10, <2>11, <2>14, <3>1
  <2>. QED
    BY <2>7, <2>12, <2>13, <2>14
<1>. QED
  BY <1>1, <1>2

\* However an enrolment was relabelled or damaged on its way to the operator, it
\* leaves with the agent's consent as it was signed or not at all, for any
\* agent, tenant, namespace, instant and nonce (enroll_tenant).
LEMMA EveryEnrolmentCarriesConsent ==
    ASSUME NEW k, KeyOf(k) = k, k # None, NEW x, NEW was, Given(k, was), Arrived(k, x, was)
    PROVE  ConsentCarried(x, was)
<1>. DEFINE r == EnrollTenantRequest(x.subject_aid, x.tenant, x.namespace, x.pop, x.kind)
            kinds == EnrolmentKinds \cup {None}
            sent == [subject_aid |-> x.subject_aid, tenant |-> x.tenant,
                     namespace |-> x.namespace, pop |-> x.pop, kind |-> x.kind]
<1>1. CASE x.pop # None /\ ~WellFormed(x.pop)
  <2>1. IsRefusal(r)
    BY <1>1, WireProof DEF EnrollTenantRequest
  <2>. QED
    BY <1>1, <2>1 DEF ConsentCarried
<1>2. CASE x.pop = None \/ WellFormed(x.pop)
  <2>1. EnrollPopPb(x.pop) = x.pop /\ (x.pop # None => ~IsRefusal(x.pop))
    <3>1. CASE x.pop = None
      BY <3>1 DEF EnrollPopPb
    <3>2. CASE x.pop # None
      <4>1. EnrollPopPb(x.pop) = x.pop
        BY <1>2, <3>2, WireProof
      <4>2. x.pop = [issued_at_ms |-> x.pop.issued_at_ms, nonce |-> x.pop.nonce,
                     signature |-> x.pop.signature]
        BY Zenon, <1>2, <3>2 DEF WellFormed, Arrived, PopArrived, IsPop
      <4>3. ~IsRefusal(x.pop)
        BY <4>2 DEF IsRefusal
      <4>. QED
        BY <4>1, <4>3
    <3>. QED
      BY <3>1, <3>2
  <2>2. r = IF x.kind \notin kinds THEN Raise("value") ELSE sent
    BY <2>1 DEF EnrollTenantRequest
  <2>3. IsRefusal(r) <=> x.kind \notin kinds
    BY <2>2, RaiseRefuses DEF IsRefusal
  <2>4. ASSUME x.kind \in kinds, x.pop # None
        PROVE  VerifyEnrollPop(x.subject_aid, x.tenant, x.namespace, x.pop) <=> x = was
    <3>1. /\ x.pop \notin {None, Odd} /\ x.pop.issued_at_ms \in 0 .. Max64
          /\ x.pop.issued_at_ms # Odd /\ x.pop.signature # Odd /\ x.pop.signature.len = 64
      BY Zenon, <1>2, <2>4 DEF WellFormed
    <3>2. /\ was.pop # None
          /\ x.pop.signature = [key |-> k, signed |-> was.pop.signature.signed, len |-> 64]
          /\ x.pop = [issued_at_ms |-> x.pop.issued_at_ms, nonce |-> x.pop.nonce,
                      signature |-> x.pop.signature]
      <4>1. was.pop # None /\ IsPop(x.pop) /\ IsConsent(k, x.pop.signature, was)
        BY <2>4, <3>1, Zenon DEF Arrived, PopArrived
      <4>2. x.pop.signature = [key |-> k, signed |-> was.pop.signature.signed, len |-> 64]
        BY <3>1, <4>1 DEF IsConsent
      <4>3. x.pop = [issued_at_ms |-> x.pop.issued_at_ms, nonce |-> x.pop.nonce,
                     signature |-> x.pop.signature]
        BY <4>1, Zenon DEF IsPop
      <4>. QED
        BY <4>1, <4>2, <4>3, Zenon
    <3>3. was.pop.signature.signed = Consent(k, was.tenant, was.namespace,
                                             was.pop.issued_at_ms, was.pop.nonce)
      <4>1. PICK c : c = Consent(k, was.tenant, was.namespace, was.pop.issued_at_ms, was.pop.nonce)
        OBVIOUS
      <4>2. was.pop.signature = [key |-> k, len |-> 64, signed |-> c]
        BY <3>2, <4>1, Zenon DEF Given
      <4>. QED
        BY <4>1, <4>2
    <3>4. UintSlot(x.pop.issued_at_ms) = None
      BY <3>1, UintSlotPasses
    <3>5. ASSUME VerifyEnrollPop(x.subject_aid, x.tenant, x.namespace, x.pop)
          PROVE  x = was
      <4>1. /\ k = KeyOf(x.subject_aid)
            /\ Consent(k, was.tenant, was.namespace, was.pop.issued_at_ms, was.pop.nonce)
                 = Consent(x.subject_aid, x.tenant, x.namespace, x.pop.issued_at_ms, x.pop.nonce)
        BY SMT, SMTT(30), <3>2, <3>3, <3>5 DEF VerifyEnrollPop
      <4>2. /\ x.subject_aid = k /\ x.tenant = was.tenant /\ x.namespace = was.namespace
            /\ x.pop.issued_at_ms = was.pop.issued_at_ms /\ x.pop.nonce = was.pop.nonce
        BY <4>1 DEF Consent
      <4>3. x.pop = was.pop
        BY ZenonT(40), <3>2, <3>3, <4>2 DEF Given, IsPop
      <4>. QED
        BY Zenon, <4>2, <4>3 DEF Given, Arrived, IsEnrolment
    <3>6. ASSUME x = was
          PROVE  VerifyEnrollPop(x.subject_aid, x.tenant, x.namespace, x.pop)
      <4>1. x.subject_aid = k
        BY Zenon, <3>6 DEF Given
      <4>. QED
        BY <3>2, <3>3, <3>4, <3>6, <4>1 DEF VerifyEnrollPop
    <3>. QED
      BY <3>5, <3>6
  <2>5. CASE x.kind \notin kinds
    BY <1>2, <2>3, <2>5 DEF ConsentCarried
  <2>6. CASE x.kind \in kinds
    <3>1. r = sent /\ ~IsRefusal(r)
      BY Zenon, <2>2, <2>3, <2>6
    <3>2. r.subject_aid = x.subject_aid /\ r.tenant = x.tenant /\ r.namespace = x.namespace
          /\ r.pop = x.pop /\ r.kind = x.kind
      BY <3>1
    <3>. QED
      BY <1>2, <2>4, <2>6, <3>1, <3>2 DEF ConsentCarried
  <2>. QED
    BY <2>5, <2>6
<1>. QED
  BY <1>1, <1>2
-----------------------------------------------------------------------------
(* Chain-head attestations.                                                *)

LEMMA OnlyTrueIsTrue ==
    ASSUME NEW b \in BOOLEAN
    PROVE  Answer(b) = Answer(TRUE) <=> b
<1>1. Answer(b) = Answer(TRUE) => Answer(b).answer = Answer(TRUE).answer
  OBVIOUS
<1>2. Answer(b).answer = b /\ Answer(TRUE).answer = TRUE
  BY Zenon, AnswerIsNoRefusal
<1>. QED
  BY <1>1, <1>2, Zenon

\* The checks of verify_chain_head_attestation, in their order.
LEMMA HeadChecks ==
    ASSUME NEW a
    PROVE  /\ WrongTyped(a) => VerifyChainHead(a) = Raise("type")
           /\ ~WrongTyped(a) =>
                /\ OutOfRange(a) \/ KeyOf(a.issuer_aid) = None => VerifyChainHead(a) = Answer(FALSE)
                /\ ~OutOfRange(a) /\ KeyOf(a.issuer_aid) # None =>
                     VerifyChainHead(a) =
                         IF TenantOf(a) = "lone" THEN Raise("encode")
                         ELSE Answer(a.signature = [key |-> KeyOf(a.issuer_aid),
                                                    signed |-> HeadSigned(a, TenantOf(a))])
<1>1. PICK ok : ok = Answer(a.signature = [key |-> KeyOf(a.issuer_aid), signed |-> HeadSigned(a, TenantOf(a))])
  OBVIOUS
<1>2. PICK c : c = <<Check(WrongTyped(a), Raise("type")), Check(OutOfRange(a), Answer(FALSE)),
                     Check(KeyOf(a.issuer_aid) = None, Answer(FALSE)),
                     Check(TenantOf(a) = "lone", Raise("encode"))>>
  BY Zenon
<1>3. /\ Len(c) = 4
      /\ c[1] = Check(WrongTyped(a), Raise("type")) /\ c[2] = Check(OutOfRange(a), Answer(FALSE))
      /\ c[3] = Check(KeyOf(a.issuer_aid) = None, Answer(FALSE))
      /\ c[4] = Check(TenantOf(a) = "lone", Raise("encode"))
  BY <1>2
<1>4. VerifyChainHead(a) = FirstRefusal(c, ok)
  BY Zenon, <1>1, <1>2 DEF VerifyChainHead, TenantOf
<1>5. Raise("type") # None /\ Raise("encode") # None /\ Answer(FALSE) # None
  BY Zenon, RaiseRefuses, VerdictAssumption DEF Errors
<1>6. \/ (\A i \in 1 .. 4 : c[i] = None) /\ FirstRefusal(c, ok) = ok
      \/ \E i \in 1 .. 4 : /\ c[i] # None /\ FirstRefusal(c, ok) = c[i]
                           /\ \A j \in 1 .. i - 1 : c[j] = None
  BY <1>3, FirstRefusalIs
<1>7. \/ c[1] # None /\ FirstRefusal(c, ok) = c[1]
      \/ c[1] = None /\ c[2] # None /\ FirstRefusal(c, ok) = c[2]
      \/ c[1] = None /\ c[2] = None /\ c[3] # None /\ FirstRefusal(c, ok) = c[3]
      \/ c[1] = None /\ c[2] = None /\ c[3] = None /\ c[4] # None /\ FirstRefusal(c, ok) = c[4]
      \/ c[1] = None /\ c[2] = None /\ c[3] = None /\ c[4] = None /\ FirstRefusal(c, ok) = ok
  BY <1>6
<1>. QED
  BY Zenon, <1>1, <1>3, <1>4, <1>5, <1>7 DEF Check

IsHead(x) == x = [f \in IntSlots \cup OtherSlots |-> x[f]]

\* An attestation as the holder of key k signed it.
Attested(k, was) ==
    /\ DOMAIN was = IntSlots \cup OtherSlots
    /\ \A f \in IntSlots : was[f] \in 0 .. Max64
    /\ was.attested_head # Odd /\ was.issuer_aid = k /\ was.tenant \notin {Odd, "lone"}
    /\ was.signature = [key |-> k, signed |-> HeadSigned(was, TenantOf(was))] /\ was.signature # Odd

\* The same on its way: any field may be anything; what nobody else can make is
\* another signature of k.
HeadArrived(k, x, was) ==
    /\ IsHead(x)
    /\ \A f \in IntSlots : x[f] \in Int \cup {Odd}
    /\ x.signature \in {Odd, was.signature} \/ x.signature.key # k

LEMMA SignedDetermines ==
    ASSUME NEW x, NEW was, IsHead(x),
           HeadSigned(x, TenantOf(x)) = HeadSigned(was, TenantOf(was)), x.signature = was.signature
    PROVE  SameHead(x, was)
<1>1. DOMAIN x = IntSlots \cup OtherSlots
  BY DEF IsHead
<1>. QED
  BY <1>1 DEF HeadSigned, SameHead, IntSlots, OtherSlots

LEMMA MessageChecks ==
    ASSUME NEW k, k # Odd, NEW x, IsHead(x)
    PROVE  VerifyChainHeadMessage(k, x) = IF x.issuer_aid # k THEN Answer(FALSE) ELSE VerifyChainHead(x)
<1>1. PICK ok : ok = VerifyChainHead([x EXCEPT !.issuer_aid = k])
  OBVIOUS
<1>2. PICK c : c = <<Check(k = Odd, Raise("type")), Check(x.issuer_aid # k, Answer(FALSE))>>
  BY Zenon
<1>3. Len(c) = 2 /\ c[1] = Check(k = Odd, Raise("type")) /\ c[2] = Check(x.issuer_aid # k, Answer(FALSE))
  BY <1>2
<1>4. VerifyChainHeadMessage(k, x) = FirstRefusal(c, ok)
  BY <1>1, <1>2 DEF VerifyChainHeadMessage
<1>5. \/ (\A i \in 1 .. 2 : c[i] = None) /\ FirstRefusal(c, ok) = ok
      \/ \E i \in 1 .. 2 : c[i] # None /\ FirstRefusal(c, ok) = c[i]
  BY <1>3, FirstRefusalIs
<1>6. \/ c[1] = None /\ c[2] = None /\ FirstRefusal(c, ok) = ok
      \/ c[1] # None /\ FirstRefusal(c, ok) = c[1]
      \/ c[2] # None /\ FirstRefusal(c, ok) = c[2]
  BY <1>5
<1>7. c[1] = None /\ Answer(FALSE) # None
  BY Zenon, <1>3, VerdictAssumption DEF Check
<1>8. CASE x.issuer_aid # k
  <2>1. c[2] = Answer(FALSE)
    BY <1>3, <1>8 DEF Check
  <2>. QED
    BY Zenon, <1>4, <1>6, <1>7, <1>8, <2>1
<1>9. CASE x.issuer_aid = k
  <2>1. [x EXCEPT !.issuer_aid = k] = x
    BY <1>9 DEF IsHead, OtherSlots
  <2>2. ok = VerifyChainHead(x)
    BY <1>1, <2>1, Zenon
  <2>. QED
    BY <1>3, <1>4, <1>6, <1>7, <1>9, <2>2 DEF Check
<1>. QED
  BY <1>8, <1>9, Zenon

\* However an attestation was damaged on its way, and whoever signed another
\* in its place, only what the pinned issuer signed is TRUE; for any issuer,
\* tenant, head and numbers (verify_chain_head_attestation_message).
LEMMA EveryHeadIsJudged ==
    ASSUME NEW k, KeyOf(k) = k, k # None, k # Odd, NEW x, NEW was, Attested(k, was), HeadArrived(k, x, was)
    PROVE  HeadJudged(k, x, was)
<1>1. ASSUME VerifyChainHeadMessage(k, x) = Answer(TRUE)
      PROVE  SameHead(x, was)
  <2>1. x.issuer_aid = k /\ VerifyChainHead(x) = Answer(TRUE)
    BY Zenon, <1>1, MessageChecks, OnlyTrueIsTrue DEF HeadArrived
  <2>2. ~WrongTyped(x) /\ ~OutOfRange(x) /\ TenantOf(x) # "lone"
    <3>1. VerifyChainHead(x) \notin {Raise("type"), Raise("encode"), Answer(FALSE)}
      <4>1. IsRefusal(Raise("type")) /\ IsRefusal(Raise("encode"))
        BY RaiseRefuses
      <4>2. ~IsRefusal(Answer(TRUE))
        BY Zenon, AnswerIsNoRefusal
      <4>3. Answer(FALSE) # Answer(TRUE)
        BY OnlyTrueIsTrue, Zenon
      <4>. QED
        BY Zenon, <2>1, <4>1, <4>2, <4>3
    <3>2. KeyOf(x.issuer_aid) # None
      BY <2>1
    <3>. QED
      BY Zenon, <3>1, <3>2, HeadChecks
  <2>3. x.signature = [key |-> k, signed |-> HeadSigned(x, TenantOf(x))]
    BY Zenon, <2>1, <2>2, HeadChecks, OnlyTrueIsTrue
  <2>4. x.signature = was.signature
    BY <2>2, <2>3 DEF HeadArrived, WrongTyped, OtherSlots
  <2>5. HeadSigned(x, TenantOf(x)) = HeadSigned(was, TenantOf(was))
    BY <2>3, <2>4 DEF Attested
  <2>. QED
    BY <2>4, <2>5, SignedDetermines DEF HeadArrived
<1>2. ASSUME SameHead(x, was)
      PROVE  VerifyChainHeadMessage(k, x) = Answer(TRUE)
  <2>1. /\ \A f \in (IntSlots \cup OtherSlots) \ {"tenant"} : x[f] = was[f]
        /\ TenantOf(x) = TenantOf(was)
    <3>1. DOMAIN x = IntSlots \cup OtherSlots
      BY DEF HeadArrived, IsHead
    <3>. QED
      BY <1>2, <3>1 DEF SameHead
  <2>2. /\ x.issuer_aid = k /\ x.signature = was.signature /\ x.attested_head = was.attested_head
        /\ \A f \in IntSlots : x[f] = was[f]
    BY <2>1 DEF Attested, IntSlots, OtherSlots
  <2>3. x.tenant # Odd /\ TenantOf(x) # "lone"
    BY Zenon, <2>1, VerdictAssumption DEF Attested, TenantOf, MarkedTexts
  <2>4. \A f \in IntSlots : x[f] # Odd /\ UintSlot(x[f]) = None
    <3>1. \A f \in IntSlots : x[f] \in 0 .. Max64
      BY <2>2 DEF Attested
    <3>. QED
      BY SMT, SMTT(30), <3>1, UintSlotPasses, VerdictAssumption
  <2>5. ~WrongTyped(x) /\ ~OutOfRange(x)
    BY <2>2, <2>3, <2>4 DEF WrongTyped, OutOfRange, OtherSlots, Attested
  <2>6. HeadSigned(x, TenantOf(x)) = HeadSigned(was, TenantOf(was))
    BY <2>1, <2>2 DEF HeadSigned, IntSlots, Attested
  <2>7. x.signature = [key |-> k, signed |-> HeadSigned(x, TenantOf(x))]
    BY <2>2, <2>6 DEF Attested
  <2>8. VerifyChainHead(x) = Answer(TRUE)
    BY Zenon, <2>2, <2>3, <2>5, <2>7, HeadChecks, OnlyTrueIsTrue
  <2>. QED
    BY Zenon, <2>2, <2>8, MessageChecks DEF HeadArrived
<1>3. IF WrongTyped(x) THEN VerifyChainHead(x) = Raise("type")
      ELSE IsRefusal(VerifyChainHead(x)) => VerifyChainHead(x) = Raise("encode") /\ x.tenant = "lone"
  <2>1. TenantOf(x) = "lone" => x.tenant = "lone"
    <3>1. None # "lone"
      BY Zenon, VerdictAssumption DEF MarkedTexts
    <3>. QED
      BY Zenon, <3>1 DEF TenantOf
  <2>2. \A b : ~IsRefusal(Answer(b))
    BY Zenon, AnswerIsNoRefusal
  <2>. QED
    BY ZenonT(40), <2>1, <2>2, HeadChecks
<1>. QED
  BY Zenon, <1>1, <1>2, <1>3 DEF HeadJudged

-----------------------------------------------------------------------------
(* Sealed records.                                                         *)

RequiredSlots ==
    {"context_digest", "participation_digest", "policy_rules_digest", "participants_digest",
     "classification", "trust_basis_commitment", "auth_method", "ciphertext_digest",
     "decision_id", "tenant", "namespace", "outcome"}
OptionalSlots == {"mode", "policy_version", "supersedes"}
RecordSlots == RequiredSlots \cup OptionalSlots \cup {"sealed_at", "schema_version"}

\* A payload as protobuf delivers it: every text and byte string is one, an
\* optional one may be unset, and the instant is an unsigned integer.
IsPayload(p) == p = [f \in RecordSlots |-> p[f]]
OnTheWire(p) ==
    /\ IsPayload(p)
    /\ \A f \in RequiredSlots : p[f] # None /\ p[f] # Odd
    /\ \A f \in OptionalSlots : p[f] # Odd
    /\ p.sealed_at \in 0 .. Max64

LEMMA CanonSlots ==
    ASSUME NEW p, OnTheWire(p), NEW r, r = Canon(p)
    PROVE  /\ \A f \in RecordSlots \ {"policy_rules_digest"} : r[f] = p[f]
           /\ r.policy_rules_digest = IF p.policy_rules_digest = "" THEN None ELSE p.policy_rules_digest
<1>1. p = [f \in RecordSlots |-> p[f]]
  BY DEF OnTheWire, IsPayload
<1>2. DOMAIN p = RecordSlots
  BY <1>1
<1>. QED
  BY Zenon, <1>2 DEF Canon, RecordSlots, RequiredSlots

\* What record_digest_v4 makes of a payload: the digest of it, or the refusal of
\* its version or of one of the fields stripped from it.
LEMMA DigestOfPayload ==
    ASSUME NEW p, OnTheWire(p), NEW r, r = Canon(p)
    PROVE  /\ p.schema_version # 4 => RecordDigestV4(r) = Raise("unsupported")
           /\ p.schema_version = 4 /\ StrippedSlots(p) = {} => RecordDigestV4(r) = Digest(r)
           /\ p.schema_version = 4 /\ StrippedSlots(p) # {} =>
                \E f \in StrippedSlots(p) : RecordDigestV4(r) = RaiseFor("strip", f)
<1>1. PICK c : c =
        <<Check(r.schema_version # 4, Raise("unsupported")),
          SubDigest(r, "context_digest", FALSE),
          SubDigest(r, "participation_digest", FALSE),
          SubDigest(r, "policy_rules_digest", TRUE),
          SubDigest(r, "participants_digest", FALSE),
          MandatoryText(r, "classification"),
          MandatoryText(r, "trust_basis_commitment"),
          MandatoryText(r, "auth_method"),
          Check(r.ciphertext_digest \in {None, Odd}, Raise("type")),
          RdText(r, "decision_id", FALSE), RdText(r, "tenant", FALSE),
          RdText(r, "namespace", FALSE), RdText(r, "outcome", FALSE),
          RdText(r, "mode", TRUE), RdText(r, "policy_version", TRUE), RdText(r, "supersedes", TRUE),
          UintSlot(r.sealed_at)>>
  BY Zenon
<1>2. Len(c) = 17
  BY <1>1
<1>3. /\ c[1] = Check(r.schema_version # 4, Raise("unsupported"))
      /\ c[2] = SubDigest(r, "context_digest", FALSE)
      /\ c[3] = SubDigest(r, "participation_digest", FALSE)
      /\ c[4] = SubDigest(r, "policy_rules_digest", TRUE)
      /\ c[5] = SubDigest(r, "participants_digest", FALSE)
      /\ c[6] = MandatoryText(r, "classification")
      /\ c[7] = MandatoryText(r, "trust_basis_commitment")
      /\ c[8] = MandatoryText(r, "auth_method")
  BY <1>1
<1>4. /\ c[9] = Check(r.ciphertext_digest \in {None, Odd}, Raise("type"))
      /\ c[10] = RdText(r, "decision_id", FALSE) /\ c[11] = RdText(r, "tenant", FALSE)
      /\ c[12] = RdText(r, "namespace", FALSE) /\ c[13] = RdText(r, "outcome", FALSE)
      /\ c[14] = RdText(r, "mode", TRUE) /\ c[15] = RdText(r, "policy_version", TRUE)
      /\ c[16] = RdText(r, "supersedes", TRUE) /\ c[17] = UintSlot(r.sealed_at)
  BY <1>1
<1>5. RecordDigestV4(r) = FirstRefusal(c, Digest(r))
  BY <1>1 DEF RecordDigestV4
<1>. DEFINE S == StrippedSlots(p)
<1>6. /\ \A f \in RecordSlots \ {"policy_rules_digest"} : r[f] = p[f]
      /\ r.policy_rules_digest = IF p.policy_rules_digest = "" THEN None ELSE p.policy_rules_digest
  BY Zenon, CanonSlots
<1>7. /\ r.schema_version = p.schema_version /\ r.sealed_at = p.sealed_at
      /\ r.ciphertext_digest = p.ciphertext_digest
      /\ \A f \in Slots \ {"policy_rules_digest"} : r[f] = p[f]
  BY Zenon, <1>6 DEF RecordSlots, RequiredSlots, OptionalSlots, Slots
<1>8. ASSUME NEW f \in MandatoryDigests
      PROVE  SubDigest(r, f, FALSE) = IF f \in S THEN RaiseFor("strip", f) ELSE None
  <2>1. f \in S <=> p[f] \in {"", "short"}
    BY Zenon DEF StrippedSlots, MandatoryDigests, MandatoryTexts
  <2>2. r[f] = p[f] /\ p[f] # None /\ p[f] # Odd
    BY <1>7 DEF Slots, MandatoryDigests, OnTheWire, RequiredSlots
  <2>3. r[f] \in {None, "", "short", Odd} <=> f \in S
    BY Zenon, <2>1, <2>2
  <2>. QED
    BY Zenon, <2>3 DEF SubDigest, Check
<1>9. SubDigest(r, "policy_rules_digest", TRUE) =
          IF "policy_rules_digest" \in S THEN RaiseFor("strip", "policy_rules_digest") ELSE None
  <2>1. "policy_rules_digest" \in S <=> p.policy_rules_digest = "short"
    BY DEF StrippedSlots, MandatoryDigests, MandatoryTexts
  <2>2. p.policy_rules_digest # None /\ p.policy_rules_digest # Odd
    BY DEF OnTheWire, RequiredSlots
  <2>3. r.policy_rules_digest # None /\ r.policy_rules_digest \in {None, "", "short", Odd}
          <=> "policy_rules_digest" \in S
    BY Zenon, <1>6, <2>1, <2>2, VerdictAssumption DEF MarkedTexts
  <2>. QED
    BY Zenon, <2>3 DEF SubDigest, Check
<1>10. ASSUME NEW f \in MandatoryTexts
       PROVE  MandatoryText(r, f) = IF f \in S THEN RaiseFor("strip", f) ELSE None
  <2>1. f \in S <=> p[f] = ""
    BY Zenon DEF StrippedSlots, MandatoryDigests, MandatoryTexts
  <2>2. r[f] = p[f] /\ p[f] # None /\ p[f] # Odd
    BY <1>7 DEF Slots, MandatoryTexts, OnTheWire, RequiredSlots
  <2>. QED
    BY Zenon, <2>1, <2>2 DEF MandatoryText, Check
<1>11. /\ c[2] = IF "context_digest" \in S THEN RaiseFor("strip", "context_digest") ELSE None
       /\ c[3] = IF "participation_digest" \in S THEN RaiseFor("strip", "participation_digest") ELSE None
       /\ c[4] = IF "policy_rules_digest" \in S THEN RaiseFor("strip", "policy_rules_digest") ELSE None
       /\ c[5] = IF "participants_digest" \in S THEN RaiseFor("strip", "participants_digest") ELSE None
  BY Zenon, <1>3, <1>8, <1>9 DEF MandatoryDigests
<1>12. /\ c[6] = IF "classification" \in S THEN RaiseFor("strip", "classification") ELSE None
       /\ c[7] = IF "trust_basis_commitment" \in S THEN RaiseFor("strip", "trust_basis_commitment") ELSE None
       /\ c[8] = IF "auth_method" \in S THEN RaiseFor("strip", "auth_method") ELSE None
  BY <1>3, <1>10 DEF MandatoryTexts
<1>13. /\ c[9] = None /\ c[10] = None /\ c[11] = None /\ c[12] = None /\ c[13] = None
       /\ c[14] = None /\ c[15] = None /\ c[16] = None /\ c[17] = None
  <2>1. \A f \in {"decision_id", "tenant", "namespace", "outcome"} : RdText(r, f, FALSE) = None
    BY <1>7 DEF Slots, OnTheWire, RequiredSlots, RdText, Check
  <2>2. \A f \in OptionalSlots : RdText(r, f, TRUE) = None
    BY <1>7 DEF Slots, OnTheWire, OptionalSlots, RdText, Check
  <2>3. Check(r.ciphertext_digest \in {None, Odd}, Raise("type")) = None
    BY <1>7 DEF OnTheWire, RequiredSlots, Check
  <2>4. UintSlot(r.sealed_at) = None
    <3>1. p.sealed_at \in 0 .. Max64 /\ p.sealed_at \in Int /\ p.sealed_at # Odd
      BY VerdictAssumption DEF OnTheWire
    <3>. QED
      BY <1>7, <3>1, UintSlotPasses
  <2>. QED
    BY Zenon, <1>4, <2>1, <2>2, <2>3, <2>4 DEF OptionalSlots
<1>14. S \subseteq {"context_digest", "participation_digest", "policy_rules_digest", "participants_digest",
                    "classification", "trust_basis_commitment", "auth_method"}
  BY Zenon DEF StrippedSlots, MandatoryDigests, MandatoryTexts
<1>15. c[1] = IF p.schema_version # 4 THEN Raise("unsupported") ELSE None
  BY <1>3, <1>7 DEF Check
<1>16. Raise("unsupported") # None /\ \A f \in S : RaiseFor("strip", f) # None
  BY Zenon, <1>14, RaiseRefuses, RaiseForRefuses DEF Errors, Slots
<1>17. PICK ok : ok = Digest(r)
  OBVIOUS
<1>18. \/ (\A i \in 1 .. 17 : c[i] = None) /\ FirstRefusal(c, ok) = ok
       \/ \E i \in 1 .. 17 : /\ c[i] # None /\ FirstRefusal(c, ok) = c[i]
                             /\ \A j \in 1 .. i - 1 : c[j] = None
  <2>1. Len(c) \in Nat
    BY <1>2
  <2>2. \/ (\A i \in 1 .. Len(c) : c[i] = None) /\ FirstRefusal(c, ok) = ok
        \/ \E i \in 1 .. Len(c) : /\ c[i] # None /\ FirstRefusal(c, ok) = c[i]
                                  /\ \A j \in 1 .. i - 1 : c[j] = None
    BY <2>1, FirstRefusalIs
  <2>. QED
    BY <1>2, <2>2
<1>. HIDE DEF S
<1>19. CASE p.schema_version # 4
  <2>1. c[1] = Raise("unsupported")
    BY Zenon, <1>15, <1>19
  <2>2. FirstRefusal(c, ok) = c[1]
    BY SMT, SMTT(30), <1>16, <1>18, <2>1
  <2>. QED
    BY <1>5, <1>17, <1>19, <2>1, <2>2
<1>20. CASE p.schema_version = 4 /\ S = {}
  <2>1. \A i \in 1 .. 17 : c[i] = None
    BY SMT, SMTT(30), <1>11, <1>12, <1>13, <1>15, <1>20
  <2>. QED
    BY <1>5, <1>17, <1>18, <1>20, <2>1 DEF S
<1>21. CASE p.schema_version = 4 /\ S # {}
  <2>1. ~\A i \in 1 .. 17 : c[i] = None
    <3>1. c[2] # None \/ c[3] # None \/ c[4] # None \/ c[5] # None \/ c[6] # None
          \/ c[7] # None \/ c[8] # None
      BY ZenonT(40), <1>11, <1>12, <1>14, <1>16, <1>21
    <3>. QED
      BY <3>1
  <2>2. PICK i \in 1 .. 17 : c[i] # None /\ FirstRefusal(c, ok) = c[i]
    BY <1>18, <2>1
  <2>3. \E f \in S : c[i] = RaiseFor("strip", f)
    <3>1. i = 2 \/ i = 3 \/ i = 4 \/ i = 5 \/ i = 6 \/ i = 7 \/ i = 8
      BY SMT, SMTT(30), <1>13, <1>15, <1>21, <2>2
    <3>. QED
      BY <1>11, <1>12, <2>2, <3>1
  <2>. QED
    BY <1>5, <1>17, <1>21, <2>2, <2>3 DEF S
<1>. QED
  BY <1>19, <1>20, <1>21 DEF S

IsEvent(x) == x = [kind |-> x.kind, digest |-> x.digest, payload |-> x.payload]

\* The event as the runtime streamed it, and as it arrived: any slot may hold
\* anything the wire can carry.  The verdict speaks for the payload unless the
\* digest was recomputed with it, which whoever can write both can do.
Streamed(was) ==
    /\ IsEvent(was) /\ OnTheWire(was.payload) /\ was.kind = "DECISION_SEALED"
    /\ was.payload.schema_version = 4 /\ was.payload.ciphertext_digest # ""
    /\ StrippedSlots(was.payload) = {}
    /\ was.digest = Digest(Canon(was.payload)) /\ was.digest # None
EventArrived(x, was) ==
    /\ IsEvent(x) /\ OnTheWire(x.payload)
    /\ x.digest \in {was.digest, None} \/ x.digest # Digest(Canon(x.payload))

LEMMA StreamChecksInOrder ==
    ASSUME NEW x, NEW d, d = RecordDigestV4(Canon(x.payload))
    PROVE  VerifyStreamed(x) =
             IF x.kind # "DECISION_SEALED" THEN Raise("value")
             ELSE IF x.payload.schema_version # 4 THEN Raise("unsupported")
             ELSE IF x.digest = None THEN Raise("value")
             ELSE IF x.payload.ciphertext_digest = "" THEN Answer(FALSE)
             ELSE IF IsRefusal(d) THEN d ELSE Answer(d = x.digest)
<1>1. PICK ok : ok = IF IsRefusal(d) THEN d ELSE Answer(d = x.digest)
  BY Zenon
<1>2. PICK c : c = <<Check(x.kind # "DECISION_SEALED", Raise("value")),
                     Check(x.payload.schema_version # 4, Raise("unsupported")),
                     Check(x.digest = None, Raise("value")),
                     Check(x.payload.ciphertext_digest = "", Answer(FALSE))>>
  BY Zenon
<1>l. Len(c) = 4
  BY Zenon, <1>2
<1>3. /\ c[1] = Check(x.kind # "DECISION_SEALED", Raise("value"))
      /\ c[2] = Check(x.payload.schema_version # 4, Raise("unsupported"))
      /\ c[3] = Check(x.digest = None, Raise("value"))
      /\ c[4] = Check(x.payload.ciphertext_digest = "", Answer(FALSE))
  BY Zenon, <1>2
<1>4. VerifyStreamed(x) = FirstRefusal(c, ok)
  BY <1>1, <1>2, Zenon DEF VerifyStreamed, Canon
<1>5. Raise("value") # None /\ Raise("unsupported") # None /\ Answer(FALSE) # None
  BY Zenon, RaiseRefuses, VerdictAssumption DEF Errors
<1>6. \/ (\A i \in 1 .. 4 : c[i] = None) /\ FirstRefusal(c, ok) = ok
      \/ \E i \in 1 .. 4 : /\ c[i] # None /\ FirstRefusal(c, ok) = c[i]
                           /\ \A j \in 1 .. i - 1 : c[j] = None
  <2>1. Len(c) \in Nat
    BY <1>l
  <2>2. \/ (\A i \in 1 .. Len(c) : c[i] = None) /\ FirstRefusal(c, ok) = ok
        \/ \E i \in 1 .. Len(c) : /\ c[i] # None /\ FirstRefusal(c, ok) = c[i]
                                  /\ \A j \in 1 .. i - 1 : c[j] = None
    BY <2>1, FirstRefusalIs
  <2>. QED
    BY <1>l, <2>2
<1>7. \/ c[1] # None /\ FirstRefusal(c, ok) = c[1]
      \/ c[1] = None /\ c[2] # None /\ FirstRefusal(c, ok) = c[2]
      \/ c[1] = None /\ c[2] = None /\ c[3] # None /\ FirstRefusal(c, ok) = c[3]
      \/ c[1] = None /\ c[2] = None /\ c[3] = None /\ c[4] # None /\ FirstRefusal(c, ok) = c[4]
      \/ c[1] = None /\ c[2] = None /\ c[3] = None /\ c[4] = None /\ FirstRefusal(c, ok) = ok
  BY <1>6
<1>8. /\ c[1] = IF x.kind # "DECISION_SEALED" THEN Raise("value") ELSE None
      /\ c[2] = IF x.payload.schema_version # 4 THEN Raise("unsupported") ELSE None
      /\ c[3] = IF x.digest = None THEN Raise("value") ELSE None
      /\ c[4] = IF x.payload.ciphertext_digest = "" THEN Answer(FALSE) ELSE None
  BY <1>3, Zenon DEF Check
<1>. QED
  BY <1>1, <1>4, <1>5, <1>7, <1>8, Zenon

LEMMA CanonEvent ==
    ASSUME NEW x, IsEvent(x), NEW r, r = Canon(x.payload)
    PROVE  [x EXCEPT !.payload = Canon(@)] = [kind |-> x.kind, digest |-> x.digest, payload |-> r]
BY DEF IsEvent

LEMMA SameSlots ==
    ASSUME NEW p, OnTheWire(p), NEW q, OnTheWire(q), Canon(p) = Canon(q)
    PROVE  /\ p.schema_version = q.schema_version /\ p.ciphertext_digest = q.ciphertext_digest
           /\ StrippedSlots(p) = StrippedSlots(q)
<1>1. PICK r : r = Canon(p)
  OBVIOUS
<1>2. /\ \A f \in RecordSlots \ {"policy_rules_digest"} : r[f] = p[f]
      /\ r.policy_rules_digest = IF p.policy_rules_digest = "" THEN None ELSE p.policy_rules_digest
  BY Zenon, <1>1, CanonSlots
<1>3. /\ \A f \in RecordSlots \ {"policy_rules_digest"} : r[f] = q[f]
      /\ r.policy_rules_digest = IF q.policy_rules_digest = "" THEN None ELSE q.policy_rules_digest
  BY Zenon, <1>1, CanonSlots
<1>4. \A f \in RecordSlots \ {"policy_rules_digest"} : p[f] = q[f]
  BY Zenon, <1>2, <1>3
<1>5. p.policy_rules_digest = "short" <=> q.policy_rules_digest = "short"
  BY Zenon, <1>2, <1>3, VerdictAssumption DEF MarkedTexts
<1>6. /\ \A f \in MandatoryDigests \cup MandatoryTexts : p[f] = q[f]
      /\ p.schema_version = q.schema_version /\ p.ciphertext_digest = q.ciphertext_digest
  BY <1>4 DEF MandatoryDigests, MandatoryTexts, RecordSlots, RequiredSlots
<1>. QED
  BY Zenon, <1>5, <1>6 DEF StrippedSlots

\* Whatever a streamed record suffered on its way, it verifies just when it is
\* the record that was sealed, and a stripped field is reported as such
\* (verify_streamed_record_digest).
LEMMA EveryRecordIsJudged ==
    ASSUME NEW x, NEW was, Streamed(was), EventArrived(x, was)
    PROVE  RecordJudged(x, was)
<1>. DEFINE p == x.payload
<1>1. PICK r : r = Canon(p)
  OBVIOUS
<1>2. PICK d : d = RecordDigestV4(r)
  OBVIOUS
<1>3. PICK v : v = VerifyStreamed(x)
  OBVIOUS
<1>4. v = IF x.kind # "DECISION_SEALED" THEN Raise("value")
          ELSE IF p.schema_version # 4 THEN Raise("unsupported")
          ELSE IF x.digest = None THEN Raise("value")
          ELSE IF p.ciphertext_digest = "" THEN Answer(FALSE)
          ELSE IF IsRefusal(d) THEN d ELSE Answer(d = x.digest)
  BY Zenon, <1>1, <1>2, <1>3, StreamChecksInOrder
<1>5. /\ p.schema_version = 4 /\ StrippedSlots(p) = {} => d = Digest(r)
      /\ p.schema_version = 4 /\ StrippedSlots(p) # {} =>
           \E f \in StrippedSlots(p) : d = RaiseFor("strip", f)
  BY Zenon, <1>1, <1>2, DigestOfPayload DEF EventArrived
<1>6. ~IsRefusal(Digest(r)) /\ \A f : IsRefusal(RaiseFor("strip", f)) /\ RaiseFor("strip", f).raised = "strip"
                                      /\ RaiseFor("strip", f).field = f
  BY RaiseForRefuses DEF IsRefusal, Digest
<1>7. /\ IsRefusal(Raise("value")) /\ Raise("value").raised # "strip"
      /\ IsRefusal(Raise("unsupported")) /\ Raise("unsupported").raised # "strip"
  BY RaiseRefuses
<1>8. \A b \in BOOLEAN : ~IsRefusal(Answer(b)) /\ (Answer(b) = Answer(TRUE) <=> b)
  BY Zenon, AnswerIsNoRefusal, OnlyTrueIsTrue
<1>9. v = Answer(TRUE) <=> [x EXCEPT !.payload = Canon(@)] = [was EXCEPT !.payload = Canon(@)]
  <2>1. PICK q : q = Canon(was.payload)
    OBVIOUS
  <2>2. /\ [x EXCEPT !.payload = Canon(@)] = [kind |-> x.kind, digest |-> x.digest, payload |-> r]
        /\ [was EXCEPT !.payload = Canon(@)] = [kind |-> was.kind, digest |-> was.digest, payload |-> q]
    BY Zenon, <1>1, <2>1, CanonEvent DEF Streamed, EventArrived
  <2>3. /\ was.kind = "DECISION_SEALED" /\ was.digest = Digest(q) /\ was.digest # None
        /\ x.digest \in {was.digest, None} \/ x.digest # Digest(r)
    BY Zenon, <1>1, <2>1 DEF Streamed, EventArrived
  <2>4. ASSUME v = Answer(TRUE)
        PROVE  x.kind = was.kind /\ x.digest = was.digest /\ r = q
    <3>1. v # Raise("value") /\ v # Raise("unsupported") /\ v # Answer(FALSE)
      BY <1>7, <1>8, <2>4, Zenon
    <3>2. /\ x.kind = "DECISION_SEALED" /\ p.schema_version = 4 /\ x.digest # None
          /\ v = IF IsRefusal(d) THEN d ELSE Answer(d = x.digest)
      BY <1>4, <3>1, Zenon
    <3>3. ~IsRefusal(d)
      BY <1>8, <2>4, <3>2, Zenon
    <3>4. d = x.digest
      BY <1>8, <2>4, <3>2, <3>3, Zenon
    <3>5. d = Digest(r)
      BY <1>5, <1>6, <3>2, <3>3
    <3>6. x.digest = was.digest /\ Digest(r) = Digest(q)
      BY <2>3, <3>2, <3>4, <3>5
    <3>. QED
      BY <2>3, <3>2, <3>6 DEF Digest
  <2>5. ASSUME x.kind = was.kind, x.digest = was.digest, r = q
        PROVE  v = Answer(TRUE)
    <3>1. /\ p.schema_version = 4 /\ p.ciphertext_digest # "" /\ StrippedSlots(p) = {}
      <4>1. /\ OnTheWire(p) /\ OnTheWire(was.payload) /\ was.payload.schema_version = 4
            /\ was.payload.ciphertext_digest # "" /\ StrippedSlots(was.payload) = {}
        BY Zenon DEF Streamed, EventArrived
      <4>2. Canon(p) = Canon(was.payload)
        BY <1>1, <2>1, <2>5
      <4>. QED
        BY <4>1, <4>2, SameSlots, Zenon
    <3>2. d = Digest(r) /\ d = x.digest /\ ~IsRefusal(d)
      BY Zenon, <1>5, <1>6, <2>3, <2>5, <3>1
    <3>3. v = Answer(d = x.digest)
      BY <1>4, <2>3, <2>5, <3>1, <3>2, Zenon
    <3>. QED
      BY <1>8, <3>2, <3>3, Zenon
  <2>. QED
    BY Zenon, <2>2, <2>4, <2>5
<1>10. IsRefusal(v) /\ v.raised = "strip" => v.field \in StrippedSlots(p)
  <2>1. ASSUME IsRefusal(v), v.raised = "strip"
        PROVE  v.field \in StrippedSlots(p)
    <3>1. v # Raise("value") /\ v # Raise("unsupported") /\ \A b \in BOOLEAN : v # Answer(b)
      BY <1>7, <1>8, <2>1, Zenon
    <3>2. v = d /\ p.schema_version = 4 /\ IsRefusal(d)
      BY <1>4, <2>1, <3>1, Zenon
    <3>3. StrippedSlots(p) # {}
      BY <1>5, <1>6, <3>2
    <3>. QED
      BY Zenon, <1>5, <1>6, <3>2, <3>3
  <2>. QED
    BY <2>1
<1>11. /\ StrippedSlots(p) # {} /\ x.kind = "DECISION_SEALED" /\ p.schema_version = 4
       /\ x.digest # None /\ p.ciphertext_digest # ""
       => IsRefusal(v) /\ v.raised = "strip"
  BY <1>4, <1>5, <1>6, Zenon
<1>. QED
  BY <1>3, <1>9, <1>10, <1>11, Zenon DEF RecordJudged

-----------------------------------------------------------------------------
(* Commitments and their tokens.                                           *)

IsCommitment(c) ==
    c = [about |-> c.about, supersedes |-> c.supersedes, committer |-> c.committer,
         explanation |-> c.explanation, explanation_digest |-> c.explanation_digest]
IsExplanation(e) ==
    /\ e = [i \in DOMAIN e |-> e[i]]
    /\ \A i \in DOMAIN e : e[i] = [kind |-> e[i].kind, confidence |-> e[i].confidence]
Canonical(e) ==
    \A i \in DOMAIN e : /\ e[i].kind \in EntryKinds
                        /\ e[i].confidence \notin {"nan", "-0.0", "1.5", "true"}

\* A commitment with its entries, as it can be served: the published digest, if
\* any, is the digest of something.
Served(c) ==
    /\ IsCommitment(c) /\ IsExplanation(c.explanation) /\ c.committer # None
    /\ c.explanation # None /\ CommitmentView(c).explanation # None
    /\ c.explanation_digest = None \/ \E e : c.explanation_digest = Digest(e)

\* An entry of a kind this build does not know makes the digest refuse.
LEMMA ViewIsFaithful ==
    ASSUME NEW c, Served(c), NEW v, v = CommitmentView(c)
    PROVE  /\ v.about = c.about /\ v.supersedes = c.supersedes /\ v.committer = c.committer
           /\ v.explanation_digest = c.explanation_digest
           /\ Canonical(c.explanation) => v.explanation = c.explanation /\ v = c
           /\ Canonical(c.explanation) <=> Canonical(v.explanation)
<1>1. PICK e : e = c.explanation
  OBVIOUS
<1>2. PICK w : w = [i \in DOMAIN e |-> EntryView(e[i])]
  BY Zenon
<1>3. c = [about |-> c.about, supersedes |-> c.supersedes, committer |-> c.committer,
           explanation |-> e, explanation_digest |-> c.explanation_digest]
  BY <1>1 DEF Served, IsCommitment
<1>4. v = [about |-> c.about, supersedes |-> c.supersedes, committer |-> c.committer,
           explanation |-> w, explanation_digest |-> c.explanation_digest]
  <2>1. v = [c EXCEPT !.explanation = [i \in DOMAIN c.explanation |-> EntryView(c.explanation[i])]]
    BY Zenon DEF CommitmentView
  <2>2. v = [c EXCEPT !.explanation = w]
    BY <1>1, <1>2, <2>1, Zenon
  <2>. QED
    BY <1>3, <2>2
<1>5. /\ e = [i \in DOMAIN e |-> e[i]]
      /\ \A i \in DOMAIN e : e[i] = [kind |-> e[i].kind, confidence |-> e[i].confidence]
  BY <1>1 DEF Served, IsExplanation
<1>6. DOMAIN w = DOMAIN e
  BY <1>2
<1>7. ASSUME NEW i \in DOMAIN e
      PROVE  /\ w[i].kind = IF e[i].kind \in EntryKinds THEN e[i].kind ELSE "<unknown kind>"
             /\ w[i].confidence = e[i].confidence
             /\ e[i].kind \in EntryKinds => w[i] = e[i]
  <2>1. w[i] = EntryView(e[i])
    BY <1>2
  <2>2. PICK g : g = e[i]
    OBVIOUS
  <2>3. g = [kind |-> g.kind, confidence |-> g.confidence]
    BY <1>5, <2>2
  <2>4. PICK kind : kind = g.kind
    OBVIOUS
  <2>5. PICK confidence : confidence = g.confidence
    OBVIOUS
  <2>6. g = [kind |-> kind, confidence |-> confidence]
    BY <2>3, <2>4, <2>5
  <2>7. PICK shown : shown = IF kind \in EntryKinds THEN kind ELSE "<unknown kind>"
    BY Zenon
  <2>8. w[i] = [kind |-> shown, confidence |-> confidence]
    BY Zenon, <2>1, <2>2, <2>4, <2>5, <2>7 DEF EntryView
  <2>9. w[i].kind = shown /\ w[i].confidence = confidence
    BY <2>8
  <2>10. kind \in EntryKinds => w[i] = g
    BY <2>6, <2>7, <2>8
  <2>. QED
    BY Zenon, <2>2, <2>4, <2>5, <2>7, <2>9, <2>10
<1>8. Canonical(e) => w = e
  BY Zenon, <1>2, <1>5, <1>6, <1>7 DEF Canonical
<1>9. "<unknown kind>" \notin EntryKinds
  BY DEF EntryKinds
<1>10. Canonical(e) <=> Canonical(w)
  BY Zenon, <1>6, <1>7, <1>9 DEF Canonical
<1>11. Canonical(e) => v = c
  BY <1>3, <1>4, <1>8
<1>. QED
  BY SMT, SMTT(30), <1>1, <1>4, <1>8, <1>10, <1>11

\* The digest a served commitment stands for: refused unless every entry is
\* canonical and is what was published of them.
LEMMA DigestOfServed ==
    ASSUME NEW c, Served(c), NEW v, v = CommitmentView(c), NEW d, d = CommitmentDigest(v)
    PROVE  IF Canonical(c.explanation) /\ Consistent(c)
           THEN d = Digest([about |-> c.about, supersedes |-> c.supersedes, committer |-> c.committer,
                            why |-> Digest(c.explanation)])
           ELSE IsRefusal(d)
<1>1. PICK e : e = c.explanation
  OBVIOUS
<1>2. PICK w : w = v.explanation
  OBVIOUS
<1>3. PICK pub : pub = c.explanation_digest
  OBVIOUS
<1>4. /\ v.about = c.about /\ v.supersedes = c.supersedes /\ v.committer = c.committer
      /\ v.explanation_digest = pub /\ (Canonical(e) => w = e) /\ (Canonical(e) <=> Canonical(w))
  BY <1>1, <1>2, <1>3, ViewIsFaithful
<1>5. w # None /\ c.committer # None
  BY <1>2 DEF Served
<1>6. PICK why : why = CommitmentExplanation(v)
  OBVIOUS
<1>7. ExplanationDigest(w) = IF Canonical(w) THEN Digest(w) ELSE Raise("value")
  BY DEF ExplanationDigest, Canonical
<1>8. ~IsRefusal(Digest(w)) /\ IsRefusal(Raise("value"))
  BY RaiseRefuses DEF IsRefusal, Digest
<1>9. why = LET computed == ExplanationDigest(w) IN
            IF IsRefusal(computed) \/ pub \in {None, computed} THEN computed ELSE Raise("value")
  BY <1>2, <1>4, <1>5, <1>6 DEF CommitmentExplanation
<1>10. Consistent(c) <=> pub \in {None, Digest(e)}
  BY <1>1, <1>3 DEF Consistent
<1>11. d = IF IsRefusal(why) THEN why
           ELSE Digest([about |-> c.about, supersedes |-> c.supersedes, committer |-> c.committer, why |-> why])
  BY <1>4, <1>5, <1>6 DEF CommitmentDigest
<1>12. CASE Canonical(e) /\ Consistent(c)
  <2>1. why = Digest(e)
    BY Zenon, <1>4, <1>7, <1>8, <1>9, <1>10, <1>12
  <2>. QED
    BY Zenon, <1>1, <1>4, <1>8, <1>11, <1>12, <2>1
<1>13. CASE ~(Canonical(e) /\ Consistent(c))
  <2>1. why = Raise("value")
    BY ZenonT(40), <1>4, <1>7, <1>8, <1>9, <1>10, <1>13
  <2>. QED
    BY Zenon, <1>1, <1>8, <1>11, <1>13, <2>1
<1>. QED
  BY <1>12, <1>13

\* A token as the holder of key k issued it for a commitment, and a proof as it
\* arrived: any commitment and any token; what nobody else can make is another
\* signature of k.
IsToken(t) == t = [parts |-> t.parts, header |-> t.header, claims |-> t.claims, signature |-> t.signature]
Issued(k, was, halves) ==
    /\ halves \in Nat /\ was.token = TctFor(k, was.commitment, halves) /\ was.token # Odd
    /\ Served(was.commitment) /\ Canonical(was.commitment.explanation) /\ Consistent(was.commitment)
ProofArrived(k, x, was) ==
    /\ Served(x.commitment)
    /\ x.token # Odd => /\ IsToken(x.token)
                        /\ x.token.signature = was.token.signature \/ x.token.signature.key # k

AsIssued(k, t, halves, d) ==
    /\ ~t.header.duplicate /\ ~t.claims.duplicate
    /\ t.header.alg = "EdDSA" /\ t.header.typ = "aitp-tct+jwt"
    /\ t.claims.iss = k /\ t.claims.sub = k /\ t.claims.aud = k
    /\ t.claims.exp.type = "number" /\ t.claims.exp.halves = halves
    /\ t.claims.grants = <<"aitp.attestation">>
    /\ t.claims.ext.keys = {"com.zer07labs.seam"} /\ t.claims.ext.fields = {"type", "commitment_digest"}
    /\ t.claims.ext.type = "seam:commitment" /\ t.claims.ext.commitment_digest = d

LEMMA IssuedToken ==
    ASSUME NEW k, NEW was, NEW halves, Issued(k, was, halves), NEW t, t = was.token, NEW d,
           d = CommitmentDigest(was.commitment)
    PROVE  /\ t.parts = 3 /\ IsToken(t)
           /\ t.signature = [key |-> k, signed |-> <<t.header, t.claims>>] /\ t.signature.key = k
           /\ AsIssued(k, t, halves, d)
<1>1. t = TctFor(k, was.commitment, halves)
  BY DEF Issued
<1>. QED
  BY <1>1 DEF TctFor, IsToken, AsIssued

\* verify_tct says yes just to the token the issuer signed, before it expires and
\* for the commitment whose digest is in it.
LEMMA TctVerdict ==
    ASSUME NEW k, KeyOf(k) = k, k # None, NEW x, NEW was, NEW halves, Issued(k, was, halves),
           ProofArrived(k, x, was), x.token # Odd, NEW now \in Int, NEW c
    PROVE  VerifyTct(k, x.token, c, now) <=>
             /\ x.token = was.token /\ now < halves \div 2
             /\ ~IsRefusal(CommitmentDigest(c)) /\ CommitmentDigest(c) = CommitmentDigest(was.commitment)
<1>1. PICK t : t = x.token
  OBVIOUS
<1>2. PICK u : u = was.token
  OBVIOUS
<1>3. PICK d : d = CommitmentDigest(c)
  OBVIOUS
<1>4. PICK d0 : d0 = CommitmentDigest(was.commitment)
  BY Zenon
<1>5. /\ u.parts = 3 /\ IsToken(u)
      /\ u.signature = [key |-> k, signed |-> <<u.header, u.claims>>] /\ u.signature.key = k
  BY <1>2, <1>4, IssuedToken
<1>6. AsIssued(k, u, halves, d0)
  BY Zenon, <1>2, <1>4, IssuedToken
<1>7. IsToken(t) /\ (t.signature = u.signature \/ t.signature.key # k)
  BY <1>1, <1>2 DEF ProofArrived
<1>8. halves \in Nat
  BY DEF Issued
<1>9. Truncated(halves) = halves \div 2
  BY <1>8 DEF Truncated
<1>10. Expired(u.claims.exp, now) <=> now >= halves \div 2
  BY Zenon, <1>6, <1>9 DEF Expired, AsIssued
<1>11. ASSUME VerifyTct(k, t, c, now)
       PROVE  t = u /\ now < halves \div 2 /\ ~IsRefusal(d) /\ d = d0
  <2>1. /\ t.parts = 3 /\ t.signature = [key |-> k, signed |-> <<t.header, t.claims>>]
        /\ ~Expired(t.claims.exp, now) /\ ~IsRefusal(d) /\ t.claims.ext.commitment_digest = d
    BY Zenon, <1>3, <1>11 DEF VerifyTct
  <2>2. t.signature = u.signature
    BY SMT, SMTT(30), <1>7, <2>1
  <2>3. t.header = u.header /\ t.claims = u.claims
    BY SMT, SMTT(30), <1>5, <2>1, <2>2
  <2>4. t = u
    BY <1>5, <1>7, <2>1, <2>2, <2>3 DEF IsToken
  <2>5. halves \div 2 \in Int
    BY <1>8
  <2>. QED
    BY SMT, SMTT(30), <1>6, <1>10, <2>1, <2>4, <2>5 DEF AsIssued
<1>12. ASSUME t = u, now < halves \div 2, ~IsRefusal(d), d = d0
       PROVE  VerifyTct(k, t, c, now)
  <2>1. ~Expired(u.claims.exp, now)
    <3>1. halves \div 2 \in Int
      BY <1>8
    <3>. QED
      BY SMT, SMTT(30), <1>10, <1>12, <3>1
  <2>. QED
    BY Zenon, <1>3, <1>5, <1>6, <1>12, <2>1 DEF VerifyTct, AsIssued
<1>. QED
  BY <1>1, <1>2, <1>3, <1>4, <1>11, <1>12

LEMMA DigestOfIssued ==
    ASSUME NEW c, Served(c), Canonical(c.explanation), Consistent(c), NEW d, d = CommitmentDigest(c)
    PROVE  d = Digest([about |-> c.about, supersedes |-> c.supersedes, committer |-> c.committer,
                       why |-> Digest(c.explanation)])
<1>1. CommitmentView(c) = c
  BY ViewIsFaithful
<1>. QED
  BY SMT, SMTT(30), <1>1, DigestOfServed

\* The digest of a served commitment is that of the commitment that was signed
\* just when they are the same but for a digest left out.
LEMMA SameCommitment ==
    ASSUME NEW c, Served(c), NEW c0, Served(c0), Canonical(c0.explanation), Consistent(c0),
           NEW d, d = CommitmentDigest(CommitmentView(c)), NEW d0, d0 = CommitmentDigest(c0)
    PROVE  ~IsRefusal(d) /\ d = d0 <=>
               /\ Consistent(c)
               /\ [c EXCEPT !.explanation_digest = None] = [c0 EXCEPT !.explanation_digest = None]
<1>2. d0 = Digest([about |-> c0.about, supersedes |-> c0.supersedes, committer |-> c0.committer,
                   why |-> Digest(c0.explanation)])
  BY DigestOfIssued
<1>3. IF Canonical(c.explanation) /\ Consistent(c)
      THEN d = Digest([about |-> c.about, supersedes |-> c.supersedes, committer |-> c.committer,
                       why |-> Digest(c.explanation)])
      ELSE IsRefusal(d)
  BY DigestOfServed
<1>4. /\ [c EXCEPT !.explanation_digest = None] =
             [about |-> c.about, supersedes |-> c.supersedes, committer |-> c.committer,
              explanation |-> c.explanation, explanation_digest |-> None]
      /\ [c0 EXCEPT !.explanation_digest = None] =
             [about |-> c0.about, supersedes |-> c0.supersedes, committer |-> c0.committer,
              explanation |-> c0.explanation, explanation_digest |-> None]
  BY DEF Served, IsCommitment
<1>5. ASSUME ~IsRefusal(d), d = d0
      PROVE  /\ Consistent(c) /\ c.about = c0.about /\ c.supersedes = c0.supersedes
             /\ c.committer = c0.committer /\ c.explanation = c0.explanation
  BY SMT, SMTT(30), <1>2, <1>3, <1>5 DEF Digest
<1>6. ASSUME Consistent(c), c.about = c0.about, c.supersedes = c0.supersedes,
             c.committer = c0.committer, c.explanation = c0.explanation
      PROVE  ~IsRefusal(d) /\ d = d0
  BY <1>2, <1>3, <1>6 DEF Digest, IsRefusal
<1>. QED
  BY <1>4, <1>5, <1>6

LEMMA DecisionChecks ==
    ASSUME NEW k, NEW x, NEW now
    PROVE  VerifyDecision(k, x, now) =
               IF x.issuer_aid # k THEN Raise("issuer mismatch")
               ELSE IF x.token = Odd THEN Raise("decode")
               ELSE Answer(VerifyTct(k, x.token, CommitmentView(x.commitment), now))
<1>1. PICK ok : ok = Answer(VerifyTct(k, x.token, CommitmentView(x.commitment), now))
  BY Zenon
<1>2. PICK c : c = <<Check(x.issuer_aid # k, Raise("issuer mismatch")), Check(x.token = Odd, Raise("decode"))>>
  BY Zenon
<1>3. Len(c) = 2
  BY Zenon, <1>2
<1>4. /\ c[1] = Check(x.issuer_aid # k, Raise("issuer mismatch"))
      /\ c[2] = Check(x.token = Odd, Raise("decode"))
  BY Zenon, <1>2
<1>5. VerifyDecision(k, x, now) = FirstRefusal(c, ok)
  BY <1>1, <1>2, Zenon DEF VerifyDecision
<1>6. Raise("issuer mismatch") # None /\ Raise("decode") # None
  BY Zenon, RaiseRefuses DEF Errors
<1>7. \/ (\A i \in 1 .. 2 : c[i] = None) /\ FirstRefusal(c, ok) = ok
      \/ \E i \in 1 .. 2 : /\ c[i] # None /\ FirstRefusal(c, ok) = c[i]
                           /\ \A j \in 1 .. i - 1 : c[j] = None
  <2>1. Len(c) \in Nat
    BY SMT, SMTT(30), <1>3
  <2>2. \/ (\A i \in 1 .. Len(c) : c[i] = None) /\ FirstRefusal(c, ok) = ok
        \/ \E i \in 1 .. Len(c) : /\ c[i] # None /\ FirstRefusal(c, ok) = c[i]
                                  /\ \A j \in 1 .. i - 1 : c[j] = None
    BY <2>1, FirstRefusalIs
  <2>. QED
    BY <1>3, <2>2
<1>8. \/ c[1] # None /\ FirstRefusal(c, ok) = c[1]
      \/ c[1] = None /\ c[2] # None /\ FirstRefusal(c, ok) = c[2]
      \/ c[1] = None /\ c[2] = None /\ FirstRefusal(c, ok) = ok
  BY <1>7
<1>9. /\ c[1] = IF x.issuer_aid # k THEN Raise("issuer mismatch") ELSE None
      /\ c[2] = IF x.token = Odd THEN Raise("decode") ELSE None
  BY <1>4, Zenon DEF Check
<1>. QED
  BY <1>1, <1>5, <1>6, <1>8, <1>9, Zenon

\* Whatever a proof suffered on its way, and whoever signed another token in its
\* place: it verifies just when it is the decision the pinned issuer signed and
\* has not expired (verify_decision).
LEMMA EveryDecisionIsJudged ==
    ASSUME NEW k, KeyOf(k) = k, k # None, NEW x, NEW was, NEW halves, Issued(k, was, halves),
           ProofArrived(k, x, was), NEW now \in Int
    PROVE  DecisionJudged(k, x, was, now)
<1>1. PICK b : b = VerifyTct(k, x.token, CommitmentView(x.commitment), now)
  BY Zenon
<1>2. VerifyDecision(k, x, now) = IF x.issuer_aid # k THEN Raise("issuer mismatch")
                                  ELSE IF x.token = Odd THEN Raise("decode") ELSE Answer(b)
  BY <1>1, DecisionChecks, Zenon
<1>3. was.token.claims.exp.halves = halves
  <2>1. PICK u : u = was.token
    OBVIOUS
  <2>2. PICK d : d = CommitmentDigest(was.commitment)
    OBVIOUS
  <2>3. AsIssued(k, u, halves, d)
    BY Zenon, <2>1, <2>2, IssuedToken
  <2>. QED
    BY <2>1, <2>3 DEF AsIssued
<1>4. ASSUME x.token # Odd
      PROVE  b = (SameDecision(x, was) /\ now < halves \div 2)
  <2>1. PICK d : d = CommitmentDigest(CommitmentView(x.commitment))
    OBVIOUS
  <2>2. PICK d0 : d0 = CommitmentDigest(was.commitment)
    OBVIOUS
  <2>3. VerifyTct(k, x.token, CommitmentView(x.commitment), now) <=>
            x.token = was.token /\ now < halves \div 2 /\ ~IsRefusal(d) /\ d = d0
    BY SMT, SMTT(30), <1>4, <2>1, <2>2, TctVerdict
  <2>4. ~IsRefusal(d) /\ d = d0 <=>
            /\ Consistent(x.commitment)
            /\ [x.commitment EXCEPT !.explanation_digest = None]
                   = [was.commitment EXCEPT !.explanation_digest = None]
    <3>1. PICK c : c = x.commitment
      OBVIOUS
    <3>2. PICK c0 : c0 = was.commitment
      OBVIOUS
    <3>3. Served(c) /\ Served(c0) /\ Canonical(c0.explanation) /\ Consistent(c0)
      BY <3>1, <3>2 DEF Issued, ProofArrived
    <3>4. d = CommitmentDigest(CommitmentView(c)) /\ d0 = CommitmentDigest(c0)
      BY Zenon, <2>1, <2>2, <3>1, <3>2
    <3>5. ~IsRefusal(d) /\ d = d0 <=>
              /\ Consistent(c)
              /\ [c EXCEPT !.explanation_digest = None] = [c0 EXCEPT !.explanation_digest = None]
      BY <3>3, <3>4, SameCommitment, Zenon
    <3>. QED
      BY <3>1, <3>2, <3>5, Zenon
  <2>5. SameDecision(x, was) <=> x.token = was.token /\ ~IsRefusal(d) /\ d = d0
    BY <2>4, Zenon DEF SameDecision
  <2>6. VerifyTct(k, x.token, CommitmentView(x.commitment), now) <=> SameDecision(x, was) /\ now < halves \div 2
    BY <2>3, <2>5, Zenon
  <2>7. VerifyTct(k, x.token, CommitmentView(x.commitment), now) \in BOOLEAN
    BY Zenon DEF VerifyTct
  <2>. QED
    BY <1>1, <2>6, <2>7, Zenon
<1>. QED
  BY <1>2, <1>3, <1>4, Zenon DEF DecisionJudged

LEMMA EveryPublishedDigestStands ==
    ASSUME NEW k, KeyOf(k) = k, k # None, NEW x, NEW was, NEW halves, Issued(k, was, halves),
           ProofArrived(k, x, was), x.token # Odd
    PROVE  PublishedDigestStands(k, x, was)
<1>1. PICK c : c = [x.commitment EXCEPT !.explanation = None]
  BY Zenon
<1>2. PICK d : d = CommitmentDigest(c)
  OBVIOUS
<1>3. PICK d0 : d0 = CommitmentDigest(was.commitment)
  OBVIOUS
<1>4. PICK pub : pub = c.explanation_digest
  OBVIOUS
<1>5. /\ c.explanation = None /\ c.committer # None
      /\ pub = None \/ \E e : pub = Digest(e)
  <2>1. PICK y : y = x.commitment
    OBVIOUS
  <2>2. /\ y = [about |-> y.about, supersedes |-> y.supersedes, committer |-> y.committer,
                explanation |-> y.explanation, explanation_digest |-> y.explanation_digest]
        /\ y.committer # None /\ (y.explanation_digest = None \/ \E e : y.explanation_digest = Digest(e))
    BY <2>1 DEF ProofArrived, Served, IsCommitment
  <2>3. c = [about |-> y.about, supersedes |-> y.supersedes, committer |-> y.committer,
             explanation |-> None, explanation_digest |-> y.explanation_digest]
    BY <1>1, <2>1, <2>2
  <2>. QED
    BY <1>4, <2>2, <2>3
<1>6. PICK why : why = CommitmentExplanation(c)
  OBVIOUS
<1>7. ExplanationDigest(<<>>) = Digest(<<>>)
  BY SMT, SMTT(30) DEF ExplanationDigest
<1>8. why = IF pub = None THEN Digest(<<>>) ELSE pub
  BY <1>4, <1>5, <1>6, <1>7 DEF CommitmentExplanation
<1>9. ~IsRefusal(why)
  BY <1>5, <1>8 DEF IsRefusal, Digest
<1>10. d = Digest([about |-> c.about, supersedes |-> c.supersedes, committer |-> c.committer, why |-> why])
  BY <1>2, <1>5, <1>6, <1>9 DEF CommitmentDigest
<1>11. d0 = Digest([about |-> was.commitment.about, supersedes |-> was.commitment.supersedes,
                    committer |-> was.commitment.committer, why |-> Digest(was.commitment.explanation)])
  <2>1. PICK c0 : c0 = was.commitment
    OBVIOUS
  <2>2. Served(c0) /\ Canonical(c0.explanation) /\ Consistent(c0) /\ d0 = CommitmentDigest(c0)
    BY <1>3, <2>1 DEF Issued
  <2>3. d0 = Digest([about |-> c0.about, supersedes |-> c0.supersedes, committer |-> c0.committer,
                     why |-> Digest(c0.explanation)])
    BY <2>2, DigestOfIssued
  <2>. QED
    BY <2>1, <2>3, Zenon
<1>12. VerifyTct(k, x.token, c, 0) => d = d0
  BY SMT, SMTT(30), <1>2, <1>3, TctVerdict
<1>13. d = d0 => /\ c.about = was.commitment.about /\ c.committer = was.commitment.committer
                 /\ why = Digest(was.commitment.explanation)
  BY <1>10, <1>11 DEF Digest
<1>. QED
  BY <1>1, <1>4, <1>8, <1>12, <1>13, Zenon DEF PublishedDigestStands

-----------------------------------------------------------------------------
(* Every input the probe makes, however often it is damaged, is of the     *)
(* shape the lemmas speak of.                                              *)

LEMMA Marks ==
    /\ Max64 \in Nat /\ Max64 >= 1
    /\ None # Odd /\ None \notin MarkedTexts /\ Odd \notin MarkedTexts /\ None \notin Int /\ Odd \notin Int
<1>1. Max64 \in Nat /\ Max64 # 0
  BY VerdictAssumption
<1>2. /\ None # Odd /\ None \notin MarkedTexts /\ Odd \notin MarkedTexts /\ None \notin Int /\ Odd \notin Int
  BY VerdictAssumption
<1>. QED
  BY SMT, SMTT(30), <1>1, <1>2

\* What the slots of a streamed record hold, damaged or not.
SlotsHeld(p) ==
    /\ IsPayload(p)
    /\ \A f \in RequiredSlots : p[f] \in {"", "short", "other", "d", "t"}
    /\ \A f \in OptionalSlots : p[f] \in {None, "", "other", "t"}
    /\ p.sealed_at \in {0, 1, Max64}
AnotherDigest(was) == Digest(Canon([was.payload EXCEPT !.decision_id = "another"]))
RecordKept(x, was) ==
    /\ \E p \in SealedPayloads : was = [kind |-> "DECISION_SEALED", digest |-> Digest(Canon(p)), payload |-> p]
    /\ IsEvent(x) /\ SlotsHeld(x.payload) /\ x.digest \in {was.digest, None, AnotherDigest(was)}

LEMMA HeldIsOnTheWire ==
    ASSUME NEW p, SlotsHeld(p)
    PROVE  OnTheWire(p) /\ p.decision_id # "another"
<1>1. /\ \A f \in RequiredSlots : p[f] # None /\ p[f] # Odd
      /\ \A f \in OptionalSlots : p[f] # Odd
  BY Zenon, Marks DEF SlotsHeld, MarkedTexts
<1>2. p.sealed_at \in 0 .. Max64
  <2>1. p.sealed_at = 0 \/ p.sealed_at = 1 \/ p.sealed_at = Max64
    BY Zenon DEF SlotsHeld
  <2>. QED
    BY <2>1, Marks
<1>3. p.decision_id # "another"
  BY Zenon DEF SlotsHeld, RequiredSlots
<1>. QED
  BY Zenon, <1>1, <1>2, <1>3 DEF OnTheWire, SlotsHeld

LEMMA SealedShape ==
    ASSUME NEW p \in SealedPayloads
    PROVE  SlotsHeld(p) /\ p.schema_version = 4 /\ p.ciphertext_digest # "" /\ StrippedSlots(p) = {}
<1>1. IsPayload(p)
  BY Zenon DEF SealedPayloads, IsPayload, RecordSlots, RequiredSlots, OptionalSlots
<1>2. /\ p.decision_id = "t" /\ p.tenant = "t" /\ p.namespace = "t" /\ p.ciphertext_digest = "d"
      /\ p.sealed_at = 1 /\ p.outcome = "t" /\ p.mode \in {None, "t"} /\ p.policy_version = None
      /\ p.supersedes = None /\ p.context_digest = "d" /\ p.participation_digest = "d"
      /\ p.policy_rules_digest \in {"", "d"} /\ p.classification = "t" /\ p.participants_digest = "d"
      /\ p.trust_basis_commitment = "t" /\ p.auth_method = "t" /\ p.schema_version = 4
  BY Zenon DEF SealedPayloads
<1>3. SlotsHeld(p)
  BY ZenonT(40), <1>1, <1>2 DEF SlotsHeld, RequiredSlots, OptionalSlots
<1>4. StrippedSlots(p) = {}
  BY Zenon, <1>2 DEF StrippedSlots, MandatoryDigests, MandatoryTexts
<1>. QED
  BY Zenon, <1>2, <1>3, <1>4

LEMMA RecordPicked ==
    ASSUME NEW p \in SealedPayloads, NEW e,
           e = [kind |-> "DECISION_SEALED", digest |-> Digest(Canon(p)), payload |-> p]
    PROVE  RecordKept(e, e)
<1>1. e.payload = p
  OBVIOUS
<1>2. IsEvent(e)
  BY DEF IsEvent
<1>. QED
  BY Zenon, <1>1, <1>2, SealedShape DEF RecordKept

LEMMA WrongIsHeld ==
    ASSUME NEW p, SlotsHeld(p), NEW f \in DOMAIN p, NEW v \in WrongValues(f)
    PROVE  SlotsHeld([p EXCEPT ![f] = v])
<1>1. f \in RecordSlots /\ DOMAIN p = RecordSlots
  BY Zenon DEF SlotsHeld, IsPayload
<1>2. /\ f \in RequiredSlots => v \in {"", "short", "other"}
      /\ f \in OptionalSlots => v \in {None, "", "other"}
      /\ f = "sealed_at" => v \in {0, Max64}
  BY <1>1, Zenon DEF WrongValues, RequiredSlots, OptionalSlots, MandatoryDigests
<1>3. PICK q : q = [p EXCEPT ![f] = v]
  BY Zenon
<1>4. IsPayload(q) /\ \A g \in RecordSlots : q[g] = IF g = f THEN v ELSE p[g]
  BY Zenon, <1>1, <1>3 DEF IsPayload, SlotsHeld
<1>5. /\ \A g \in RequiredSlots : q[g] \in {"", "short", "other", "d", "t"}
      /\ \A g \in OptionalSlots : q[g] \in {None, "", "other", "t"}
      /\ q.sealed_at \in {0, 1, Max64}
  BY Zenon, <1>2, <1>4 DEF SlotsHeld, RecordSlots
<1>. QED
  BY Zenon, <1>3, <1>4, <1>5 DEF SlotsHeld

LEMMA RecordArrives ==
    ASSUME NEW x, NEW was, RecordKept(x, was)
    PROVE  Streamed(was) /\ EventArrived(x, was)
<1>1. PICK p \in SealedPayloads : was = [kind |-> "DECISION_SEALED", digest |-> Digest(Canon(p)), payload |-> p]
  BY DEF RecordKept
<1>2. was.kind = "DECISION_SEALED" /\ was.digest = Digest(Canon(p)) /\ was.payload = p /\ IsEvent(was)
  BY <1>1 DEF IsEvent
<1>3. was.digest # None
  BY Zenon, <1>2, InputsAssumption
<1>4. Streamed(was)
  BY Zenon, <1>2, <1>3, SealedShape, HeldIsOnTheWire DEF Streamed
<1>5. PICK q : q = x.payload
  OBVIOUS
<1>6. SlotsHeld(q) /\ OnTheWire(q) /\ q.decision_id # "another" /\ OnTheWire(p)
  BY Zenon, <1>5, HeldIsOnTheWire, SealedShape DEF RecordKept
<1>7. PICK r : r = [p EXCEPT !.decision_id = "another"]
  BY Zenon
<1>8. PICK cr : cr = Canon(r)
  OBVIOUS
<1>9. PICK cq : cq = Canon(q)
  OBVIOUS
<1>10. cr.decision_id = "another"
  <2>1. r.decision_id = "another" /\ DOMAIN r = RecordSlots
    BY <1>6, <1>7 DEF OnTheWire, IsPayload, RecordSlots, RequiredSlots
  <2>. QED
    BY Zenon, <2>1, <1>8 DEF Canon, RecordSlots, RequiredSlots
<1>11. cq.decision_id # "another"
  <2>1. cq.decision_id = q.decision_id
    BY ZenonT(40), <1>6, <1>9, CanonSlots DEF RecordSlots, RequiredSlots
  <2>. QED
    BY <2>1, <1>6
<1>12. AnotherDigest(was) = Digest(cr)
  BY <1>2, <1>7, <1>8 DEF AnotherDigest
<1>13. Digest(cr) # Digest(cq)
  BY <1>10, <1>11 DEF Digest
<1>. QED
  BY Zenon, <1>4, <1>5, <1>6, <1>9, <1>12, <1>13 DEF RecordKept, EventArrived
-----------------------------------------------------------------------------
\* The key of the runtime, and the heads it serves.
LEMMA TheKey ==
    KeyOf("k1") = "k1" /\ "k1" # None /\ "k1" # Odd
BY Zenon, Marks DEF KeyOf, MarkedTexts

LEMMA ServedHeadIsAttested ==
    ASSUME NEW tenant, tenant # Odd, tenant # "lone", NEW was, was = ServedHead(tenant), was.signature # Odd
    PROVE  Attested("k1", was) /\ HeadArrived("k1", was, was)
<1>1. PICK a : a = [attested_len |-> 1, attested_head |-> "h", attested_at |-> 1, digest_schema |-> 1,
                    issuer_aid |-> "k1", tenant |-> tenant, signature |-> None]
  BY Zenon
<1>2. PICK s : s = [key |-> "k1", signed |-> HeadSigned([a EXCEPT !.issuer_aid = "k1"], TenantOf(a))]
  BY Zenon
<1>3. was = [a EXCEPT !.issuer_aid = "k1", !.signature = s]
  BY <1>1, <1>2 DEF ServedHead, SignedBy
<1>4. was = [attested_len |-> 1, attested_head |-> "h", attested_at |-> 1, digest_schema |-> 1,
             issuer_aid |-> "k1", tenant |-> tenant, signature |-> s]
  BY Zenon, <1>1, <1>3
<1>5. /\ was.attested_len = 1 /\ was.attested_at = 1 /\ was.digest_schema = 1
      /\ was.attested_head = "h" /\ was.issuer_aid = "k1" /\ was.tenant = tenant /\ was.signature = s
  <2>1. was.attested_len = 1
    BY SMT, SMTT(30), <1>4
  <2>2. was.attested_at = 1
    BY SMT, SMTT(30), <1>4
  <2>3. was.digest_schema = 1
    BY SMT, SMTT(30), <1>4
  <2>4. was.attested_head = "h"
    BY SMT, SMTT(30), <1>4
  <2>5. was.issuer_aid = "k1"
    BY SMT, SMTT(30), <1>4
  <2>6. was.tenant = tenant
    BY SMT, SMTT(30), <1>4
  <2>7. was.signature = s
    BY <1>4
  <2>. QED
    BY <2>1, <2>2, <2>3, <2>4, <2>5, <2>6, <2>7
<1>6. DOMAIN was = IntSlots \cup OtherSlots
  <2>1. DOMAIN was = {"attested_len", "attested_head", "attested_at", "digest_schema", "issuer_aid",
                      "tenant", "signature"}
    BY <1>4
  <2>. QED
    BY <2>1 DEF IntSlots, OtherSlots
<1>7. was.signature = [key |-> "k1", signed |-> HeadSigned(was, TenantOf(was))]
  <2>1. PICK b : b = [a EXCEPT !.issuer_aid = "k1"]
    BY Zenon
  <2>2. /\ b.attested_len = 1 /\ b.attested_at = 1 /\ b.digest_schema = 1
        /\ b.attested_head = "h" /\ b.issuer_aid = "k1"
    BY <1>1, <2>1
  <2>3. TenantOf(was) = TenantOf(a)
    <3>1. a.tenant = tenant
      BY Zenon, <1>1
    <3>. QED
      BY <1>5, <3>1 DEF TenantOf
  <2>4. HeadSigned(b, TenantOf(a)) = HeadSigned(was, TenantOf(was))
    BY <1>5, <2>2, <2>3 DEF HeadSigned
  <2>. QED
    BY <1>2, <1>5, <2>1, <2>4
<1>9. was.attested_head # Odd /\ was.tenant \notin {Odd, "lone"}
  BY Zenon, <1>5, Marks DEF MarkedTexts
<1>10. \A f \in IntSlots : was[f] \in 0 .. Max64 /\ was[f] \in Int
  <2>1. \A f \in IntSlots : was[f] = 1
    BY <1>5 DEF IntSlots
  <2>2. 1 \in 0 .. Max64 /\ 1 \in Int
    BY SMT, SMTT(30), Marks
  <2>. QED
    BY <2>1, <2>2
<1>11. IsHead(was)
  <2>1. was = [f \in DOMAIN was |-> was[f]]
    BY Zenon, <1>4
  <2>. QED
    BY Zenon, <1>6, <2>1 DEF IsHead
<1>12. Attested("k1", was)
  BY SMT, SMTT(30), <1>5, <1>6, <1>7, <1>9, <1>10 DEF Attested
<1>13. HeadArrived("k1", was, was)
  BY <1>10, <1>11 DEF HeadArrived
<1>. QED
  BY <1>12, <1>13

LEMMA IntReplaced ==
    ASSUME NEW x, NEW was, HeadArrived("k1", x, was), NEW g \in IntSlots, NEW v, v \in Int \/ v = Odd,
           NEW y, y = [x EXCEPT ![g] = v]
    PROVE  HeadArrived("k1", y, was)
<1>0. IsHead(x)
  BY DEF HeadArrived
<1>a. g \in IntSlots \cup OtherSlots
  OBVIOUS
<1>1. IsHead(y) /\ \A f \in IntSlots \cup OtherSlots : y[f] = IF f = g THEN v ELSE x[f]
  BY <1>0, <1>a DEF IsHead
<1>2. v \in Int \cup {Odd}
  OBVIOUS
<1>3. y.signature = x.signature
  BY SMT, SMTT(30), <1>1 DEF IntSlots, OtherSlots
<1>. QED
  BY <1>1, <1>2, <1>3 DEF HeadArrived

NotForged(v, was) == v = Odd \/ v.key # "k1"
LEMMA OtherReplaced ==
    ASSUME NEW x, NEW was, HeadArrived("k1", x, was), NEW g \in OtherSlots, NEW v,
           g = "signature" => NotForged(v, was),
           NEW y, y = [x EXCEPT ![g] = v]
    PROVE  HeadArrived("k1", y, was)
<1>0. IsHead(x)
  BY DEF HeadArrived
<1>a. g \in IntSlots \cup OtherSlots
  OBVIOUS
<1>1. IsHead(y) /\ \A f \in IntSlots \cup OtherSlots : y[f] = IF f = g THEN v ELSE x[f]
  BY <1>0, <1>a DEF IsHead
<1>2. \A f \in IntSlots : y[f] = x[f]
  BY <1>1 DEF IntSlots, OtherSlots
<1>3. y.signature = IF g = "signature" THEN v ELSE x.signature
  BY <1>1 DEF OtherSlots
<1>. QED
  BY Zenon, <1>1, <1>2, <1>3 DEF HeadArrived, NotForged

LEMMA HeadResigned ==
    ASSUME NEW x, NEW was, HeadArrived("k1", x, was), NEW y, y = SignedBy("k2", x)
    PROVE  HeadArrived("k1", y, was)
<1>1. PICK s : s = [key |-> "k2", signed |-> HeadSigned([x EXCEPT !.issuer_aid = "k2"], TenantOf(x))]
  BY Zenon
<1>2. PICK z : z = [x EXCEPT !.issuer_aid = "k2"]
  BY Zenon
<1>3. y = [z EXCEPT !.signature = s]
  BY <1>1, <1>2 DEF SignedBy
<1>4. HeadArrived("k1", z, was)
  BY <1>2, OtherReplaced DEF OtherSlots
<1>5. s.key # "k1"
  BY <1>1
<1>. QED
  BY <1>3, <1>4, <1>5, OtherReplaced DEF OtherSlots, NotForged
-----------------------------------------------------------------------------
(* Proofs of decisions.                                                    *)

EntryList(e) == \E n \in 0 .. 2 : e \in [1 .. n -> AnyEntry]
CommitmentHeld(c) ==
    /\ IsCommitment(c) /\ EntryList(c.explanation) /\ c.committer # None
    /\ c.explanation_digest = None \/ \E e : c.explanation_digest = Digest(e)
IsProof(x) == x = [issuer_aid |-> x.issuer_aid, token |-> x.token, commitment |-> x.commitment]
TokenHeld(t, was) ==
    t # Odd => IsToken(t) /\ (t.signature = was.token.signature \/ t.signature.key # "k1")
ProofKept(x, was) ==
    /\ \E c \in ServedCommitments, halves \in {3, 4} : was = ServedProof(c, halves)
    /\ IsProof(x) /\ CommitmentHeld(x.commitment) /\ TokenHeld(x.token, was)

LEMMA EntriesRead ==
    ASSUME NEW e, EntryList(e)
    PROVE  /\ IsExplanation(e) /\ e # None
           /\ [i \in DOMAIN e |-> EntryView(e[i])] # None
<1>1. PICK n \in 0 .. 2 : e \in [1 .. n -> AnyEntry]
  BY DEF EntryList
<1>2. ASSUME NEW x \in AnyEntry
      PROVE  x = [kind |-> x.kind, confidence |-> x.confidence] /\ EntryView(x) \in AnyEntry
  <2>1. PICK K : K = EntryKinds \cup {"veto", "<unknown kind>"}
    BY Zenon
  <2>2. PICK C : C = {None, "0.5", "0.1"}
    BY Zenon
  <2>3. AnyEntry = [kind : K, confidence : C]
    BY Zenon, <2>1, <2>2 DEF AnyEntry
  <2>4. x = [kind |-> x.kind, confidence |-> x.confidence] /\ x.confidence \in C
    BY <2>3
  <2>5. PICK k : k = IF x.kind \in EntryKinds THEN x.kind ELSE "<unknown kind>"
    BY Zenon
  <2>6. k \in K
    BY Zenon, <2>1, <2>5
  <2>. QED
    BY Zenon, <2>3, <2>4, <2>5, <2>6 DEF EntryView
<1>3. e = [i \in DOMAIN e |-> e[i]] /\ DOMAIN e = 1 .. n /\ \A i \in DOMAIN e : e[i] \in AnyEntry
  BY <1>1
<1>4. IsExplanation(e)
  BY <1>2, <1>3 DEF IsExplanation
<1>6. [i \in DOMAIN e |-> EntryView(e[i])] \in [1 .. n -> AnyEntry]
  BY <1>2, <1>3
<1>. QED
  BY Zenon, <1>1, <1>4, <1>6, InputsAssumption

LEMMA HeldIsServed ==
    ASSUME NEW c, CommitmentHeld(c)
    PROVE  Served(c)
<1>1. PICK e : e = c.explanation
  OBVIOUS
<1>2. PICK w : w = [i \in DOMAIN e |-> EntryView(e[i])]
  BY Zenon
<1>3. IsExplanation(e) /\ e # None /\ w # None
  BY <1>1, <1>2, EntriesRead DEF CommitmentHeld
<1>4. CommitmentView(c) = [c EXCEPT !.explanation = w]
  BY <1>1, <1>2 DEF CommitmentView
<1>5. CommitmentView(c).explanation = w
  BY <1>4 DEF CommitmentHeld, IsCommitment
<1>. QED
  BY <1>1, <1>3, <1>5 DEF Served, CommitmentHeld

LEMMA ListsOfEntries ==
    /\ EntryList(<<>>)
    /\ \A a \in AnyEntry : EntryList(<<a>>)
    /\ \A a, b \in AnyEntry : EntryList(<<a, b>>)
    /\ \A e : EntryList(e) => EntryList(Reversed(e))
<1>1. EntryList(<<>>)
  <2>1. <<>> \in [1 .. 0 -> AnyEntry]
    OBVIOUS
  <2>. QED
    BY <2>1 DEF EntryList
<1>2. ASSUME NEW a \in AnyEntry PROVE EntryList(<<a>>)
  <2>1. <<a>> \in [1 .. 1 -> AnyEntry]
    OBVIOUS
  <2>. QED
    BY <2>1 DEF EntryList
<1>3. ASSUME NEW a \in AnyEntry, NEW b \in AnyEntry PROVE EntryList(<<a, b>>)
  <2>1. <<a, b>> \in [1 .. 2 -> AnyEntry]
    OBVIOUS
  <2>. QED
    BY <2>1 DEF EntryList
<1>4. ASSUME NEW e, EntryList(e) PROVE EntryList(Reversed(e))
  <2>1. PICK n \in 0 .. 2 : e \in [1 .. n -> AnyEntry]
    BY <1>4 DEF EntryList
  <2>2. Len(e) = n
    BY SMT, SMTT(30), <2>1
  <2>3. Reversed(e) = [i \in 1 .. n |-> e[(n - i) + 1]]
    BY <2>2 DEF Reversed
  <2>4. \A i \in 1 .. n : (n - i) + 1 \in 1 .. n
    OBVIOUS
  <2>5. Reversed(e) \in [1 .. n -> AnyEntry]
    BY <2>1, <2>3, <2>4
  <2>. QED
    BY <2>5 DEF EntryList
<1>. QED
  BY <1>1, <1>2, <1>3, <1>4

LEMMA SomeEntries ==
    /\ Entry("vote", "0.5") \in AnyEntry /\ Entry("vote", None) \in AnyEntry
    /\ Entry("ballot", "0.5") \in AnyEntry /\ Entry("vote", "0.1") \in AnyEntry
    /\ Entry("veto", "0.5") \in AnyEntry
BY DEF Entry, AnyEntry, EntryKinds

LEMMA PickedExplanations ==
    ASSUME NEW e \in Explanations
    PROVE  EntryList(e) /\ Canonical(e)
<1>1. EntryList(e)
  BY SomeEntries, ListsOfEntries DEF Explanations
<1>2. \A k \in {"vote", "ballot"}, v \in {None, "0.5"} :
         /\ Entry(k, v).kind \in EntryKinds
         /\ Entry(k, v).confidence \notin {"nan", "-0.0", "1.5", "true"}
  BY Zenon, Marks DEF Entry, EntryKinds, MarkedTexts
<1>3. PICK a, b, d : a = Entry("vote", "0.5") /\ b = Entry("vote", None) /\ d = Entry("ballot", "0.5")
  OBVIOUS
<1>4. \A y \in {a, b, d} : y.kind \in EntryKinds /\ y.confidence \notin {"nan", "-0.0", "1.5", "true"}
  BY <1>2, <1>3
<1>5. e = <<>> \/ e = <<a>> \/ e = <<b, d>>
  BY <1>3 DEF Explanations
<1>6. \A i \in DOMAIN e : e[i] \in {a, b, d}
  BY SMT, SMTT(30), <1>5
<1>. QED
  BY <1>1, <1>4, <1>6 DEF Canonical

LEMMA PickedCommitments ==
    ASSUME NEW c \in ServedCommitments
    PROVE  CommitmentHeld(c) /\ Canonical(c.explanation) /\ Consistent(c)
<1>1. PICK e \in Explanations :
         c \in [about : {"a"}, supersedes : {None}, committer : {"", "m"}, explanation : {e},
               explanation_digest : {None, Digest(e)}]
  BY Zenon DEF ServedCommitments
<1>2. PICK M, D : M = {"", "m"} /\ D = {None, Digest(e)}
  BY Zenon
<1>3. c \in [about : {"a"}, supersedes : {None}, committer : M, explanation : {e}, explanation_digest : D]
  BY Zenon, <1>1, <1>2
<1>4. c.explanation = e /\ c.explanation_digest \in D /\ c.committer \in M /\ IsCommitment(c)
  BY <1>3 DEF IsCommitment
<1>5. c.committer # None
  BY Zenon, <1>2, <1>4, Marks DEF MarkedTexts
<1>6. c.explanation_digest = None \/ c.explanation_digest = Digest(e)
  BY ZenonT(40), <1>2, <1>4
<1>. QED
  BY <1>4, <1>5, <1>6, PickedExplanations DEF CommitmentHeld, Consistent

LEMMA AnyTct ==
    ASSUME NEW k, NEW c, NEW halves, NEW t, t = TctFor(k, c, halves)
    PROVE  IsToken(t) /\ t.signature.key = k
BY Zenon DEF TctFor, IsToken

LEMMA ProofPicked ==
    ASSUME NEW c \in ServedCommitments, NEW halves \in {3, 4}, NEW was, was = ServedProof(c, halves)
    PROVE  ProofKept(was, was)
<1>1. PICK t : t = TctFor("k1", c, halves)
  OBVIOUS
<1>2. was = [issuer_aid |-> "k1", token |-> t, commitment |-> c]
  BY <1>1 DEF ServedProof
<1>3. was.token = t /\ was.commitment = c /\ IsProof(was)
  BY <1>2 DEF IsProof
<1>4. IsToken(t)
  BY Zenon, <1>1, AnyTct
<1>. QED
  BY <1>3, <1>4, PickedCommitments DEF ProofKept, TokenHeld

LEMMA ProofArrives ==
    ASSUME NEW x, NEW was, ProofKept(x, was)
    PROVE  ProofArrived("k1", x, was) /\ \E halves : Issued("k1", was, halves)
<1>1. PICK c \in ServedCommitments, halves \in {3, 4} : was = ServedProof(c, halves)
  BY DEF ProofKept
<1>2. PICK t : t = TctFor("k1", c, halves)
  OBVIOUS
<1>3. was.token = t /\ was.commitment = c
  BY <1>1, <1>2 DEF ServedProof
<1>4. t # Odd
  BY Zenon, <1>2, InputsAssumption
<1>5. Served(c) /\ Canonical(c.explanation) /\ Consistent(c)
  BY PickedCommitments, HeldIsServed
<1>6. Issued("k1", was, halves)
  BY SMT, SMTT(30), <1>2, <1>3, <1>4, <1>5 DEF Issued
<1>7. Served(x.commitment)
  BY HeldIsServed DEF ProofKept
<1>. QED
  BY <1>6, <1>7 DEF ProofKept, TokenHeld, ProofArrived

LEMMA CommitmentDamaged ==
    ASSUME NEW c, CommitmentHeld(c)
    PROVE  /\ CommitmentHeld([c EXCEPT !.about = "b"])
           /\ CommitmentHeld([c EXCEPT !.supersedes = ""])
           /\ CommitmentHeld([c EXCEPT !.committer = "n"])
           /\ CommitmentHeld([c EXCEPT !.explanation_digest = None])
           /\ CommitmentHeld([c EXCEPT !.explanation_digest = Digest(<<Entry("vote", "0.1")>>)])
           /\ CommitmentHeld([c EXCEPT !.explanation = <<Entry("vote", "0.1")>>])
           /\ CommitmentHeld([c EXCEPT !.explanation = <<Entry("veto", "0.5")>>])
           /\ CommitmentHeld([c EXCEPT !.explanation = Reversed(@)])
           /\ CommitmentHeld([c EXCEPT !.explanation = <<>>])
<1>1. "n" # None
  BY Zenon, Marks DEF MarkedTexts
<1>2. IsCommitment(c) /\ EntryList(c.explanation) /\ c.committer # None
      /\ (c.explanation_digest = None \/ \E e : c.explanation_digest = Digest(e))
  BY DEF CommitmentHeld
<1>3. ASSUME NEW v PROVE CommitmentHeld([c EXCEPT !.about = v]) /\ CommitmentHeld([c EXCEPT !.supersedes = v])
  BY SMT, SMTT(30), <1>2 DEF CommitmentHeld, IsCommitment
<1>4. CommitmentHeld([c EXCEPT !.committer = "n"])
  BY SMT, SMTT(30), <1>1, <1>2 DEF CommitmentHeld, IsCommitment
<1>5. ASSUME NEW v, v = None \/ \E e : v = Digest(e)
      PROVE  CommitmentHeld([c EXCEPT !.explanation_digest = v])
  BY <1>2, <1>5 DEF CommitmentHeld, IsCommitment
<1>6. ASSUME NEW e, EntryList(e) PROVE CommitmentHeld([c EXCEPT !.explanation = e])
  BY SMT, SMTT(30), <1>2, <1>6 DEF CommitmentHeld, IsCommitment
<1>7. /\ EntryList(<<Entry("vote", "0.1")>>) /\ EntryList(<<Entry("veto", "0.5")>>)
      /\ EntryList(<<>>) /\ EntryList(Reversed(c.explanation))
  BY <1>2, SomeEntries, ListsOfEntries
<1>8. [c EXCEPT !.explanation = Reversed(@)] = [c EXCEPT !.explanation = Reversed(c.explanation)]
  OBVIOUS
<1>. QED
  BY Zenon, <1>3, <1>4, <1>5, <1>6, <1>7, <1>8

LEMMA ProofDamaged ==
    ASSUME NEW x, NEW was, ProofKept(x, was), NEW y,
           \/ \E c : CommitmentHeld(c) /\ y = [x EXCEPT !.commitment = c]
           \/ \E i : y = [x EXCEPT !.issuer_aid = i]
           \/ \E t : TokenHeld(t, was) /\ y = [x EXCEPT !.token = t]
    PROVE  ProofKept(y, was)
<1>1. IsProof(x) /\ CommitmentHeld(x.commitment) /\ TokenHeld(x.token, was)
      /\ \E c \in ServedCommitments, halves \in {3, 4} : was = ServedProof(c, halves)
  BY DEF ProofKept
<1>2. IsProof(y) /\ CommitmentHeld(y.commitment) /\ TokenHeld(y.token, was)
  BY <1>1 DEF IsProof
<1>. QED
  BY <1>1, <1>2 DEF ProofKept

LEMMA TokenDamaged ==
    ASSUME NEW t, NEW was, TokenHeld(t, was), t # Odd
    PROVE  /\ \A exp : TokenHeld([t EXCEPT !.claims.exp = exp], was)
           /\ TokenHeld([t EXCEPT !.parts = 2], was)
           /\ TokenHeld([t EXCEPT !.header.alg = "none"], was)
           /\ TokenHeld([t EXCEPT !.claims.duplicate = TRUE], was)
           /\ \A c : TokenHeld(TctFor("k2", c, 8), was)
           /\ TokenHeld(Odd, was)
<1>1. IsToken(t) /\ (t.signature = was.token.signature \/ t.signature.key # "k1")
  BY DEF TokenHeld
<1>2. ASSUME NEW v PROVE TokenHeld([t EXCEPT !.claims = v], was) /\ TokenHeld([t EXCEPT !.header = v], was)
                         /\ TokenHeld([t EXCEPT !.parts = v], was)
  BY <1>1 DEF TokenHeld, IsToken
<1>3. \A exp : TokenHeld([t EXCEPT !.claims.exp = exp], was)
  <2>1. TAKE exp
  <2>2. [t EXCEPT !.claims.exp = exp] = [t EXCEPT !.claims = [t.claims EXCEPT !.exp = exp]]
    OBVIOUS
  <2>. QED
    BY Zenon, <1>2, <2>2
<1>4. [t EXCEPT !.header.alg = "none"] = [t EXCEPT !.header = [t.header EXCEPT !.alg = "none"]]
  OBVIOUS
<1>5. [t EXCEPT !.claims.duplicate = TRUE] = [t EXCEPT !.claims = [t.claims EXCEPT !.duplicate = TRUE]]
  OBVIOUS
<1>6. ASSUME NEW c PROVE TokenHeld(TctFor("k2", c, 8), was)
  <2>1. PICK s : s = TctFor("k2", c, 8)
    OBVIOUS
  <2>2. IsToken(s) /\ s.signature.key = "k2"
    BY SMT, SMTT(30), <2>1, AnyTct
  <2>. QED
    BY <2>1, <2>2 DEF TokenHeld
<1>7. TokenHeld(Odd, was)
  BY DEF TokenHeld
<1>. QED
  BY Zenon, <1>2, <1>3, <1>4, <1>5, <1>6, <1>7

Minted(k, t, s, at, nonce, pop) ==
    /\ pop = [issued_at_ms |-> at, nonce |-> nonce,
              signature |-> [key |-> k, signed |-> Consent(k, t, s, at, nonce), len |-> 64]]
    /\ at \in 0 .. Max64 /\ nonce \notin {"", "long", "bad char", Odd}

\* enroll_pop refuses, or the proof it mints is well formed and signed.
LEMMA MintedProof ==
    ASSUME NEW k, NEW t, NEW s, NEW at, at \in Int \/ at = Odd, NEW nonce, NEW pop,
           pop = EnrollPop(k, t, s, at, nonce), ~IsRefusal(pop)
    PROVE  Minted(k, t, s, at, nonce, pop)
<1>1. PICK ok : ok = [issued_at_ms |-> at, nonce |-> nonce,
                      signature |-> [key |-> k, signed |-> Consent(k, t, s, at, nonce), len |-> 64]]
  BY Zenon
<1>2. PICK a, b : a = NonceRefusal(nonce) /\ b = UintSlot(at)
  OBVIOUS
<1>3. PICK c : c = <<a, b>>
  BY Zenon
<1>4. pop = FirstRefusal(c, ok)
  BY Zenon, <1>1, <1>2, <1>3 DEF EnrollPop
<1>5. Len(c) = 2 /\ c[1] = a /\ c[2] = b
  BY <1>3
<1>6. \/ (\A i \in 1 .. 2 : c[i] = None) /\ FirstRefusal(c, ok) = ok
      \/ \E i \in 1 .. 2 : c[i] # None /\ FirstRefusal(c, ok) = c[i]
  BY SMT, SMTT(30), <1>5, FirstRefusalIs
<1>7. /\ a = None <=> nonce \notin {"", "long", "bad char", Odd}
      /\ a # None => IsRefusal(a)
  BY <1>2, NoncePasses, Zenon
<1>8. /\ b = None <=> at # Odd /\ at \in 0 .. Max64
      /\ b # None => IsRefusal(b)
  <2>1. at \in Int \cup {Odd}
    OBVIOUS
  <2>. QED
    BY <1>2, <2>1, UintSlotPasses, Zenon
<1>9. a = None /\ b = None /\ pop = ok
  <2>1. ASSUME NEW i \in 1 .. 2, c[i] # None, FirstRefusal(c, ok) = c[i]
        PROVE  FALSE
    <3>1. i = 1 \/ i = 2
      OBVIOUS
    <3>2. IsRefusal(c[i])
      BY <1>5, <1>7, <1>8, <2>1, <3>1, Zenon
    <3>. QED
      BY <1>4, <2>1, <3>2, Zenon
  <2>2. (\A i \in 1 .. 2 : c[i] = None) /\ FirstRefusal(c, ok) = ok
    BY <1>6, <2>1, Zenon
  <2>. QED
    BY SMT, SMTT(30), <1>4, <1>5, <2>2
<1>. QED
  BY <1>1, <1>7, <1>8, <1>9, Zenon DEF Minted

LEMMA EnrolmentPicked ==
    ASSUME NEW at, at \in Int \/ at = Odd, NEW nonce, NEW kind, NEW pop,
           pop = EnrollPop("k1", "t", "s", at, nonce), 
           NEW q, IsRefusal(pop) => q = None, ~IsRefusal(pop) => q = pop,
           NEW x, x = [subject_aid |-> "k1", tenant |-> "t", namespace |-> "s", kind |-> kind, pop |-> q]
    PROVE  Given("k1", x) /\ Arrived("k1", x, x)
<1>3. x.subject_aid = "k1" /\ x.tenant = "t" /\ x.namespace = "s" /\ x.pop = q /\ IsEnrolment(x)
  BY ZenonT(40) DEF IsEnrolment
<1>4. CASE q = None
  BY Zenon, <1>3, <1>4 DEF Given, Arrived
<1>5. CASE q # None
  <2>1. q = pop /\ ~IsRefusal(pop)
    BY <1>5
  <2>2. PICK z : z = [key |-> "k1", signed |-> Consent("k1", "t", "s", at, nonce), len |-> 64]
    BY Zenon
  <2>3. /\ q = [issued_at_ms |-> at, nonce |-> nonce, signature |-> z]
        /\ at \in 0 .. Max64 /\ nonce \notin {"", "long", "bad char", Odd}
    <3>1. Minted("k1", "t", "s", at, nonce, pop)
      BY <2>1, MintedProof
    <3>. QED
      BY <2>1, <2>2, <3>1, ZenonT(40) DEF Minted
  <2>4. q.issued_at_ms = at /\ q.nonce = nonce /\ q.signature = z /\ IsPop(q)
    BY Zenon, <2>3 DEF IsPop
  <2>5. Given("k1", x)
    BY ZenonT(40), <1>3, <2>2, <2>3, <2>4 DEF Given
  <2>6. IsConsent("k1", z, x)
    BY SMT, SMTT(30), <1>3, <2>2, <2>4 DEF IsConsent
  <2>7. at \in Int \cup {Odd}
    OBVIOUS
  <2>8. PopArrived("k1", q, x)
    BY <2>4, <2>6, <2>7, Zenon DEF PopArrived
  <2>9. Arrived("k1", x, x)
    BY <1>3, <1>5, <2>8, Zenon DEF Arrived
  <2>. QED
    BY <2>5, <2>9
<1>. QED
  BY <1>4, <1>5

LEMMA EnrolmentDamaged ==
    ASSUME NEW x, NEW was, Arrived("k1", x, was), x.pop # None, NEW y,
           \/ \E v : y = [x EXCEPT !.subject_aid = v]
           \/ \E v : y = [x EXCEPT !.tenant = v]
           \/ \E v : y = [x EXCEPT !.namespace = v]
           \/ \E v : PopArrived("k1", v, was) /\ y = [x EXCEPT !.pop = v]
    PROVE  Arrived("k1", y, was)
<1>1. IsEnrolment(x) /\ x.kind = was.kind /\ was.pop # None /\ PopArrived("k1", x.pop, was)
  BY DEF Arrived
<1>2. IsEnrolment(y) /\ y.kind = x.kind /\ PopArrived("k1", y.pop, was)
  BY <1>1 DEF IsEnrolment
<1>. QED
  BY <1>1, <1>2 DEF Arrived

LEMMA PopDamaged ==
    ASSUME NEW p, NEW was, PopArrived("k1", p, was), p # Odd
    PROVE  /\ PopArrived("k1", Odd, was)
           /\ \A at : at \in Int \/ at = Odd => PopArrived("k1", [p EXCEPT !.issued_at_ms = at], was)
           /\ \A nonce : PopArrived("k1", [p EXCEPT !.nonce = nonce], was)
           /\ PopArrived("k1", [p EXCEPT !.signature = Odd], was)
           /\ p.signature # Odd => PopArrived("k1", [p EXCEPT !.signature.len = 63], was)
<1>1. IsPop(p) /\ p.issued_at_ms \in Int \cup {Odd} /\ (p.signature # Odd => IsConsent("k1", p.signature, was))
  BY DEF PopArrived
<1>2. PopArrived("k1", Odd, was)
  BY DEF PopArrived
<1>3. ASSUME NEW at, at \in Int \/ at = Odd PROVE PopArrived("k1", [p EXCEPT !.issued_at_ms = at], was)
  BY SMT, SMTT(30), <1>1, <1>3 DEF PopArrived, IsPop
<1>4. ASSUME NEW nonce PROVE PopArrived("k1", [p EXCEPT !.nonce = nonce], was)
  BY <1>1 DEF PopArrived, IsPop
<1>5. ASSUME NEW z, z # Odd => IsConsent("k1", z, was) PROVE PopArrived("k1", [p EXCEPT !.signature = z], was)
  BY SMT, SMTT(30), <1>1, <1>5 DEF PopArrived, IsPop
<1>6. ASSUME p.signature # Odd PROVE PopArrived("k1", [p EXCEPT !.signature.len = 63], was)
  <2>1. PICK z : z = p.signature
    OBVIOUS
  <2>2. IsConsent("k1", [z EXCEPT !.len = 63], was)
    BY SMT, SMTT(30), <1>1, <1>6, <2>1 DEF IsConsent
  <2>3. [p EXCEPT !.signature.len = 63] = [p EXCEPT !.signature = [z EXCEPT !.len = 63]]
    BY <2>1
  <2>. QED
    BY <1>5, <2>2, <2>3
<1>. QED
  BY <1>2, <1>3, <1>4, <1>5, <1>6

HeadKept(x, was) == Attested("k1", was) /\ HeadArrived("k1", x, was)
Shaped(name, x, was) ==
    \/ name = "record" /\ RecordKept(x, was)
    \/ name = "head" /\ HeadKept(x, was)
    \/ name = "proof" /\ ProofKept(x, was)
    \/ name = "answer" /\ AnyAnswer(x)
    \/ name = "request"
    \/ name = "enrolment" /\ Given("k1", was) /\ Arrived("k1", x, was)

\* The inductive invariant: the probe is fresh, or its input is a damaged form
\* of an original that the producer of its kind can have made.
VerdictInv ==
    \/ Unprobed
    \/ \E name, x, was, n :
          probe = [of |-> name, x |-> x, was |-> was, damage |-> n] /\ Shaped(name, x, was)

LEMMA Current ==
    ASSUME VerdictInv, NEW name, Of(name), name # "nothing"
    PROVE  /\ Shaped(name, probe.x, probe.was)
           /\ \A y : Damaged(y) /\ Shaped(name, y, probe.was) => VerdictInv'
<1>1. ~Unprobed
  BY SMT, SMTT(30) DEF Of, Unprobed
<1>2. PICK x, was, n : probe = [of |-> name, x |-> x, was |-> was, damage |-> n] /\ Shaped(name, x, was)
  BY SMT, SMTT(30), <1>1 DEF VerdictInv, Of
<1>3. probe.x = x /\ probe.was = was
  BY <1>2
<1>4. ASSUME NEW y, Damaged(y), Shaped(name, y, was)
      PROVE  VerdictInv'
  <2>1. probe' = [of |-> name, x |-> y, was |-> was, damage |-> n + 1]
    BY Zenon, <1>2, <1>4 DEF Damaged
  <2>. QED
    BY Zenon, <1>4, <2>1 DEF VerdictInv
<1>. QED
  BY <1>2, <1>3, <1>4

LEMMA Picked ==
    ASSUME NEW name, NEW x, NEW was, Shaped(name, x, was), probe' = Probe(name, x, was)
    PROVE  VerdictInv'
BY Zenon DEF Probe, VerdictInv

LEMMA PickRecordKeeps == PickRecord => VerdictInv'
<1>. SUFFICES ASSUME PickRecord PROVE VerdictInv'
  OBVIOUS
<1>1. PICK p \in SealedPayloads :
         probe' = Probe("record", [kind |-> "DECISION_SEALED", digest |-> Digest(Canon(p)), payload |-> p],
                                  [kind |-> "DECISION_SEALED", digest |-> Digest(Canon(p)), payload |-> p])
  BY DEF PickRecord
<1>2. PICK e : e = [kind |-> "DECISION_SEALED", digest |-> Digest(Canon(p)), payload |-> p]
  BY Zenon
<1>3. RecordKept(e, e)
  BY <1>2, RecordPicked
<1>4. Shaped("record", e, e)
  BY <1>3 DEF Shaped
<1>. QED
  BY <1>1, <1>2, <1>4, Picked

LEMMA DamageRecordKeeps == VerdictInv /\ DamageRecord => VerdictInv'
<1>. SUFFICES ASSUME VerdictInv, DamageRecord PROVE VerdictInv'
  OBVIOUS
<1>1. PICK x, was : x = probe.x /\ was = probe.was
  OBVIOUS
<1>2. Of("record") /\ Shaped("record", x, was)
  BY <1>1, Current DEF DamageRecord
<1>3. RecordKept(x, was)
  BY <1>2 DEF Shaped
<1>4. IsEvent(x) /\ SlotsHeld(x.payload)
  BY <1>3 DEF RecordKept
<1>5. ASSUME NEW y, Damaged(y), RecordKept(y, was) PROVE VerdictInv'
  <2>1. Shaped("record", y, was)
    BY Zenon, <1>5 DEF Shaped
  <2>. QED
    BY <1>1, <1>2, <1>5, <2>1, Current
<1>6. ASSUME NEW f \in DOMAIN x.payload, NEW v \in WrongValues(f), NEW y, y = [x EXCEPT !.payload[f] = v]
      PROVE  RecordKept(y, was)
  <2>1. PICK q : q = [x.payload EXCEPT ![f] = v]
    BY Zenon
  <2>2. IsEvent(y) /\ y.payload = q /\ y.digest = x.digest
    BY <1>4, <1>6, <2>1 DEF IsEvent
  <2>3. SlotsHeld(q)
    BY <1>4, <2>1, WrongIsHeld
  <2>. QED
    BY <1>3, <2>2, <2>3 DEF RecordKept
<1>7. ASSUME NEW d \in {None, AnotherDigest(was)}, NEW y, y = [x EXCEPT !.digest = d]
      PROVE  RecordKept(y, was)
  <2>1. IsEvent(y) /\ y.payload = x.payload /\ y.digest = d
    BY ZenonT(40), <1>4, <1>7 DEF IsEvent
  <2>. QED
    BY Zenon, <1>3, <1>7, <2>1 DEF RecordKept
<1>8. ASSUME NEW y, y = [x EXCEPT !.kind = "AUDIT_ENTRY"]
      PROVE  RecordKept(y, was)
  <2>1. IsEvent(y) /\ y.payload = x.payload /\ y.digest = x.digest
    BY <1>4, <1>8 DEF IsEvent
  <2>. QED
    BY <1>3, <2>1 DEF RecordKept
<1>9. \/ \E f \in DOMAIN x.payload : \E v \in WrongValues(f) : Damaged([x EXCEPT !.payload[f] = v])
      \/ \E d \in {None, AnotherDigest(was)} : Damaged([x EXCEPT !.digest = d])
      \/ Damaged([x EXCEPT !.kind = "AUDIT_ENTRY"])
  BY Zenon, <1>1 DEF DamageRecord, AnotherDigest
<1>. QED
  BY Zenon, <1>5, <1>6, <1>7, <1>8, <1>9

LEMMA PickHeadKeeps == PickHead => VerdictInv'
<1>. SUFFICES ASSUME PickHead PROVE VerdictInv'
  OBVIOUS
<1>1. PICK tenant \in {None, "", "t1"} : probe' = Probe("head", ServedHead(tenant), ServedHead(tenant))
  BY Zenon DEF PickHead
<1>2. PICK was : was = ServedHead(tenant)
  BY Zenon
<1>3. was.signature # Odd
  BY Zenon, <1>2, InputsAssumption
<1>4. tenant # Odd /\ tenant # "lone"
  BY Marks, Zenon DEF MarkedTexts
<1>5. Attested("k1", was) /\ HeadArrived("k1", was, was)
  BY Zenon, <1>2, <1>3, <1>4, ServedHeadIsAttested
<1>6. Shaped("head", was, was)
  BY Zenon, <1>5 DEF Shaped, HeadKept
<1>. QED
  BY Zenon, <1>1, <1>2, <1>6, Picked

LEMMA DamageHeadKeeps == VerdictInv /\ DamageHead => VerdictInv'
<1>. SUFFICES ASSUME VerdictInv, DamageHead PROVE VerdictInv'
  OBVIOUS
<1>1. PICK x, was : x = probe.x /\ was = probe.was
  OBVIOUS
<1>2. Of("head") /\ Shaped("head", x, was)
  BY Zenon, <1>1, Current DEF DamageHead
<1>3. Attested("k1", was) /\ HeadArrived("k1", x, was)
  BY <1>2 DEF Shaped, HeadKept
<1>4. ASSUME NEW y, Damaged(y), HeadArrived("k1", y, was) PROVE VerdictInv'
  <2>1. Shaped("head", y, was)
    BY <1>3, <1>4 DEF Shaped, HeadKept
  <2>. QED
    BY Zenon, <1>1, <1>2, <1>4, <2>1, Current
<1>5. ASSUME NEW f \in IntSlots, NEW v, v \in Int \/ v = Odd, Damaged([x EXCEPT ![f] = v])
      PROVE  VerdictInv'
  BY <1>3, <1>4, <1>5, IntReplaced
<1>6. ASSUME NEW f \in OtherSlots, NEW v, f = "signature" => NotForged(v, was), Damaged([x EXCEPT ![f] = v])
      PROVE  VerdictInv'
  BY <1>3, <1>4, <1>6, OtherReplaced
<1>7. ASSUME Damaged(SignedBy("k2", x)) PROVE VerdictInv'
  BY <1>3, <1>4, <1>7, HeadResigned
<1>8. \A v \in {Odd, 0, -1, Max64 + 1} : v \in Int \/ v = Odd
  BY SMT, SMTT(30), Marks
<1>9. \A v \in {Odd, [key |-> None, signed |-> None]} : NotForged(v, was)
  BY TheKey DEF NotForged
<1>10. \/ \E f \in IntSlots, v \in {Odd, 0, -1, Max64 + 1} : Damaged([x EXCEPT ![f] = v])
       \/ \E v : Damaged([x EXCEPT !["attested_head"] = v])
       \/ \E v : Damaged([x EXCEPT !["tenant"] = v])
       \/ \E v : Damaged([x EXCEPT !["issuer_aid"] = v])
       \/ \E v \in {Odd, [key |-> None, signed |-> None]} : Damaged([x EXCEPT !["signature"] = v])
       \/ Damaged(SignedBy("k2", x))
  BY Zenon, <1>1 DEF DamageHead
<1>11. {"attested_head", "tenant", "issuer_aid", "signature"} \subseteq OtherSlots
  BY DEF OtherSlots
<1>. QED
  BY Zenon, <1>5, <1>6, <1>7, <1>8, <1>9, <1>10, <1>11

LEMMA PickProofKeeps == PickProof => VerdictInv'
<1>. SUFFICES ASSUME PickProof PROVE VerdictInv'
  OBVIOUS
<1>1. PICK c \in ServedCommitments, halves \in {3, 4} :
         probe' = Probe("proof", ServedProof(c, halves), ServedProof(c, halves))
  BY DEF PickProof
<1>2. PICK was : was = ServedProof(c, halves)
  OBVIOUS
<1>3. Shaped("proof", was, was)
  BY <1>2, ProofPicked DEF Shaped
<1>. QED
  BY <1>1, <1>2, <1>3, Picked

LEMMA DamageProofKeeps == VerdictInv /\ DamageProof => VerdictInv'
<1>. SUFFICES ASSUME VerdictInv, DamageProof PROVE VerdictInv'
  OBVIOUS
<1>1. PICK x, was : x = probe.x /\ was = probe.was
  OBVIOUS
<1>2. Of("proof") /\ Shaped("proof", x, was)
  BY Zenon, <1>1, Current DEF DamageProof
<1>3. ProofKept(x, was)
  BY <1>2 DEF Shaped
<1>4. ASSUME NEW y, Damaged(y), ProofKept(y, was) PROVE VerdictInv'
  <2>1. Shaped("proof", y, was)
    BY <1>4 DEF Shaped
  <2>. QED
    BY Zenon, <1>1, <1>2, <1>4, <2>1, Current
<1>5. PICK c, t : c = x.commitment /\ t = x.token
  OBVIOUS
<1>6. CommitmentHeld(c) /\ TokenHeld(t, was)
  BY <1>3, <1>5 DEF ProofKept
<1>7. ASSUME NEW d, CommitmentHeld(d), Damaged([x EXCEPT !.commitment = d]) PROVE VerdictInv'
  BY <1>3, <1>4, <1>7, ProofDamaged
<1>8. ASSUME NEW s, TokenHeld(s, was), Damaged([x EXCEPT !.token = s]) PROVE VerdictInv'
  BY <1>3, <1>4, <1>8, ProofDamaged
<1>9. ASSUME NEW i, Damaged([x EXCEPT !.issuer_aid = i]) PROVE VerdictInv'
  BY <1>3, <1>4, <1>9, ProofDamaged
<1>10. ASSUME NEW d \in {[c EXCEPT !.about = "b"],
                    [c EXCEPT !.supersedes = ""],
                    [c EXCEPT !.committer = "n"],
                    [c EXCEPT !.explanation_digest = None],
                    [c EXCEPT !.explanation_digest = Digest(<<Entry("vote", "0.1")>>)],
                    [c EXCEPT !.explanation = <<Entry("vote", "0.1")>>],
                    [c EXCEPT !.explanation = <<Entry("veto", "0.5")>>],
                    [c EXCEPT !.explanation = Reversed(@)],
                    [c EXCEPT !.explanation = <<>>]},
              Damaged([x EXCEPT !.commitment = d])
       PROVE  VerdictInv'
  <2>1. CommitmentHeld(d)
    BY Zenon, <1>6, <1>10, CommitmentDamaged
  <2>. QED
    BY Zenon, <1>7, <1>10, <2>1
<1>11. CASE Damaged([x EXCEPT !.token = Odd])
  BY <1>8, <1>11 DEF TokenHeld
<1>12. CASE t # Odd /\ \E exp : Damaged([x EXCEPT !.token.claims.exp = exp])
  <2>1. PICK exp : Damaged([x EXCEPT !.token.claims.exp = exp])
    BY Zenon, <1>12
  <2>2. [x EXCEPT !.token.claims.exp = exp] = [x EXCEPT !.token = [t EXCEPT !.claims.exp = exp]]
    BY <1>5
  <2>3. TokenHeld([t EXCEPT !.claims.exp = exp], was)
    BY Zenon, <1>6, <1>12, TokenDamaged
  <2>. QED
    BY <1>8, <2>1, <2>2, <2>3
<1>13. CASE t # Odd /\ Damaged([x EXCEPT !.token.parts = 2])
  <2>1. [x EXCEPT !.token.parts = 2] = [x EXCEPT !.token = [t EXCEPT !.parts = 2]]
    BY <1>5
  <2>. QED
    BY Zenon, <1>6, <1>8, <1>13, <2>1, TokenDamaged
<1>14. CASE t # Odd /\ Damaged([x EXCEPT !.token.header.alg = "none"])
  <2>1. [x EXCEPT !.token.header.alg = "none"] = [x EXCEPT !.token = [t EXCEPT !.header.alg = "none"]]
    BY <1>5
  <2>. QED
    BY Zenon, <1>6, <1>8, <1>14, <2>1, TokenDamaged
<1>15. CASE t # Odd /\ Damaged([x EXCEPT !.token.claims.duplicate = TRUE])
  <2>1. [x EXCEPT !.token.claims.duplicate = TRUE] = [x EXCEPT !.token = [t EXCEPT !.claims.duplicate = TRUE]]
    BY <1>5
  <2>. QED
    BY Zenon, <1>6, <1>8, <1>15, <2>1, TokenDamaged
<1>16. CASE t # Odd /\ Damaged([x EXCEPT !.token = TctFor("k2", c, 8)])
  BY Zenon, <1>6, <1>8, <1>16, TokenDamaged
<1>17. \/ \E d \in {[c EXCEPT !.about = "b"],
                    [c EXCEPT !.supersedes = ""],
                    [c EXCEPT !.committer = "n"],
                    [c EXCEPT !.explanation_digest = None],
                    [c EXCEPT !.explanation_digest = Digest(<<Entry("vote", "0.1")>>)],
                    [c EXCEPT !.explanation = <<Entry("vote", "0.1")>>],
                    [c EXCEPT !.explanation = <<Entry("veto", "0.5")>>],
                    [c EXCEPT !.explanation = Reversed(@)],
                    [c EXCEPT !.explanation = <<>>]} :
             Damaged([x EXCEPT !.commitment = d])
       \/ Damaged([x EXCEPT !.issuer_aid = "k2"])
       \/ Damaged([x EXCEPT !.token = Odd])
       \/ t # Odd /\ \E exp : Damaged([x EXCEPT !.token.claims.exp = exp])
       \/ t # Odd /\ Damaged([x EXCEPT !.token.parts = 2])
       \/ t # Odd /\ Damaged([x EXCEPT !.token.header.alg = "none"])
       \/ t # Odd /\ Damaged([x EXCEPT !.token.claims.duplicate = TRUE])
       \/ t # Odd /\ Damaged([x EXCEPT !.token = TctFor("k2", c, 8)])
  BY ZenonT(40), <1>1, <1>5 DEF DamageProof
<1>. QED
  BY <1>9, <1>10, <1>11, <1>12, <1>13, <1>14, <1>15, <1>16, <1>17, Zenon

LEMMA EnumsAreIntegers == \A v \in WireInts : v \in Int
BY Zenon, VerdictAssumption

LEMMA AnswerShape ==
    ASSUME NEW verdict \in Int, NEW availability \in Int, NEW reason \in Int, NEW input, input # None,
           NEW outcome \in Outcomes, NEW policy \in Policies, NEW x,
           x = [verdict |-> verdict, policy_enforcement |-> policy, transformed_input |-> input,
                collective_outcome |-> outcome,
                seal_attestation |-> [availability |-> availability, seal_reason |-> reason,
                                      collective_outcome |-> outcome]]
    PROVE  AnyAnswer(x)
<1>2. PICK seal : seal = [availability |-> availability, seal_reason |-> reason, collective_outcome |-> outcome]
  OBVIOUS
<1>3. x = [verdict |-> verdict, policy_enforcement |-> policy, transformed_input |-> input,
           collective_outcome |-> outcome, seal_attestation |-> seal]
  BY <1>2
<1>4. /\ x.verdict = verdict /\ x.policy_enforcement = policy /\ x.transformed_input = input
      /\ x.collective_outcome = outcome /\ x.seal_attestation = seal
  BY SMT, SMTT(30), <1>3
<1>5. /\ seal.availability = availability /\ seal.seal_reason = reason /\ seal.collective_outcome = outcome
      /\ seal \in [availability : Int, seal_reason : Int, collective_outcome : Outcomes]
  BY <1>2
<1>6. seal # None
  BY Zenon, <1>5, InputsAssumption
<1>7. outcome = None \/ outcome \in AnyOutcome
  <2>1. PICK R : R = [verdict : WireInts, effective_threshold : {1}]
    BY Zenon
  <2>2. outcome = None \/ outcome \in R
    BY <2>1, Zenon DEF Outcomes
  <2>3. R \subseteq AnyOutcome
    BY <2>1, EnumsAreIntegers DEF AnyOutcome
  <2>. QED
    BY <2>2, <2>3, Zenon
<1>. QED
  BY Zenon, <1>4, <1>5, <1>6, <1>7 DEF AnyAnswer

LEMMA PickAnswerKeeps == PickAnswer => VerdictInv'
<1>. SUFFICES ASSUME PickAnswer PROVE VerdictInv'
  OBVIOUS
<1>4. \A v \in {"", "i"} : v # None
  BY Marks, Zenon DEF MarkedTexts
<1>5. PICK verdict \in WireInts, availability \in WireInts, reason \in WireInts,
           input \in {"", "i"}, outcome \in Outcomes, policy \in Policies :
         LET x == [verdict |-> verdict, policy_enforcement |-> policy, transformed_input |-> input,
                   collective_outcome |-> outcome,
                   seal_attestation |-> [availability |-> availability, seal_reason |-> reason,
                                         collective_outcome |-> outcome]] IN
         probe' = Probe("answer", x, x)
  BY Zenon DEF PickAnswer
<1>6. PICK x : x = [verdict |-> verdict, policy_enforcement |-> policy, transformed_input |-> input,
                    collective_outcome |-> outcome,
                    seal_attestation |-> [availability |-> availability, seal_reason |-> reason,
                                          collective_outcome |-> outcome]]
  BY Zenon
<1>7. AnyAnswer(x)
  BY <1>4, <1>6, EnumsAreIntegers, AnswerShape, ZenonT(40)
<1>8. Shaped("answer", x, x)
  BY Zenon, <1>7 DEF Shaped
<1>9. probe' = Probe("answer", x, x)
  BY <1>5, <1>6, Zenon
<1>. QED
  BY Zenon, <1>8, <1>9, Picked

LEMMA PickRequestKeeps == PickRequest => VerdictInv'
<1>. SUFFICES ASSUME PickRequest PROVE VerdictInv'
  OBVIOUS
<1>1. PICK x : probe' = Probe("request", x, x)
  BY Zenon DEF PickRequest
<1>2. Shaped("request", x, x)
  BY DEF Shaped
<1>. QED
  BY <1>1, <1>2, Picked

LEMMA PickEnrolmentKeeps == PickEnrolment => VerdictInv'
<1>. SUFFICES ASSUME PickEnrolment PROVE VerdictInv'
  OBVIOUS
<1>1. \A at \in {0, Max64, Max64 + 1, -1, Odd} : at \in Int \/ at = Odd
  BY Marks
<1>2. PICK nonce \in {"n", "", "long", "bad char", Odd}, at \in {0, Max64, Max64 + 1, -1, Odd},
           kind \in EnrolmentKinds \cup {None, "", "admin"} :
         LET pop == EnrollPop("k1", "t", "s", at, nonce)
             x == [subject_aid |-> "k1", tenant |-> "t", namespace |-> "s", kind |-> kind,
                   pop |-> IF IsRefusal(pop) THEN None ELSE pop] IN
         probe' = Probe("enrolment", x, x)
  BY Zenon DEF PickEnrolment
<1>3. PICK pop : pop = EnrollPop("k1", "t", "s", at, nonce)
  BY Zenon
<1>4. PICK x : x = [subject_aid |-> "k1", tenant |-> "t", namespace |-> "s", kind |-> kind,
                    pop |-> IF IsRefusal(pop) THEN None ELSE pop]
  BY Zenon
<1>5. Given("k1", x) /\ Arrived("k1", x, x)
  <2>1. at \in Int \/ at = Odd
    BY <1>1, Zenon
  <2>2. PICK q : q = IF IsRefusal(pop) THEN None ELSE pop
    BY Zenon
  <2>3. x = [subject_aid |-> "k1", tenant |-> "t", namespace |-> "s", kind |-> kind, pop |-> q]
    BY <1>4, <2>2, Zenon
  <2>. QED
    BY <1>3, <2>1, <2>2, <2>3, EnrolmentPicked, Zenon
<1>6. Shaped("enrolment", x, x)
  BY Zenon, <1>5 DEF Shaped
<1>7. probe' = Probe("enrolment", x, x)
  BY <1>2, <1>3, <1>4, Zenon
<1>. QED
  BY Zenon, <1>6, <1>7, Picked

LEMMA DamageEnrolmentKeeps == VerdictInv /\ DamageEnrolment => VerdictInv'
<1>. SUFFICES ASSUME VerdictInv, DamageEnrolment PROVE VerdictInv'
  OBVIOUS
<1>1. PICK x, was : x = probe.x /\ was = probe.was
  OBVIOUS
<1>2. Of("enrolment") /\ Shaped("enrolment", x, was)
  BY Zenon, <1>1, Current DEF DamageEnrolment
<1>3. Given("k1", was) /\ Arrived("k1", x, was)
  BY <1>2 DEF Shaped
<1>4. ASSUME NEW y, Damaged(y), Arrived("k1", y, was) PROVE VerdictInv'
  <2>1. Shaped("enrolment", y, was)
    BY <1>3, <1>4 DEF Shaped
  <2>. QED
    BY Zenon, <1>1, <1>2, <1>4, <2>1, Current
<1>5. PICK p : p = x.pop
  OBVIOUS
<1>6. p # None /\ p # Odd
  BY Zenon, <1>1, <1>5 DEF DamageEnrolment
<1>7. PopArrived("k1", p, was)
  BY <1>3, <1>5, <1>6 DEF Arrived
<1>8. ASSUME NEW v, PopArrived("k1", v, was), Damaged([x EXCEPT !.pop = v]) PROVE VerdictInv'
  BY <1>3, <1>4, <1>5, <1>6, <1>8, EnrolmentDamaged
<1>9. ASSUME NEW f \in {"subject_aid", "tenant", "namespace"}, Damaged([x EXCEPT ![f] = "other"]) PROVE VerdictInv'
  BY <1>3, <1>4, <1>5, <1>6, <1>9, EnrolmentDamaged
<1>10. CASE Damaged([x EXCEPT !.pop = Odd])
  BY Zenon, <1>6, <1>7, <1>8, <1>10, PopDamaged
<1>11. ASSUME NEW at, at \in Int \/ at = Odd, Damaged([x EXCEPT !.pop.issued_at_ms = at]) PROVE VerdictInv'
  <2>1. [x EXCEPT !.pop.issued_at_ms = at] = [x EXCEPT !.pop = [p EXCEPT !.issued_at_ms = at]]
    BY <1>5
  <2>. QED
    BY ZenonT(40), <1>6, <1>7, <1>8, <1>11, <2>1, PopDamaged
<1>12. ASSUME NEW nonce, Damaged([x EXCEPT !.pop.nonce = nonce]) PROVE VerdictInv'
  <2>1. [x EXCEPT !.pop.nonce = nonce] = [x EXCEPT !.pop = [p EXCEPT !.nonce = nonce]]
    BY <1>5
  <2>. QED
    BY ZenonT(40), <1>6, <1>7, <1>8, <1>12, <2>1, PopDamaged
<1>13. CASE Damaged([x EXCEPT !.pop.signature = Odd])
  <2>1. [x EXCEPT !.pop.signature = Odd] = [x EXCEPT !.pop = [p EXCEPT !.signature = Odd]]
    BY <1>5
  <2>. QED
    BY Zenon, <1>6, <1>7, <1>8, <1>13, <2>1, PopDamaged
<1>14. CASE p.signature # Odd /\ Damaged([x EXCEPT !.pop.signature.len = 63])
  <2>1. [x EXCEPT !.pop.signature.len = 63] = [x EXCEPT !.pop = [p EXCEPT !.signature.len = 63]]
    BY <1>5
  <2>2. PICK w : w = [p EXCEPT !.signature.len = 63]
    BY Zenon
  <2>3. PopArrived("k1", w, was)
    BY Zenon, <1>6, <1>7, <1>14, <2>2, PopDamaged
  <2>. QED
    BY Zenon, <1>8, <1>14, <2>1, <2>2, <2>3
<1>15. \A at \in {1, -1, Odd, Max64 + 1} : at \in Int \/ at = Odd
  BY Marks
<1>16. \/ \E f \in {"subject_aid", "tenant", "namespace"} : Damaged([x EXCEPT ![f] = "other"])
       \/ Damaged([x EXCEPT !.pop = Odd])
       \/ \E at \in {1, -1, Odd, Max64 + 1} : Damaged([x EXCEPT !.pop.issued_at_ms = at])
       \/ \E nonce : Damaged([x EXCEPT !.pop.nonce = nonce])
       \/ Damaged([x EXCEPT !.pop.signature = Odd])
       \/ p.signature # Odd /\ Damaged([x EXCEPT !.pop.signature.len = 63])
  BY Zenon, <1>1, <1>5 DEF DamageEnrolment
<1>. QED
  BY <1>9, <1>10, <1>11, <1>12, <1>13, <1>14, <1>15, <1>16, ZenonT(40)

LEMMA VerdictInvHolds == VerdictSpec => []VerdictInv
<1>1. Unprobed => VerdictInv
  BY DEF VerdictInv
<1>2. VerdictInv /\ [VerdictNext]_probe => VerdictInv'
  <2>1. VerdictInv /\ UNCHANGED probe => VerdictInv'
    BY DEF VerdictInv, Unprobed
  <2>. QED
    BY ZenonT(40), <2>1, PickRecordKeeps, DamageRecordKeeps, PickHeadKeeps, DamageHeadKeeps, PickProofKeeps,
       DamageProofKeeps, PickAnswerKeeps, PickRequestKeeps, PickEnrolmentKeeps, DamageEnrolmentKeeps
       DEF VerdictNext
<1>. QED
  BY <1>1, <1>2, PTL DEF VerdictSpec

\* A streamed record verifies exactly when it is the one that was sealed, and a
\* field stripped from it is reported as a strip, after any number of changes
\* to it (verify_streamed_record_digest, record_digest_v4).
THEOREM StreamedRecordsAreJudged == VerdictSpec => []StreamedVerdict
<1>1. VerdictInv => StreamedVerdict
  <2>. SUFFICES ASSUME VerdictInv, Of("record") PROVE RecordJudged(probe.x, probe.was)
    BY DEF StreamedVerdict
  <2>1. RecordKept(probe.x, probe.was)
    BY SMT, SMTT(30), Current DEF Shaped
  <2>. QED
    BY <2>1, RecordArrives, EveryRecordIsJudged
<1>. QED
  BY <1>1, VerdictInvHolds, PTL

\* Against the pinned issuer only the attestation that issuer signed verifies;
\* any damage is a TypeError or FALSE, by what was damaged
\* (verify_chain_head_attestation and its message form).
THEOREM HeadsAreJudged == VerdictSpec => []HeadVerdict
<1>1. VerdictInv => HeadVerdict
  <2>. SUFFICES ASSUME VerdictInv, Of("head") PROVE HeadJudged("k1", probe.x, probe.was)
    BY DEF HeadVerdict
  <2>1. Attested("k1", probe.was) /\ HeadArrived("k1", probe.x, probe.was)
    BY SMT, SMTT(30), Current DEF Shaped, HeadKept
  <2>. QED
    BY <2>1, TheKey, EveryHeadIsJudged
<1>. QED
  BY <1>1, VerdictInvHolds, PTL

\* A decision verifies exactly when token, commitment and entries are those the
\* pinned issuer signed and the token has not expired; a token shown without
\* the entries vouches for their published digest only (verify_decision,
\* verify_tct, _commitment_explanation_digest).
THEOREM DecisionsAreJudged == VerdictSpec => []DecisionVerdict
<1>1. VerdictInv => DecisionVerdict
  <2>. SUFFICES ASSUME VerdictInv, Of("proof")
                PROVE  /\ \A now \in 0 .. 3 : DecisionJudged("k1", probe.x, probe.was, now)
                       /\ probe.x.token # Odd => PublishedDigestStands("k1", probe.x, probe.was)
    BY DEF DecisionVerdict
  <2>1. ProofKept(probe.x, probe.was)
    BY Current DEF Shaped
  <2>2. ProofArrived("k1", probe.x, probe.was) /\ \E halves : Issued("k1", probe.was, halves)
    BY <2>1, ProofArrives
  <2>3. PICK halves : Issued("k1", probe.was, halves)
    BY <2>2
  <2>4. ASSUME NEW now \in 0 .. 3 PROVE DecisionJudged("k1", probe.x, probe.was, now)
    <3>1. now \in Int
      BY SMT, SMTT(30)
    <3>. QED
      BY Zenon, <2>2, <2>3, <3>1, TheKey, EveryDecisionIsJudged
  <2>. QED
    BY <2>2, <2>3, <2>4, TheKey, EveryPublishedDigestStands
<1>. QED
  BY <1>1, VerdictInvHolds, PTL

\* An answer whose enums hold any integers (WireInts is any set of them) is read
\* as what it says or refused, never as something it does not say, and policy
\* statements that differ on the wire are read differently (result_of,
\* collective_outcome_of, seal_attestation_of, policy_enforcement_of).
THEOREM AnswersAreReadClosed == VerdictSpec => []AnswersFailClosed
<1>1. VerdictInv => AnswersFailClosed
  <2>. SUFFICES ASSUME VerdictInv, Of("answer") PROVE FailsClosed(probe.x)
    BY DEF AnswersFailClosed
  <2>1. AnyAnswer(probe.x)
    BY SMT, SMTT(30), Current DEF Shaped
  <2>. QED
    BY <2>1, EveryAnswerFailsClosed
<1>. QED
  BY <1>1, VerdictInvHolds, PTL

\* What the client signs verifies at the runtime from what is sent: every
\* authorize request that is built, which is every one whose input is neither
\* ambiguous nor impossible to canonicalize, and every enrolment that leaves, for the
\* subject, tenant and namespace the agent signed and no other
\* (build_authorize_request, enroll_pop, _enroll_pop_pb, enroll_tenant).
THEOREM RequestsCanBeVerified == VerdictSpec => []RequestsVerify
<1>1. AuthorizationVerifies
  BY EveryRequestVerifies DEF AuthorizationVerifies
<1>2. VerdictInv => EnrolmentCarriesConsent
  <2>. SUFFICES ASSUME VerdictInv, Of("enrolment") PROVE ConsentCarried(probe.x, probe.was)
    BY DEF EnrolmentCarriesConsent
  <2>1. Given("k1", probe.was) /\ Arrived("k1", probe.x, probe.was)
    BY Current DEF Shaped
  <2>. QED
    BY <2>1, TheKey, EveryEnrolmentCarriesConsent
<1>3. VerdictInv => RequestsVerify
  BY <1>1, <1>2 DEF RequestsVerify
<1>. QED
  BY <1>3, VerdictInvHolds, PTL
=============================================================================
