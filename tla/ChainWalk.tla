----------------------------- MODULE ChainWalk -----------------------------
(***************************************************************************)
(* The offline verifier's walk of an exported event stream (verify.rs):    *)
(* duplicates are collapsed, every event's kind is checked against its     *)
(* payload, each tenant's hash chain is followed with a running head of    *)
(* its own, and the result is held against an attestation that did not     *)
(* come with the stream.                                                   *)
(*                                                                         *)
(* A head is the sequence of the digests linked so far: SHA-256 is taken   *)
(* to be collision free, so link is Append and genesis is the empty        *)
(* sequence.  An event is a record of tenant, kind, payload (the kind that *)
(* owns it, or None; a chain anchor's has a value of its own), id, prev,   *)
(* digest and checksum; None is an absent field.                           *)
(***************************************************************************)
EXTENDS Values

Genesis == <<>>
Link(prev, digest) == Append(prev, digest)

\* Kinds with a payload of their own, of which the advisory ones are never
\* links; any other kind is one this build does not know.
ChainedKinds == {"DECISION_SEALED", "ERASURE_CERTIFICATE", "AUDIT_ENTRY"}
AdvisoryKinds == {"LEARNING_DECISION", "SESSION_LIFECYCLE"}
KnownKinds == ChainedKinds \cup AdvisoryKinds

\* The audit payload whose action is chain_anchor: an AUDIT_ENTRY by kind, yet
\* off the chain by design.
ChainAnchor == "chain_anchor"
Owner(payload) == IF payload = ChainAnchor THEN "AUDIT_ENTRY" ELSE payload
IsAdvisory(e) == e.kind \in AdvisoryKinds \/ e.payload = ChainAnchor

IsLink(e) == e.digest # None /\ e.checksum # None

\* dedup: an event that is identical in every byte to an earlier one is passed
\* over; two different links with one id are refused.
Repeated(events, n) == \E i \in 1 .. n - 1 : events[i] = events[n]
Impostors(events) ==
    \E i, j \in 1 .. Len(events) :
        /\ events[i] # events[j] /\ IsLink(events[i]) /\ IsLink(events[j])
        /\ events[i].id = events[j].id

\* check_kind_payload: rules 1, 2 and 3.
KindMatchesPayload(e) ==
    /\ e.payload = None \/ Owner(e.payload) = e.kind
    /\ e.kind \in KnownKinds => Owner(e.payload) = e.kind
    /\ IsAdvisory(e) => e.digest = None /\ e.checksum = None

\* The start of a tenant's chain: its anchor, or genesis.
Base(anchors, t) == IF t \in DOMAIN anchors THEN anchors[t] ELSE Genesis

\* The chain an event extends: its tenant's own, entered with its first link.
ChainOf(chains, anchors, t) ==
    IF t \in DOMAIN chains THEN chains[t]
    ELSE [base_len |-> Len(Base(anchors, t)), heads |-> <<Base(anchors, t)>>]
RunningHead(chain) == chain.heads[Len(chain.heads)]

\* Mutant: only the link itself is checked, not where it starts.
MutantLinkOnly(chain, e) == e.checksum = Link(e.prev, e.digest)

\* A link is refused when it does not start at the running head or its
\* checksum is not the one its digest makes.
Extends(chain, e) ==
    e.prev = RunningHead(chain) /\ e.checksum = Link(e.prev, e.digest)

\* One event of chain_by_tenant: the chains after it, or a refusal.
WalkEvent(chains, anchors, e) ==
    LET chain == ChainOf(chains, anchors, e.tenant) IN
    IF ~KindMatchesPayload(e) THEN Raise("kind")
    ELSE IF ~IsLink(e) THEN Answer(chains)
    ELSE IF ~Extends(chain, e) THEN Raise("broken chain")
    ELSE Answer([t \in DOMAIN chains \cup {e.tenant} |->
                    IF t = e.tenant
                    THEN [base_len |-> chain.base_len, heads |-> Append(chain.heads, e.checksum)]
                    ELSE chains[t]])

\* The loop: what the first n events come to.
WalkNext(sofar, events, anchors, n) ==
    IF IsRefusal(sofar) \/ Repeated(events, n) THEN sofar
    ELSE WalkEvent(sofar.answer, anchors, events[n])
NoChains == [t \in {} |-> Genesis]
Walk(events, anchors) ==
    LET walk[n \in 0 .. Len(events)] ==
            IF n = 0 THEN Answer(NoChains) ELSE WalkNext(walk[n - 1], events, anchors, n)
    IN  walk

\* dedup and chain_by_tenant: the chains by tenant, or a refusal.
ChainByTenant(events, anchors) ==
    IF Impostors(events) THEN Raise("impostor") ELSE Walk(events, anchors)[Len(events)]

\* Mutant: the head after the attested one is compared.
MutantNextHead(chain, len) == len - chain.base_len + 2

\* Where the head of an absolute length is in a window that starts at base_len
\* (heads.get(attested_len - base_len), counted from one).
HeadIndex(chain, len) == len - chain.base_len + 1

\* check_not_truncated against a validated attestation: TRUE when it holds.
CheckNotTruncated(chains, expect) ==
    LET seen == expect.tenant \in DOMAIN chains
        chain == chains[expect.tenant]
        covered == IF seen THEN chain.base_len + Len(chain.heads) - 1 ELSE 0 IN
    /\ expect.len <= covered
    /\ seen /\ expect.len >= chain.base_len /\ HeadIndex(chain, expect.len) \in DOMAIN chain.heads =>
          chain.heads[HeadIndex(chain, expect.len)] = expect.head
=============================================================================
