---------------------------- MODULE StreamChecks ----------------------------
(***************************************************************************)
(* An exported event stream on its way to the offline verifier.  The       *)
(* runtime (external) seals the decisions of two tenants into one outbox,  *)
(* each tenant on a chain of its own; a window of it is exported, with the *)
(* anchors of the tenants that had a chain before it; then the window is   *)
(* damaged.                                                                *)
(*                                                                         *)
(* `was` is the chain of each tenant as sealed; `by` names the damage      *)
(* taken.                                                                  *)
(***************************************************************************)
EXTENDS Probes, ChainWalk

CONSTANTS Partitions,   \* the tenants
          MaxEvents     \* events sealed

Stream == probe.x

\* The head of a tenant's chain after the first n events.
HeadAfter(events, n, t) ==
    LET mine == {i \in 1 .. n : events[i].tenant = t /\ IsLink(events[i])} IN
    IF mine = {} THEN Genesis ELSE events[Max(mine)].checksum

OpenOutbox ==
    /\ Fresh
    /\ probe' = Probe("stream", [events |-> <<>>, anchors |-> NoChains, exported |-> FALSE, by |-> {}],
                      [t \in Partitions |-> Genesis])

SealDecision(t) ==
    /\ Of("stream") /\ ~Stream.exported /\ Len(Stream.events) < MaxEvents
    /\ LET n == Len(Stream.events) + 1
           head == probe.was[t]
           e == [tenant |-> t, kind |-> "DECISION_SEALED", payload |-> "DECISION_SEALED", id |-> n,
                 prev |-> head, digest |-> n, checksum |-> Link(head, n)] IN
       probe' = [probe EXCEPT !.x.events = Append(@, e), !.was[t] = Link(head, n)]

\* Rows that are in no chain: an advisory kind, and the periodic chain anchor.
AdvisoryRows ==
    {[kind |-> "LEARNING_DECISION", payload |-> "LEARNING_DECISION"],
     [kind |-> "AUDIT_ENTRY", payload |-> ChainAnchor]}

Advise(t) ==
    /\ Of("stream") /\ ~Stream.exported /\ Len(Stream.events) < MaxEvents
    /\ \E row \in AdvisoryRows :
          probe' = [probe EXCEPT !.x.events =
                       Append(@, [tenant |-> t, kind |-> row.kind, payload |-> row.payload, id |-> 0,
                                  prev |-> Genesis, digest |-> None, checksum |-> None])]

\* A window from event w on, anchored for the tenants with a chain before it.
Export(w) ==
    /\ Of("stream") /\ ~Stream.exported /\ w <= Len(Stream.events)
    /\ LET anchored == {t \in Partitions : HeadAfter(Stream.events, w, t) # Genesis} IN
       probe' = [probe EXCEPT !.x.events = SubSeq(@, w + 1, Len(@)), !.x.exported = TRUE,
                              !.x.anchors = [t \in anchored |-> HeadAfter(Stream.events, w, t)]]

\* The event at i gets another digest, and every later link of its tenant is
\* made to follow: a window that is consistent in itself.
Later(events, i) == {k \in i + 1 .. Len(events) : events[k].tenant = events[i].tenant /\ IsLink(events[k])}
Resealed(events, i) ==
    LET head[k \in i .. Len(events)] ==
            IF k = i THEN Link(events[i].prev, 0)
            ELSE IF k \in Later(events, i) THEN Link(head[k - 1], events[k].digest)
            ELSE head[k - 1]
    IN  head
Spliced(events, i) ==
    LET head == Resealed(events, i) IN
    [k \in 1 .. Len(events) |->
        IF k = i THEN [events[k] EXCEPT !.digest = 0, !.checksum = head[k]]
        ELSE IF k \in Later(events, i) THEN [events[k] EXCEPT !.prev = head[k - 1], !.checksum = head[k]]
        ELSE events[k]]

Without(events, i) == SubSeq(events, 1, i - 1) \o SubSeq(events, i + 1, Len(events))
Spoil(kind, events) == Damaged([Stream EXCEPT !.events = events, !.by = @ \cup {kind}])

DamageStream ==
    /\ Of("stream") /\ Stream.exported
    /\ \E i \in 1 .. Len(Stream.events) :
          LET es == Stream.events
              e == es[i] IN
          \/ Spoil("drop", Without(es, i))
          \/ Spoil("repeat", Append(es, e))
          \/ i < Len(es) /\ Spoil("swap", [es EXCEPT ![i] = es[i + 1], ![i + 1] = e])
          \/ \E t \in Partitions \ {e.tenant} : Spoil("relabel", [es EXCEPT ![i].tenant = t])
          \/ \E kind \in {"LEARNING_DECISION", "A LATER KIND"} : Spoil("kind", [es EXCEPT ![i].kind = kind])
          \/ /\ IsLink(e)
             /\ \/ Spoil("strip", [es EXCEPT ![i].digest = None, ![i].checksum = None])
                \/ Spoil("rewrite", [es EXCEPT ![i].digest = 0])
                \/ Spoil("splice", Spliced(es, i))

Begins(s, t) == Len(s) <= Len(t) /\ \A i \in 1 .. Len(s) : s[i] = t[i]

Walked == ChainByTenant(Stream.events, Stream.anchors)
Accepted == ~IsRefusal(Walked)
Exported == Of("stream") /\ Stream.exported
-----------------------------------------------------------------------------

\* A window as it was sealed is accepted, however the tenants' events are
\* interleaved in it, wherever it starts and whichever events are delivered
\* again, and every chain is followed to its end (chain_by_tenant, dedup).
HonestStreamAccepted ==
    Exported /\ Stream.by \subseteq {"repeat"} =>
        /\ Accepted
        /\ \A t \in DOMAIN Walked.answer : RunningHead(Walked.answer[t]) = probe.was[t]

\* What is accepted follows the chain that was sealed: short of a splice, the
\* events of a tenant are a piece of one sealed chain from its start, with
\* nothing missing, moved or rewritten in between; only a whole chain under
\* another tenant's name gets by (chain_by_tenant).
WalkFollowsChain ==
    Exported /\ "splice" \notin Stream.by /\ Accepted =>
        \A t \in DOMAIN Walked.answer :
            \E u \in Partitions :
                /\ Begins(RunningHead(Walked.answer[t]), probe.was[u])
                /\ u = t \/ ("relabel" \in Stream.by /\ t \notin DOMAIN Stream.anchors)

\* The chain walk accepts what was sealed and nothing else: both of the above
\* (dedup, check_kind_payload, chain_by_tenant).
WalkIsExact == HonestStreamAccepted /\ WalkFollowsChain

\* Held against an attestation of the sealed chain, an accepted window reaches
\* the attested length and had the attested head there, splices included,
\* unless the attestation is older than the window; and a window as sealed
\* that shows the tenant passes (check_not_truncated).
AttestedPrefixHeld ==
    Exported /\ Accepted =>
        \A t \in Partitions : \A n \in 1 .. Len(probe.was[t]) :
            LET chains == Walked.answer
                attested == SubSeq(probe.was[t], 1, n)
                held == CheckNotTruncated(chains, [tenant |-> t, len |-> n, head |-> attested])
            IN  /\ held => /\ t \in DOMAIN chains
                           /\ n < chains[t].base_len \/ Begins(attested, RunningHead(chains[t]))
                /\ Stream.by \subseteq {"repeat"} /\ t \in DOMAIN chains => held
-----------------------------------------------------------------------------
WindowNext ==
    \/ OpenOutbox \/ (\E t \in Partitions : SealDecision(t) \/ Advise(t))
    \/ (\E w \in 0 .. MaxEvents : Export(w)) \/ DamageStream

WindowSpec == Unprobed /\ [][WindowNext]_probe

\* An absent field is neither a number nor a head.
ASSUME WindowAssumption == MaxEvents \in Nat /\ None \notin Nat /\ None \notin Seq(Nat)
=============================================================================
