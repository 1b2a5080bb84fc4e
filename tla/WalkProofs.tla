----------------------------- MODULE WalkProofs -----------------------------
(***************************************************************************)
(* The chain walk of the offline verifier, for any tenants, any number of  *)
(* sealed events, any window of them and any damage done to the window.    *)
(*                                                                         *)
(* The walk is a loop over the events (WalkRuns).  Whatever the events     *)
(* are, an accepted chain of a tenant grows by one digest at a time from   *)
(* its start to the checksum of one of the tenant's links (WalkGrows).     *)
(* Over a window as it was sealed the loop is never refused and stands,    *)
(* after every event, at the head that was sealed there (HonestWalk).      *)
(*                                                                         *)
(* The inductive invariant (WindowInv) says of every link that arrives     *)
(* where it was rooted when it was sealed, as far as the damage done so    *)
(* far leaves it there.  The two together place every accepted chain in a  *)
(* sealed one.                                                             *)
(***************************************************************************)
EXTENDS StreamChecks, WellFoundedInduction, TLAPS

-----------------------------------------------------------------------------
(* The chain walk as a loop. *)

\* A set of naturals that is not empty has a least element.
LEMMA LeastOf ==
    ASSUME NEW S \in SUBSET Nat, S # {}
    PROVE  \E x \in S : \A y \in S : x =< y
<1>1. PICK x \in S : \A y \in S : ~(<<y, x>> \in OpToRel(<, Nat))
  BY Zenon, NatLessThanWellFounded, WFMin DEF OpToRel
<1>2. \A y \in S : ~(y < x)
  BY Zenon, <1>1 DEF OpToRel
<1>. QED
  BY <1>2

\* What a concatenation is, index by index.
LEMMA Joined ==
    ASSUME NEW S, NEW s \in Seq(S), NEW t \in Seq(S)
    PROVE  /\ s \o t \in Seq(S) /\ Len(s \o t) = Len(s) + Len(t)
           /\ \A i \in 1 .. Len(s) + Len(t) : (s \o t)[i] = IF i <= Len(s) THEN s[i] ELSE t[i - Len(s)]
<1>1. s \o t \in Seq(S) /\ Len(s \o t) = Len(s) + Len(t)
  OBVIOUS
<1>2. \A i \in 1 .. Len(s) + Len(t) : (s \o t)[i] = IF i <= Len(s) THEN s[i] ELSE t[i - Len(s)]
  OBVIOUS
<1>. QED BY <1>1, <1>2

\* What fails somewhere fails for a first time.
LEMMA FirstFailure ==
    ASSUME NEW N \in Nat, NEW Good \in SUBSET (0 .. N), 0 \in Good,
           \A n \in 1 .. N : n - 1 \in Good => n \in Good
    PROVE  \A n \in 0 .. N : n \in Good
<1>. SUFFICES ASSUME NEW n \in 0 .. N, n \notin Good PROVE FALSE
  OBVIOUS
<1>1. (0 .. N) \ Good \in SUBSET Nat /\ (0 .. N) \ Good # {}
  OBVIOUS
<1>2. PICK x \in (0 .. N) \ Good : \A y \in (0 .. N) \ Good : x =< y
  BY Zenon, <1>1, LeastOf
<1>3. x \in 1 .. N /\ x - 1 \in 0 .. N /\ ~(x =< x - 1)
  BY <1>2
<1>. QED
  BY <1>2, <1>3

\* The loop's state before event n, taken from the state before event n - 1.
RunOf(f, events, anchors, n) ==
    /\ DOMAIN f = 0 .. n /\ f[0] = Answer(NoChains)
    /\ \A k \in 1 .. n : f[k] = WalkNext(f[k - 1], events, anchors, k)

\* The loop has a run over every number of events.
LEMMA RunsExist ==
    ASSUME NEW events, NEW anchors, NEW N \in Nat
    PROVE  \E f : RunOf(f, events, anchors, N)
<1>. DEFINE Good == {n \in 0 .. N : \E f : RunOf(f, events, anchors, n)}
<1>1. 0 \in Good
  <2>1. RunOf([k \in 0 .. 0 |-> Answer(NoChains)], events, anchors, 0)
    BY DEF RunOf
  <2>. QED
    BY <2>1
<1>2. ASSUME NEW n \in 1 .. N, n - 1 \in Good PROVE n \in Good
  <2>1. PICK f : RunOf(f, events, anchors, n - 1)
    BY <1>2
  <2>2. PICK g : g = [k \in 0 .. n |-> IF k = n THEN WalkNext(f[n - 1], events, anchors, n) ELSE f[k]]
    BY Zenon
  <2>3. /\ DOMAIN g = 0 .. n /\ g[n] = WalkNext(f[n - 1], events, anchors, n)
        /\ \A k \in 0 .. n - 1 : g[k] = f[k]
    BY <2>2
  <2>4. RunOf(g, events, anchors, n)
    BY <2>1, <2>3 DEF RunOf
  <2>. QED
    BY <2>4
<1>. QED
  <2>1. \A n \in 0 .. N : n \in Good
    <3>. HIDE DEF Good
    <3>1. Good \in SUBSET (0 .. N)
      BY DEF Good
    <3>. QED
      BY <1>1, <1>2, <3>1, FirstFailure
  <2>. QED
    BY <2>1

\* The walk is its loop.
LEMMA WalkRuns ==
    ASSUME NEW events, NEW anchors, Len(events) \in Nat
    PROVE  RunOf(Walk(events, anchors), events, anchors, Len(events))
<1>. DEFINE Looped(f) == f = [n \in 0 .. Len(events) |->
                IF n = 0 THEN Answer(NoChains) ELSE WalkNext(f[n - 1], events, anchors, n)]
<1>1. PICK f : RunOf(f, events, anchors, Len(events))
  BY Zenon, RunsExist
<1>2. PICK g : g = [n \in 0 .. Len(events) |-> f[n]]
  BY Zenon
<1>3. DOMAIN g = 0 .. Len(events) /\ \A n \in 0 .. Len(events) : g[n] = f[n]
  BY <1>2
<1>4. \A n \in 0 .. Len(events) :
         g[n] = IF n = 0 THEN Answer(NoChains) ELSE WalkNext(g[n - 1], events, anchors, n)
  BY <1>1, <1>3 DEF RunOf
<1>5. Looped(g)
  BY <1>2, <1>4
<1>6. Walk(events, anchors) = CHOOSE h : Looped(h)
  BY Zenon DEF Walk
<1>7. Looped(Walk(events, anchors))
  BY <1>5, <1>6, Zenon
<1>. QED
  <2>1. PICK w : w = Walk(events, anchors)
    OBVIOUS
  <2>2. w = [n \in 0 .. Len(events) |->
                IF n = 0 THEN Answer(NoChains) ELSE WalkNext(w[n - 1], events, anchors, n)]
    BY <1>7, <2>1
  <2>3. DOMAIN w = 0 .. Len(events) /\ w[0] = Answer(NoChains)
    BY <2>2
  <2>4. \A k \in 1 .. Len(events) : w[k] = WalkNext(w[k - 1], events, anchors, k)
    BY <2>2
  <2>. QED
    BY <2>1, <2>3, <2>4 DEF RunOf

-----------------------------------------------------------------------------
(* What the walk keeps, whatever was done to the events: the heads of a chain
   grow by one digest at a time from its start.                             *)

Digests == Seq(Nat)

\* A chain of heads from base.
Grown(chain, base) ==
    /\ chain.base_len = Len(base) /\ chain.heads \in Seq(Digests) /\ Len(chain.heads) >= 1
    /\ chain.heads[1] = base
    /\ \A k \in 1 .. Len(chain.heads) :
          /\ Len(chain.heads[k]) = Len(base) + k - 1
          /\ Begins(chain.heads[k], chain.heads[Len(chain.heads)])

LEMMA BeginsLink ==
    ASSUME NEW s \in Digests, NEW t \in Digests, NEW d \in Nat, Begins(s, t)
    PROVE  /\ Link(t, d) \in Digests /\ Len(Link(t, d)) = Len(t) + 1
           /\ Begins(s, Link(t, d)) /\ Begins(Link(t, d), Link(t, d))
<1>1. Link(t, d) \in Digests /\ Len(Link(t, d)) = Len(t) + 1 /\ \A i \in 1 .. Len(t) : Link(t, d)[i] = t[i]
  BY DEF Link, Digests
<1>2. Len(s) \in Nat /\ Len(t) \in Nat
  BY DEF Digests
<1>. QED
  BY <1>1, <1>2 DEF Begins

\* A chain that has just been started is grown.
LEMMA GrownStart ==
    ASSUME NEW base \in Digests, NEW chain, chain = [base_len |-> Len(base), heads |-> <<base>>]
    PROVE  Grown(chain, base)
<1>1. chain.base_len = Len(base) /\ chain.heads = <<base>>
  OBVIOUS
<1>2. chain.heads \in Seq(Digests) /\ Len(chain.heads) = 1 /\ chain.heads[1] = base
  BY <1>1
<1>3. Len(base) \in Nat /\ Begins(base, base)
  BY DEF Begins, Digests
<1>. QED
  BY <1>1, <1>2, <1>3 DEF Grown

\* One more link keeps a chain grown.
LEMMA GrownLink ==
    ASSUME NEW base \in Digests, NEW chain, Grown(chain, base), NEW d \in Nat, NEW c,
           c = [base_len |-> chain.base_len, heads |-> Append(chain.heads, Link(RunningHead(chain), d))]
    PROVE  Grown(c, base) /\ RunningHead(c) = Link(RunningHead(chain), d)
<1>1. PICK hs, h, L : hs = chain.heads /\ h = RunningHead(chain) /\ L = Len(chain.heads)
  BY Zenon
<1>2. hs \in Seq(Digests) /\ L \in Nat /\ L >= 1 /\ L = Len(hs) /\ h = hs[L] /\ h \in Digests
  BY <1>1 DEF Grown, RunningHead
<1>3. \A k \in 1 .. L : Len(hs[k]) = Len(base) + k - 1 /\ Begins(hs[k], h) /\ hs[k] \in Digests
  BY <1>1, <1>2 DEF Grown
<1>4. Link(h, d) \in Digests /\ Len(Link(h, d)) = Len(h) + 1 /\ Begins(Link(h, d), Link(h, d))
  <2>1. Begins(h, h)
    BY <1>2, <1>3
  <2>. QED
    BY Zenon, <1>2, <2>1, BeginsLink
<1>5. PICK new : new = Append(hs, Link(h, d))
  BY Zenon
<1>6. /\ new \in Seq(Digests) /\ Len(new) = L + 1 /\ new[L + 1] = Link(h, d)
      /\ \A k \in 1 .. L : new[k] = hs[k]
  BY <1>2, <1>4, <1>5
<1>7. c.base_len = Len(base) /\ c.heads = new /\ hs[1] = base
  BY <1>1, <1>5 DEF Grown
<1>8. \A k \in 1 .. L : Begins(hs[k], Link(h, d))
  BY Zenon, <1>2, <1>3, BeginsLink
<1>9. Len(h) = Len(base) + L - 1 /\ Len(base) \in Nat
  BY <1>2, <1>3 DEF Digests
<1>10. ASSUME NEW k \in 1 .. L + 1 PROVE Len(new[k]) = Len(base) + k - 1 /\ Begins(new[k], new[L + 1])
  <2>1. CASE k = L + 1
    BY <1>4, <1>6, <1>9, <2>1, <1>2
  <2>2. CASE k \in 1 .. L
    BY Zenon, <1>3, <1>6, <1>8, <2>2
  <2>. QED
    BY <1>2, <2>1, <2>2
<1>11. RunningHead(c) = Link(h, d)
  BY <1>6, <1>7 DEF RunningHead
<1>12. new[1] = base /\ Len(new) >= 1
  BY <1>2, <1>6, <1>7
<1>. QED
  BY Zenon, <1>1, <1>6, <1>7, <1>10, <1>11, <1>12 DEF Grown

\* Every chain of the walk is grown from its start, and ends in the checksum of
\* one of the tenant's links.
ChainsGrown(chains, events, anchors, n) ==
    \A t \in DOMAIN chains :
        /\ Grown(chains[t], Base(anchors, t))
        /\ \E i \in 1 .. n : /\ events[i].tenant = t /\ IsLink(events[i])
                             /\ RunningHead(chains[t]) = events[i].checksum

\* An answer is not a refusal, and gives back what was answered.
LEMMA Refusals ==
    /\ \A e : IsRefusal(Raise(e))
    /\ \A c : ~IsRefusal(Answer(c)) /\ Answer(c).answer = c
<1>1. \A e : IsRefusal(Raise(e))
  BY DEF IsRefusal, Raise
<1>2. \A c : ~IsRefusal(Answer(c)) /\ Answer(c).answer = c
  BY DEF IsRefusal, Answer
<1>. QED
  BY <1>1, <1>2

\* The tenant's chain after one more of its links; the others' are as before.
Linked(new, chains, anchors, e) ==
    /\ DOMAIN new = DOMAIN chains \cup {e.tenant}
    /\ \A t \in DOMAIN chains : t # e.tenant => new[t] = chains[t]
    /\ LET chain == ChainOf(chains, anchors, e.tenant) IN
       new[e.tenant] = [base_len |-> chain.base_len, heads |-> Append(chain.heads, e.checksum)]

\* What the walk makes of one event that is not a repetition.
LEMMA WalkEventIs ==
    ASSUME NEW chains, NEW anchors, NEW e, NEW r, r = WalkEvent(chains, anchors, e)
    PROVE  \/ IsRefusal(r) /\ ~KindMatchesPayload(e)
           \/ r = Answer(chains) /\ ~IsLink(e) /\ KindMatchesPayload(e)
           \/ IsRefusal(r) /\ IsLink(e) /\ ~Extends(ChainOf(chains, anchors, e.tenant), e)
           \/ /\ IsLink(e) /\ KindMatchesPayload(e) /\ Extends(ChainOf(chains, anchors, e.tenant), e)
              /\ \E new : r = Answer(new) /\ Linked(new, chains, anchors, e)
<1>1. PICK chain : chain = ChainOf(chains, anchors, e.tenant)
  OBVIOUS
<1>2. PICK c : c = [base_len |-> chain.base_len, heads |-> Append(chain.heads, e.checksum)]
  BY Zenon
<1>3. PICK new : new = [t \in DOMAIN chains \cup {e.tenant} |-> IF t = e.tenant THEN c ELSE chains[t]]
  BY Zenon
<1>4. Linked(new, chains, anchors, e)
  BY <1>1, <1>2, <1>3 DEF Linked
<1>5. r = IF ~KindMatchesPayload(e) THEN Raise("kind")
          ELSE IF ~IsLink(e) THEN Answer(chains)
          ELSE IF ~Extends(chain, e) THEN Raise("broken chain")
          ELSE Answer(new)
  BY <1>1, <1>2, <1>3, Zenon DEF WalkEvent
<1>. QED
  BY <1>1, <1>4, <1>5, Refusals, Zenon

\* One event keeps every chain grown, or is refused.
LEMMA WalkEventGrows ==
    ASSUME NEW events, NEW anchors, NEW n \in Nat \ {0},
           NEW chains, ChainsGrown(chains, events, anchors, n - 1),
           IsLink(events[n]) => events[n].digest \in Nat,
           Base(anchors, events[n].tenant) \in Digests,
           NEW new, IsLink(events[n]), Extends(ChainOf(chains, anchors, events[n].tenant), events[n]),
           Linked(new, chains, anchors, events[n])
    PROVE  ChainsGrown(new, events, anchors, n)
<1>1. PICK e, t, base, chain :
        e = events[n] /\ t = e.tenant /\ base = Base(anchors, t) /\ chain = ChainOf(chains, anchors, t)
  OBVIOUS
<1>2. Grown(chain, base)
  <2>1. CASE t \in DOMAIN chains
    BY <1>1, <2>1 DEF ChainsGrown, ChainOf
  <2>2. CASE t \notin DOMAIN chains
    <3>1. chain = [base_len |-> Len(base), heads |-> <<base>>] /\ base \in Digests
      BY <1>1, <2>2 DEF ChainOf
    <3>. QED
      BY <3>1, GrownStart
  <2>. QED
    BY <2>1, <2>2
<1>3. e.prev = RunningHead(chain) /\ e.checksum = Link(RunningHead(chain), e.digest) /\ e.digest \in Nat
  BY <1>1 DEF Extends
<1>4. new[t] = [base_len |-> chain.base_len, heads |-> Append(chain.heads, Link(RunningHead(chain), e.digest))]
  BY <1>1, <1>3 DEF Linked
<1>5. Grown(new[t], base) /\ RunningHead(new[t]) = e.checksum
  BY SMT, SMTT(30), <1>1, <1>2, <1>3, <1>4, GrownLink
<1>6. ASSUME NEW u \in DOMAIN new, u # t
      PROVE  /\ Grown(new[u], Base(anchors, u))
             /\ \E i \in 1 .. n : /\ events[i].tenant = u /\ IsLink(events[i])
                                  /\ RunningHead(new[u]) = events[i].checksum
  <2>1. u \in DOMAIN chains /\ new[u] = chains[u]
    BY <1>1, <1>6 DEF Linked
  <2>2. \A i \in 1 .. n - 1 : i \in 1 .. n
    OBVIOUS
  <2>. QED
    BY <2>1, <2>2 DEF ChainsGrown
<1>7. n \in 1 .. n
  OBVIOUS
<1>. QED
  BY <1>1, <1>5, <1>6, <1>7 DEF ChainsGrown

\* The events of a stream, in whatever order and however damaged.
Wired(events, anchors) ==
    /\ Len(events) \in Nat
    /\ \A i \in 1 .. Len(events) :
          /\ Base(anchors, events[i].tenant) \in Digests
          /\ IsLink(events[i]) => events[i].digest \in Nat

\* Every prefix of the events leaves every chain grown, or is refused.
LEMMA WalkGrows ==
    ASSUME NEW events, NEW anchors, Wired(events, anchors)
    PROVE  \A n \in 0 .. Len(events) :
              LET r == Walk(events, anchors)[n] IN
              ~IsRefusal(r) => r = Answer(r.answer) /\ ChainsGrown(r.answer, events, anchors, n)
<1>. DEFINE N == Len(events)
            w == Walk(events, anchors)
            Kept(n) == ~IsRefusal(w[n]) => w[n] = Answer(w[n].answer) /\ ChainsGrown(w[n].answer, events, anchors, n)
            Good == {n \in 0 .. N : Kept(n)}
<1>1. RunOf(w, events, anchors, N) /\ N \in Nat
  BY WalkRuns DEF Wired
<1>. HIDE DEF w, N
<1>2. 0 \in Good
  <2>1. w[0] = Answer(NoChains) /\ DOMAIN NoChains = {}
    BY <1>1 DEF RunOf, NoChains
  <2>2. ChainsGrown(NoChains, events, anchors, 0)
    BY <2>1 DEF ChainsGrown
  <2>. QED
    BY <1>1, <2>1, <2>2, Refusals
<1>3. ASSUME NEW n \in 1 .. N, n - 1 \in Good PROVE n \in Good
  <2>1. w[n] = WalkNext(w[n - 1], events, anchors, n)
    BY <1>1 DEF RunOf
  <2>2. CASE IsRefusal(w[n - 1])
    BY <2>1, <2>2 DEF WalkNext
  <2>3. CASE ~IsRefusal(w[n - 1])
    <3>1. PICK chains : w[n - 1] = Answer(chains) /\ ChainsGrown(chains, events, anchors, n - 1)
      BY <1>3, <2>3
    <3>2. ChainsGrown(chains, events, anchors, n)
      <4>1. \A i \in 1 .. n - 1 : i \in 1 .. n
        OBVIOUS
      <4>. QED
        BY <3>1, <4>1 DEF ChainsGrown
    <3>3. CASE Repeated(events, n)
      <4>1. w[n] = Answer(chains)
        BY <2>1, <3>1, <3>3 DEF WalkNext
      <4>. QED
        BY <3>2, <4>1, Refusals
    <3>4. CASE ~Repeated(events, n)
      <4>1. w[n] = WalkEvent(chains, anchors, events[n])
        BY <2>1, <2>3, <3>1, <3>4, Refusals DEF WalkNext
      <4>2. ASSUME NEW new, Linked(new, chains, anchors, events[n]), IsLink(events[n]),
                   Extends(ChainOf(chains, anchors, events[n].tenant), events[n])
            PROVE  ChainsGrown(new, events, anchors, n)
        <5>1. n \in Nat \ {0} /\ Base(anchors, events[n].tenant) \in Digests /\ events[n].digest \in Nat
          BY <1>1, <4>2 DEF Wired, N
        <5>. QED
          BY Zenon, <3>1, <4>2, <5>1, WalkEventGrows
      <4>3. \/ IsRefusal(w[n])
            \/ w[n] = Answer(chains)
            \/ \E new : w[n] = Answer(new) /\ ChainsGrown(new, events, anchors, n)
        BY <4>1, <4>2, WalkEventIs
      <4>. QED
        BY <3>2, <4>3, Refusals
    <3>. QED
      BY <3>3, <3>4
  <2>. QED
    BY <2>2, <2>3
<1>. QED
  <2>1. \A n \in 0 .. N : n \in Good
    <3>. HIDE DEF Good
    <3>1. Good \in SUBSET (0 .. N)
      BY DEF Good
    <3>. QED
      BY <1>1, <1>2, <1>3, <3>1, FirstFailure
  <2>. QED
    BY <2>1 DEF w, N

-----------------------------------------------------------------------------
(* A window as it was sealed. *)

\* The head of a tenant's chain after n events of a window.
Tip(events, anchors, n, t) ==
    LET mine == {i \in 1 .. n : events[i].tenant = t /\ IsLink(events[i])} IN
    IF mine = {} THEN Base(anchors, t) ELSE events[Max(mine)].checksum

LEMMA GreatestIs ==
    ASSUME NEW S, NEW n \in S, n \in Int, \A i \in S : i <= n /\ i \in Int
    PROVE  Max(S) = n
<1>1. \E x \in S : \A y \in S : x >= y
  OBVIOUS
<1>2. Max(S) \in S /\ \A y \in S : Max(S) >= y
  BY <1>1, Zenon DEF Max
<1>3. PICK m : m = Max(S)
  OBVIOUS
<1>4. m \in S /\ m >= n
  BY <1>2, <1>3
<1>. QED
  BY <1>3, <1>4

LEMMA TipStart ==
    ASSUME NEW events, NEW anchors, NEW t
    PROVE  Tip(events, anchors, 0, t) = Base(anchors, t)
<1>1. {i \in 1 .. 0 : events[i].tenant = t /\ IsLink(events[i])} = {}
  OBVIOUS
<1>. QED
  BY <1>1, Zenon DEF Tip

\* One event moves the head of its own tenant, to its checksum.
LEMMA TipStep ==
    ASSUME NEW events, NEW anchors, NEW t, NEW n \in Nat \ {0}
    PROVE  Tip(events, anchors, n, t) =
              IF events[n].tenant = t /\ IsLink(events[n]) THEN events[n].checksum
              ELSE Tip(events, anchors, n - 1, t)
<1>. DEFINE mine(k) == {i \in 1 .. k : events[i].tenant = t /\ IsLink(events[i])}
<1>1. \A k : Tip(events, anchors, k, t) = IF mine(k) = {} THEN Base(anchors, t) ELSE events[Max(mine(k))].checksum
  BY Zenon DEF Tip
<1>2. CASE events[n].tenant = t /\ IsLink(events[n])
  <2>1. n \in mine(n) /\ n \in Int /\ \A i \in mine(n) : i <= n /\ i \in Int
    BY <1>2
  <2>. HIDE DEF mine
  <2>2. Max(mine(n)) = n /\ mine(n) # {}
    BY <2>1, GreatestIs
  <2>. QED
    BY <1>1, <1>2, <2>2
<1>3. CASE ~(events[n].tenant = t /\ IsLink(events[n]))
  <2>1. mine(n) = mine(n - 1)
    BY <1>3
  <2>. HIDE DEF mine
  <2>. QED
    BY <1>1, <1>3, <2>1
<1>. QED
  BY <1>2, <1>3

\* Windows that agree from some place on have the same heads from there.
Continues(window, events, w, N) == \A n \in 1 .. N : window[n] = events[w + n]
LEMMA TipsAgree ==
    ASSUME NEW events, NEW anchors, NEW window, NEW seeds, NEW w \in Nat, NEW N \in Nat, NEW t,
           Tip(window, seeds, 0, t) = Tip(events, anchors, w, t),
           Continues(window, events, w, N)
    PROVE  \A n \in 0 .. N : Tip(window, seeds, n, t) = Tip(events, anchors, w + n, t)
<1>. DEFINE Good == {n \in 0 .. N : Tip(window, seeds, n, t) = Tip(events, anchors, w + n, t)}
<1>1. 0 \in Good
  OBVIOUS
<1>2. ASSUME NEW n \in 1 .. N, n - 1 \in Good PROVE n \in Good
  <2>1. window[n] = events[w + n] /\ w + (n - 1) = (w + n) - 1 /\ n \in Nat \ {0} /\ w + n \in Nat \ {0}
    BY DEF Continues
  <2>2. Tip(window, seeds, n - 1, t) = Tip(events, anchors, (w + n) - 1, t)
    BY <1>2, <2>1
  <2>3. Tip(window, seeds, n, t) = IF window[n].tenant = t /\ IsLink(window[n]) THEN window[n].checksum
                                   ELSE Tip(window, seeds, n - 1, t)
    BY <2>1, TipStep
  <2>4. Tip(events, anchors, w + n, t) =
           IF events[w + n].tenant = t /\ IsLink(events[w + n]) THEN events[w + n].checksum
           ELSE Tip(events, anchors, (w + n) - 1, t)
    <3>1. PICK k : k = w + n
      OBVIOUS
    <3>2. k \in Nat \ {0}
      BY <2>1, <3>1
    <3>3. Tip(events, anchors, k, t) =
             IF events[k].tenant = t /\ IsLink(events[k]) THEN events[k].checksum
             ELSE Tip(events, anchors, k - 1, t)
      BY <3>2, TipStep
    <3>. QED
      BY <3>1, <3>3, Zenon
  <2>. QED
    BY <2>1, <2>2, <2>3, <2>4
<1>. QED
  <2>1. \A n \in 0 .. N : n \in Good
    <3>. HIDE DEF Good
    <3>1. Good \in SUBSET (0 .. N)
      BY DEF Good
    <3>. QED
      BY <1>1, <1>2, <3>1, FirstFailure
  <2>. QED
    BY <2>1

LEMMA TipsSame ==
    ASSUME NEW events, NEW anchors, NEW longer, NEW N \in Nat, NEW t,
           Continues(longer, events, 0, N)
    PROVE  \A n \in 0 .. N : Tip(longer, anchors, n, t) = Tip(events, anchors, n, t)
<1>1. PICK w \in Nat : w = 0
  OBVIOUS
<1>2. Tip(longer, anchors, 0, t) = Tip(events, anchors, w, t) /\ Continues(longer, events, w, N)
  BY <1>1, TipStart
<1>3. \A n \in 0 .. N : Tip(longer, anchors, n, t) = Tip(events, anchors, w + n, t)
  BY <1>2, TipsAgree
<1>. QED
  BY <1>1, <1>3

\* The first m events are as sealed, from the anchors to the chains in `was`,
\* and the others are some of these again.
Honest(events, anchors, was, m) ==
    /\ m \in 0 .. Len(events)
    /\ \A n \in 1 .. m :
          /\ KindMatchesPayload(events[n])
          /\ IsLink(events[n]) =>
               /\ events[n].checksum = Link(events[n].prev, events[n].digest)
               /\ events[n].prev = Tip(events, anchors, n - 1, events[n].tenant)
    /\ \A i, j \in 1 .. m :
          IsLink(events[i]) /\ IsLink(events[j]) /\ events[i].id = events[j].id => i = j
    /\ \A n \in m + 1 .. Len(events) : \E i \in 1 .. m : events[n] = events[i]
    /\ \A t \in Partitions : Tip(events, anchors, m, t) = was[t]

\* No two different links of a window as sealed share an id.
LEMMA HonestNotForged ==
    ASSUME NEW events, NEW anchors, NEW was, NEW m, Honest(events, anchors, was, m), Len(events) \in Nat
    PROVE  ~Impostors(events)
<1>. SUFFICES ASSUME NEW i \in 1 .. Len(events), NEW j \in 1 .. Len(events),
                     events[i] # events[j], IsLink(events[i]), IsLink(events[j]), events[i].id = events[j].id
              PROVE  FALSE
  BY DEF Impostors
<1>1. ASSUME NEW n \in 1 .. Len(events) PROVE \E k \in 1 .. m : events[n] = events[k]
  <2>1. n \in 1 .. m \/ n \in m + 1 .. Len(events)
    BY DEF Honest
  <2>. QED
    BY <2>1 DEF Honest
<1>2. PICK a \in 1 .. m : events[i] = events[a]
  BY <1>1
<1>3. PICK b \in 1 .. m : events[j] = events[b]
  BY <1>1
<1>4. a = b
  BY <1>2, <1>3 DEF Honest
<1>. QED
  BY <1>2, <1>3, <1>4

\* The walk of the sealed part: never refused, and every chain at its head.
AtTips(r, events, anchors, n) ==
    /\ r = Answer(r.answer)
    /\ \A t : IF t \in DOMAIN r.answer THEN RunningHead(r.answer[t]) = Tip(events, anchors, n, t)
              ELSE Tip(events, anchors, n, t) = Base(anchors, t)

\* One event of the sealed part takes the chains from heads to heads.
LEMMA HonestEvent ==
    ASSUME NEW events, NEW anchors, NEW n \in Nat \ {0}, NEW chains, NEW r,
           \A t : IF t \in DOMAIN chains THEN RunningHead(chains[t]) = Tip(events, anchors, n - 1, t)
                  ELSE Tip(events, anchors, n - 1, t) = Base(anchors, t),
           ChainsGrown(chains, events, anchors, n - 1),
           KindMatchesPayload(events[n]),
           IsLink(events[n]) =>
               /\ events[n].checksum = Link(events[n].prev, events[n].digest)
               /\ events[n].prev = Tip(events, anchors, n - 1, events[n].tenant)
               /\ events[n].digest \in Nat /\ Base(anchors, events[n].tenant) \in Digests,
           r = WalkEvent(chains, anchors, events[n])
    PROVE  AtTips(r, events, anchors, n)
<1>1. PICK e, t, chain : e = events[n] /\ t = e.tenant /\ chain = ChainOf(chains, anchors, t)
  OBVIOUS
<1>2. \A u : Tip(events, anchors, n, u) = IF t = u /\ IsLink(e) THEN e.checksum
                                          ELSE Tip(events, anchors, n - 1, u)
  BY SMT, SMTT(30), <1>1, TipStep
<1>3. CASE ~IsLink(e)
  <2>1. r = Answer(chains)
    BY <1>1, <1>3, WalkEventIs
  <2>2. r.answer = chains /\ r = Answer(r.answer)
    BY <2>1, Refusals
  <2>3. \A u : Tip(events, anchors, n, u) = Tip(events, anchors, n - 1, u)
    BY <1>2, <1>3
  <2>. QED
    BY Zenon, <2>2, <2>3 DEF AtTips
<1>4. CASE IsLink(e)
  <2>1. RunningHead(chain) = e.prev
    <3>1. CASE t \in DOMAIN chains
      BY <1>1, <1>4, <3>1 DEF ChainOf
    <3>2. CASE t \notin DOMAIN chains
      <4>1. chain.heads = <<Base(anchors, t)>>
        BY <1>1, <3>2 DEF ChainOf
      <4>2. RunningHead(chain) = Base(anchors, t)
        BY <4>1 DEF RunningHead
      <4>. QED
        BY <1>1, <1>4, <3>2, <4>2
    <3>. QED
      BY <3>1, <3>2
  <2>2. Extends(chain, e)
    BY Zenon, <1>1, <1>4, <2>1 DEF Extends
  <2>3. PICK new : r = Answer(new) /\ Linked(new, chains, anchors, e)
    BY <1>1, <1>4, <2>2, WalkEventIs
  <2>4. r.answer = new /\ r = Answer(r.answer)
    BY <2>3, Refusals
  <2>5. ChainsGrown(new, events, anchors, n)
    BY <1>1, <1>4, <2>2, <2>3, WalkEventGrows
  <2>6. RunningHead(new[t]) = e.checksum
    <3>1. /\ new[t] = [base_len |-> chain.base_len, heads |-> Append(chain.heads, e.checksum)]
          /\ t \in DOMAIN new
      BY <1>1, <2>3 DEF Linked
    <3>2. Grown(new[t], Base(anchors, t))
      BY Zenon, <2>5, <3>1 DEF ChainsGrown
    <3>3. PICK hs : hs = chain.heads
      OBVIOUS
    <3>4. new[t].heads = Append(hs, e.checksum)
      BY <3>1, <3>3
    <3>5. hs \in Seq(Digests)
      <4>1. CASE t \in DOMAIN chains
        BY <1>1, <3>3, <4>1 DEF ChainsGrown, Grown, ChainOf
      <4>2. CASE t \notin DOMAIN chains
        <5>1. hs = <<Base(anchors, t)>> /\ Base(anchors, t) \in Digests
          BY Zenon, <1>1, <1>4, <3>3, <4>2 DEF ChainOf
        <5>. QED
          BY <5>1
      <4>. QED
        BY Zenon, <4>1, <4>2
    <3>6. e.checksum \in Digests
      BY SMT, SMTT(30), <3>2, <3>4, <3>5 DEF Grown
    <3>7. Append(hs, e.checksum)[Len(Append(hs, e.checksum))] = e.checksum
      BY <3>5, <3>6
    <3>. QED
      BY Zenon, <3>4, <3>7 DEF RunningHead
  <2>7. ASSUME NEW u PROVE IF u \in DOMAIN new THEN RunningHead(new[u]) = Tip(events, anchors, n, u)
                           ELSE Tip(events, anchors, n, u) = Base(anchors, u)
    <3>1. CASE u = t
      <4>1. u \in DOMAIN new
        BY <1>1, <2>3, <3>1 DEF Linked
      <4>2. Tip(events, anchors, n, u) = e.checksum
        BY SMT, SMTT(30), <1>2, <1>4, <3>1
      <4>. QED
        BY ZenonT(40), <2>6, <3>1, <4>1, <4>2
    <3>2. CASE u # t
      <4>1. Tip(events, anchors, n, u) = Tip(events, anchors, n - 1, u)
        BY Zenon, <1>2, <3>2
      <4>2. (u \in DOMAIN new <=> u \in DOMAIN chains) /\ (u \in DOMAIN chains => new[u] = chains[u])
        BY <1>1, <2>3, <3>2 DEF Linked
      <4>. QED
        BY <4>1, <4>2
    <3>. QED
      BY Zenon, <3>1, <3>2
  <2>. QED
    BY Zenon, <2>4, <2>7 DEF AtTips
<1>. QED
  BY <1>3, <1>4

\* So does every prefix of the sealed part.
LEMMA HonestPart ==
    ASSUME NEW events, NEW anchors, NEW was, NEW m, Wired(events, anchors), Honest(events, anchors, was, m)
    PROVE  \A n \in 0 .. m : AtTips(Walk(events, anchors)[n], events, anchors, n)
<1>1. PICK w, N : w = Walk(events, anchors) /\ N = Len(events)
  BY Zenon
<1>2. RunOf(w, events, anchors, N) /\ N \in Nat /\ m \in Nat /\ m <= N
  BY <1>1, WalkRuns DEF Wired, Honest
<1>. DEFINE Good == {n \in 0 .. m : AtTips(w[n], events, anchors, n)}
<1>3. 0 \in Good
  <2>1. w[0] = Answer(NoChains) /\ DOMAIN NoChains = {}
    BY <1>2 DEF RunOf, NoChains
  <2>2. w[0].answer = NoChains
    BY <2>1, Refusals
  <2>3. AtTips(w[0], events, anchors, 0)
    BY <2>1, <2>2, TipStart DEF AtTips
  <2>. QED
    BY <1>2, <2>3
<1>4. ASSUME NEW n \in 1 .. m, n - 1 \in Good PROVE n \in Good
  <2>1. n \in Nat \ {0} /\ n \in 1 .. N /\ n - 1 \in 0 .. N
    BY <1>2
  <2>2. w[n] = WalkNext(w[n - 1], events, anchors, n)
    BY <1>2, <2>1 DEF RunOf
  <2>3. PICK chains : chains = w[n - 1].answer
    OBVIOUS
  <2>4. /\ w[n - 1] = Answer(chains)
        /\ \A t : IF t \in DOMAIN chains THEN RunningHead(chains[t]) = Tip(events, anchors, n - 1, t)
                  ELSE Tip(events, anchors, n - 1, t) = Base(anchors, t)
    BY <1>4, <2>3 DEF AtTips
  <2>5. /\ KindMatchesPayload(events[n])
        /\ IsLink(events[n]) =>
               /\ events[n].checksum = Link(events[n].prev, events[n].digest)
               /\ events[n].prev = Tip(events, anchors, n - 1, events[n].tenant)
    BY DEF Honest
  <2>6. CASE Repeated(events, n)
    <3>1. PICK i \in 1 .. n - 1 : events[i] = events[n]
      BY <2>6 DEF Repeated
    <3>2. i \in 1 .. m /\ i # n
      BY <1>2
    <3>3. ~IsLink(events[n])
      BY <3>1, <3>2 DEF Honest
    <3>4. \A t : Tip(events, anchors, n, t) = Tip(events, anchors, n - 1, t)
      BY <2>1, <3>3, TipStep
    <3>5. w[n] = w[n - 1]
      BY <2>2, <2>6 DEF WalkNext
    <3>6. AtTips(w[n], events, anchors, n)
      BY <2>3, <2>4, <3>4, <3>5 DEF AtTips
    <3>. QED
      BY <3>6
  <2>7. CASE ~Repeated(events, n)
    <3>1. w[n] = WalkEvent(chains, anchors, events[n])
      BY <2>2, <2>4, <2>7, Refusals DEF WalkNext
    <3>2. ChainsGrown(chains, events, anchors, n - 1)
      BY ZenonT(40), <1>1, <2>1, <2>3, <2>4, Refusals, WalkGrows
    <3>3. IsLink(events[n]) => events[n].digest \in Nat /\ Base(anchors, events[n].tenant) \in Digests
      BY <1>1, <2>1 DEF Wired
    <3>4. AtTips(w[n], events, anchors, n)
      BY Zenon, <2>1, <2>4, <2>5, <3>1, <3>2, <3>3, HonestEvent
    <3>. QED
      BY <3>4
  <2>. QED
    BY <2>6, <2>7
<1>. QED
  <2>1. \A n \in 0 .. m : n \in Good
    <3>. HIDE DEF Good
    <3>1. Good \in SUBSET (0 .. m)
      BY DEF Good
    <3>. QED
      BY <1>2, <1>3, <1>4, <3>1, FirstFailure
  <2>. QED
    BY <1>1, <2>1

\* An honest window is accepted and every chain is followed to its end.
LEMMA HonestWalk ==
    ASSUME NEW events, NEW anchors, NEW was, NEW m, Wired(events, anchors), Honest(events, anchors, was, m)
    PROVE  LET r == ChainByTenant(events, anchors) IN
           ~IsRefusal(r) /\ \A t \in DOMAIN r.answer : t \in Partitions => RunningHead(r.answer[t]) = was[t]
<1>1. PICK w, N : w = Walk(events, anchors) /\ N = Len(events)
  BY Zenon
<1>2. RunOf(w, events, anchors, N) /\ N \in Nat /\ m \in Nat /\ m <= N
  BY <1>1, WalkRuns DEF Wired, Honest
<1>. DEFINE Good == {k \in 0 .. N - m : w[m + k] = w[m]}
<1>3. 0 \in Good
  BY <1>2
<1>4. ASSUME NEW k \in 1 .. N - m, k - 1 \in Good PROVE k \in Good
  <2>1. PICK n : n = m + k
    OBVIOUS
  <2>2. n \in 1 .. N /\ n \in m + 1 .. N /\ n - 1 = m + (k - 1)
    BY <1>2, <2>1
  <2>3. w[n] = WalkNext(w[n - 1], events, anchors, n)
    BY <1>2, <2>2 DEF RunOf
  <2>4. PICK i \in 1 .. m : events[n] = events[i]
    BY <1>1, <2>2 DEF Honest
  <2>5. i \in 1 .. n - 1
    BY <1>2, <2>2
  <2>6. Repeated(events, n)
    BY <2>4, <2>5 DEF Repeated
  <2>7. w[n] = w[n - 1]
    BY <2>3, <2>6 DEF WalkNext
  <2>. QED
    BY <1>4, <2>1, <2>2, <2>7
<1>5. w[N] = w[m]
  <2>1. \A k \in 0 .. N - m : k \in Good
    <3>. HIDE DEF Good
    <3>1. Good \in SUBSET (0 .. N - m) /\ N - m \in Nat
      BY <1>2 DEF Good
    <3>. QED
      BY Zenon, <1>3, <1>4, <3>1, FirstFailure
  <2>2. N - m \in 0 .. N - m /\ m + (N - m) = N
    BY <1>2
  <2>. QED
    BY <2>1, <2>2
<1>6. ChainByTenant(events, anchors) = w[m]
  BY <1>1, <1>2, <1>5, HonestNotForged DEF ChainByTenant
<1>7. AtTips(w[m], events, anchors, m)
  BY <1>1, <1>2, HonestPart
<1>8. ~IsRefusal(w[m])
  BY Zenon, <1>7, Refusals DEF AtTips
<1>. QED
  BY <1>6, <1>7, <1>8 DEF AtTips, Honest

-----------------------------------------------------------------------------
(* The inductive invariant: what holds of an outbox, and of any window of it
   that reaches the verifier.                                               *)

Proper(e) ==
    /\ DOMAIN e = {"tenant", "kind", "payload", "id", "prev", "digest", "checksum"}
    /\ e.tenant \in Partitions /\ (IsLink(e) => e.digest \in Nat)

\* No two tenants share the first digest of their chains.
WasSealed(was) ==
    /\ was \in [Partitions -> Digests]
    /\ \A t, u \in Partitions :
          Len(was[t]) >= 1 /\ Len(was[u]) >= 1 /\ was[t][1] = was[u][1] => t = u

Anchored(anchors, was) ==
    \A t \in DOMAIN anchors :
        t \in Partitions /\ anchors[t] \in Digests /\ Len(anchors[t]) >= 1 /\ Begins(anchors[t], was[t])

\* Every link ends at a head of a sealed chain, its tenant's unless relabelled.
Rooted(e, by, was) ==
    IsLink(e) => \E u \in Partitions : Begins(e.checksum, was[u]) /\ (u = e.tenant \/ "relabel" \in by)

\* A window, damaged as `by` says.
Sent(events, anchors, by, was) ==
    /\ \E S : events \in Seq(S)
    /\ \A i \in 1 .. Len(events) : Proper(events[i]) /\ ("splice" \notin by => Rooted(events[i], by, was))
    /\ WasSealed(was) /\ Anchored(anchors, was)
    /\ by \subseteq {"repeat"} => \E m : Honest(events, anchors, was, m)

\* An outbox before its export: sealed event by event, numbered in order.
Outbox(events, was) ==
    /\ Sent(events, NoChains, {}, was)
    /\ Honest(events, NoChains, was, Len(events))
    /\ \A i \in 1 .. Len(events) : IsLink(events[i]) => events[i].id = i /\ events[i].checksum \in Digests
    /\ \A t \in Partitions : \A k \in 1 .. Len(was[t]) : was[t][k] \in 1 .. Len(events)

LEMMA SentIsWired ==
    ASSUME NEW events, NEW anchors, NEW by, NEW was, Sent(events, anchors, by, was)
    PROVE  Wired(events, anchors)
<1>1. PICK S : events \in Seq(S)
  BY DEF Sent
<1>2. Len(events) \in Nat
  BY <1>1
<1>3. Genesis \in Digests
  BY DEF Genesis, Digests
<1>4. \A t : Base(anchors, t) \in Digests
  BY <1>3 DEF Base, Sent, Anchored
<1>. QED
  BY <1>2, <1>4 DEF Wired, Sent, Proper

\* A window that is changed and no longer called honest.
LEMMA SpoiltIsSent ==
    ASSUME NEW events, NEW anchors, NEW by, NEW was, Sent(events, anchors, by, was),
           NEW kind, kind # "repeat", NEW S, NEW new \in Seq(S),
           \A k \in 1 .. Len(new) :
              Proper(new[k]) /\ ("splice" \notin by \cup {kind} => Rooted(new[k], by \cup {kind}, was))
    PROVE  Sent(new, anchors, by \cup {kind}, was)
<1>1. ~(by \cup {kind} \subseteq {"repeat"})
  OBVIOUS
<1>. QED
  BY Zenon, <1>1 DEF Sent

\* Events that were there before stay proper and rooted whatever is added to by.
LEMMA StillRooted ==
    ASSUME NEW events, NEW anchors, NEW by, NEW was, Sent(events, anchors, by, was), NEW kind,
           NEW i \in 1 .. Len(events)
    PROVE  /\ Proper(events[i])
           /\ "splice" \notin by \cup {kind} => Rooted(events[i], by \cup {kind}, was)
<1>1. Proper(events[i]) /\ ("splice" \notin by => Rooted(events[i], by, was))
  BY DEF Sent
<1>. QED
  BY <1>1 DEF Rooted

\* Events that are delivered again leave a window honest.
LEMMA RepeatIsSent ==
    ASSUME NEW events, NEW anchors, NEW by, NEW was, Sent(events, anchors, by, was),
           NEW i \in 1 .. Len(events), NEW new, new = Append(events, events[i])
    PROVE  Sent(new, anchors, by \cup {"repeat"}, was)
<1>1. PICK S : events \in Seq(S)
  BY DEF Sent
<1>2. /\ new \in Seq(S) /\ Len(new) = Len(events) + 1 /\ Len(events) \in Nat
      /\ new[Len(events) + 1] = events[i] /\ \A k \in 1 .. Len(events) : new[k] = events[k]
  BY <1>1
<1>3. ASSUME NEW k \in 1 .. Len(new)
      PROVE  Proper(new[k]) /\ ("splice" \notin by \cup {"repeat"} => Rooted(new[k], by \cup {"repeat"}, was))
  <2>1. \E j \in 1 .. Len(events) : new[k] = events[j]
    BY <1>2
  <2>. QED
    BY Zenon, <2>1, StillRooted
<1>4. ASSUME by \cup {"repeat"} \subseteq {"repeat"} PROVE \E m : Honest(new, anchors, was, m)
  <2>1. by \subseteq {"repeat"}
    BY <1>4
  <2>2. PICK m : Honest(events, anchors, was, m)
    BY Zenon, <2>1 DEF Sent
  <2>3. m \in Nat /\ m <= Len(events)
    BY <1>2, <2>2 DEF Honest
  <2>4. ASSUME NEW t, NEW n \in 0 .. m PROVE Tip(new, anchors, n, t) = Tip(events, anchors, n, t)
    <3>1. Continues(new, events, 0, m)
      BY <1>2, <2>3 DEF Continues
    <3>. QED
      BY <2>3, <3>1, TipsSame
  <2>5. \A n \in 1 .. m : new[n] = events[n] /\ n - 1 \in 0 .. m
    BY <1>2, <2>3
  <2>6. m \in 0 .. Len(new) /\ m \in 0 .. m
    BY <1>2, <2>3
  <2>7. ASSUME NEW n \in m + 1 .. Len(new) PROVE \E j \in 1 .. m : new[n] = new[j]
    <3>1. \E k \in 1 .. Len(events) : new[n] = events[k]
      <4>1. n = Len(events) + 1 \/ n \in 1 .. Len(events)
        BY SMT, SMTT(30), <1>2, <2>3
      <4>. QED
        BY <1>2, <4>1
    <3>2. \A k \in 1 .. Len(events) : k \in 1 .. m \/ k \in m + 1 .. Len(events)
      BY <2>3
    <3>3. \E j \in 1 .. m : new[n] = events[j]
      BY ZenonT(40), <2>2, <3>1, <3>2 DEF Honest
    <3>. QED
      BY Zenon, <2>5, <3>3
  <2>8. \A t \in Partitions : Tip(new, anchors, m, t) = was[t]
    BY Zenon, <2>2, <2>4, <2>6 DEF Honest
  <2>9. \A n \in 1 .. m :
          /\ KindMatchesPayload(new[n])
          /\ IsLink(new[n]) =>
               /\ new[n].checksum = Link(new[n].prev, new[n].digest)
               /\ new[n].prev = Tip(new, anchors, n - 1, new[n].tenant)
    BY SMT, SMTT(30), <2>2, <2>4, <2>5 DEF Honest
  <2>10. \A a, b \in 1 .. m : IsLink(new[a]) /\ IsLink(new[b]) /\ new[a].id = new[b].id => a = b
    BY <2>2, <2>5 DEF Honest
  <2>. QED
    BY Zenon, <2>6, <2>7, <2>8, <2>9, <2>10 DEF Honest
<1>. QED
  BY Zenon, <1>2, <1>3, <1>4 DEF Sent

\* Being the beginning of a sequence is reflexive and transitive, and a link
\* only adds to its chain.
LEMMA BeginsFacts ==
    ASSUME NEW r \in Digests, NEW s \in Digests
    PROVE  /\ Begins(s, s) /\ Len(s) \in Nat
           /\ \A e \in Digests : Begins(e, r) /\ Begins(r, s) => Begins(e, s)
           /\ \A d \in Nat : Begins(s, Link(s, d))
<1>1. Begins(s, s) /\ Len(s) \in Nat
  BY DEF Begins, Digests
<1>2. ASSUME NEW e \in Digests, Begins(e, r), Begins(r, s)
      PROVE  Begins(e, s)
  <2>1. Len(e) \in Nat /\ Len(r) \in Nat /\ Len(s) \in Nat
    BY DEF Digests
  <2>2. /\ Len(e) <= Len(r) /\ \A i \in 1 .. Len(e) : e[i] = r[i]
        /\ Len(r) <= Len(s) /\ \A i \in 1 .. Len(r) : r[i] = s[i]
    BY Zenon, <1>2 DEF Begins
  <2>3. ASSUME NEW i \in 1 .. Len(e)
        PROVE  e[i] = s[i]
    <3>1. i \in 1 .. Len(r)
      BY <2>1, <2>2, <2>3
    <3>. QED
      BY Zenon, <2>2, <2>3, <3>1
  <2>4. Len(e) <= Len(s)
    BY <2>1, <2>2
  <2>. QED
    BY Zenon, <2>3, <2>4 DEF Begins
<1>3. ASSUME NEW d \in Nat
      PROVE  Begins(s, Link(s, d))
  BY <1>3 DEF Begins, Link, Digests
<1>. QED
  BY Zenon, <1>1, <1>2, <1>3

\* The next event e of the outbox takes the chains from was to now.
Follows(e, n, was, now) ==
    /\ Proper(e) /\ KindMatchesPayload(e) /\ WasSealed(now)
    /\ IsLink(e) => /\ e.checksum = Link(e.prev, e.digest) /\ e.checksum \in Digests
                    /\ e.prev = was[e.tenant] /\ now[e.tenant] = e.checksum /\ e.id = n
    /\ \A u \in Partitions :
          /\ Begins(was[u], now[u]) /\ ((u = e.tenant /\ IsLink(e)) \/ now[u] = was[u])
          /\ \A k \in 1 .. Len(now[u]) : now[u][k] \in 1 .. n

\* An outbox with one more event that follows is an outbox.
LEMMA OutboxGrows ==
    ASSUME NEW events, NEW was, Outbox(events, was), NEW e, NEW n, n = Len(events) + 1,
           NEW more, more = Append(events, e), NEW now, Follows(e, n, was, now)
    PROVE  Outbox(more, now)
<1>1. PICK S : events \in Seq(S)
  BY DEF Outbox, Sent
<1>2. /\ more \in Seq(S \cup {e}) /\ Len(more) = n /\ Len(events) \in Nat /\ n \in Nat \ {0}
      /\ n - 1 = Len(events) /\ more[n] = e /\ \A k \in 1 .. Len(events) : more[k] = events[k]
  BY <1>1
<1>3. \A k \in 1 .. n : k = n \/ k \in 1 .. Len(events)
  BY <1>2
<1>4. ASSUME NEW k \in 1 .. Len(events)
      PROVE  /\ Proper(events[k]) /\ Rooted(events[k], {}, was) /\ KindMatchesPayload(events[k])
             /\ IsLink(events[k]) => /\ events[k].id = k /\ events[k].checksum \in Digests
                                     /\ events[k].checksum = Link(events[k].prev, events[k].digest)
                                     /\ events[k].prev = Tip(events, NoChains, k - 1, events[k].tenant)
  BY ZenonT(40) DEF Outbox, Sent, Honest
<1>5. \A u \in Partitions : was[u] \in Digests /\ now[u] \in Digests /\ Begins(was[u], now[u])
  BY DEF Outbox, Sent, WasSealed, Follows
<1>6. ASSUME NEW u, NEW k \in 0 .. Len(events)
      PROVE  Tip(more, NoChains, k, u) = Tip(events, NoChains, k, u)
  <2>1. Continues(more, events, 0, Len(events))
    BY <1>2 DEF Continues
  <2>. QED
    BY SMT, SMTT(30), <1>2, <2>1, TipsSame
<1>7. \A u \in Partitions : Tip(more, NoChains, n - 1, u) = was[u]
  BY ZenonT(40), <1>2, <1>6 DEF Outbox, Honest
<1>8. ASSUME NEW k \in 1 .. n
      PROVE  /\ KindMatchesPayload(more[k])
             /\ IsLink(more[k]) =>
                  /\ more[k].checksum = Link(more[k].prev, more[k].digest)
                  /\ more[k].prev = Tip(more, NoChains, k - 1, more[k].tenant)
                  /\ more[k].id = k /\ more[k].checksum \in Digests
  <2>1. CASE k = n
    BY Zenon, <1>2, <1>7, <2>1 DEF Follows, Proper
  <2>2. CASE k \in 1 .. Len(events)
    <3>1. k - 1 \in 0 .. Len(events) /\ more[k] = events[k]
      BY <1>2, <2>2
    <3>. QED
      BY <1>4, <1>6, <2>2, <3>1
  <2>. QED
    BY Zenon, <1>3, <2>1, <2>2
<1>9. ASSUME NEW u \in Partitions PROVE Tip(more, NoChains, n, u) = now[u]
  <2>1. Tip(more, NoChains, n, u) = IF e.tenant = u /\ IsLink(e) THEN e.checksum ELSE was[u]
    <3>1. Tip(more, NoChains, n, u) = IF more[n].tenant = u /\ IsLink(more[n]) THEN more[n].checksum
                                      ELSE Tip(more, NoChains, n - 1, u)
      <4>1. n \in Nat \ {0}
        BY <1>2
      <4>. QED
        BY ZenonT(40), <4>1, TipStep
    <3>2. more[n] = e /\ Tip(more, NoChains, n - 1, u) = was[u]
      BY <1>2, <1>7
    <3>. QED
      BY <3>1, <3>2
  <2>. QED
    BY Zenon, <2>1 DEF Follows
<1>10. Honest(more, NoChains, now, n)
  <2>1. n \in 0 .. Len(more) /\ \A k \in n + 1 .. Len(more) : FALSE
    BY <1>2
  <2>2. \A i, j \in 1 .. n : IsLink(more[i]) /\ IsLink(more[j]) /\ more[i].id = more[j].id => i = j
    BY Zenon, <1>8
  <2>. QED
    BY Zenon, <1>8, <1>9, <2>1, <2>2 DEF Honest
<1>11. ASSUME NEW k \in 1 .. n PROVE Proper(more[k]) /\ Rooted(more[k], {}, now)
  <2>1. CASE k = n
    <3>1. IsLink(e) => Begins(e.checksum, now[e.tenant]) /\ e.tenant \in Partitions
      BY Zenon, <1>5, BeginsFacts DEF Follows, Proper
    <3>. QED
      BY <1>2, <2>1, <3>1 DEF Follows, Rooted
  <2>2. CASE k \in 1 .. Len(events)
    <3>1. more[k] = events[k] /\ Proper(events[k]) /\ Rooted(events[k], {}, was)
      BY Zenon, <1>2, <1>4, <2>2
    <3>2. ASSUME IsLink(events[k])
          PROVE  \E u \in Partitions : Begins(events[k].checksum, now[u]) /\ u = events[k].tenant
      <4>1. PICK u \in Partitions : Begins(events[k].checksum, was[u]) /\ u = events[k].tenant
        BY Zenon, <3>1, <3>2 DEF Rooted
      <4>2. events[k].checksum \in Digests
        BY <1>4, <2>2, <3>2
      <4>. QED
        BY Zenon, <1>5, <4>1, <4>2, BeginsFacts
    <3>. QED
      BY Zenon, <3>1, <3>2 DEF Rooted
  <2>. QED
    BY SMT, SMTT(30), <1>3, <2>1, <2>2
<1>12. Anchored(NoChains, now)
  BY Zenon DEF Anchored, NoChains
<1>13. Sent(more, NoChains, {}, now)
  BY Zenon, <1>2, <1>10, <1>11, <1>12 DEF Sent, Follows
<1>. QED
  BY Zenon, <1>2, <1>8, <1>10, <1>13 DEF Outbox, Follows

\* What is sealed next belongs to the outbox.
LEMMA SealedNext ==
    ASSUME NEW events, NEW was, Outbox(events, was), NEW t \in Partitions, NEW n, n = Len(events) + 1,
           NEW e, e = [tenant |-> t, kind |-> "DECISION_SEALED", payload |-> "DECISION_SEALED", id |-> n,
                       prev |-> was[t], digest |-> n, checksum |-> Link(was[t], n)],
           NEW now, now = [was EXCEPT ![t] = Link(was[t], n)]
    PROVE  Follows(e, n, was, now)
<1>1. Len(events) \in Nat /\ n \in Nat \ {0}
  BY SMT, SMTT(30) DEF Outbox, Sent
<1>4. WasSealed(was) /\ was \in [Partitions -> Digests] /\ was[t] \in Digests
  BY DEF Outbox, Sent, WasSealed
<1>5. /\ e.tenant = t /\ e.kind = "DECISION_SEALED" /\ e.payload = e.kind /\ e.id = n /\ e.prev = was[t]
      /\ e.digest = n /\ e.checksum = Link(was[t], n)
      /\ DOMAIN e = {"tenant", "kind", "payload", "id", "prev", "digest", "checksum"}
  OBVIOUS
<1>6. /\ now \in [Partitions -> Digests] /\ now[t] = Link(was[t], n) /\ Link(was[t], n) \in Digests
      /\ \A u \in Partitions : u # t => now[u] = was[u]
  BY <1>1, <1>4 DEF Link, Digests
<1>7. IsLink(e) /\ Proper(e)
  BY ZenonT(40), <1>1, <1>5, <1>6, WindowAssumption DEF IsLink, Proper, Digests
<1>8. \A u \in Partitions : Len(was[u]) \in Nat /\ \A k \in 1 .. Len(was[u]) : was[u][k] \in 1 .. Len(events)
  BY SMT, SMTT(30), <1>4 DEF Outbox, Digests
<1>9. WasSealed(now)
  <2>1. \A u \in Partitions : Len(was[u]) >= 1 => was[u][1] # n
    <3>. TAKE u \in Partitions
    <3>1. Len(was[u]) >= 1 => was[u][1] \in 1 .. Len(events)
      BY <1>8
    <3>. QED
      BY <1>1, <3>1
  <2>2. now[t][1] = IF Len(was[t]) >= 1 THEN was[t][1] ELSE n
    BY SMT, SMTT(30), <1>1, <1>4, <1>6 DEF Link, Digests
  <2>. QED
    BY SMT, SMTT(30), <1>4, <1>6, <1>8, <2>1, <2>2 DEF WasSealed
<1>10. KindMatchesPayload(e)
  BY <1>5 DEF KindMatchesPayload, IsAdvisory, Owner, ChainAnchor, KnownKinds, AdvisoryKinds, ChainedKinds
<1>11. ASSUME NEW u \in Partitions
       PROVE  Begins(was[u], now[u]) /\ \A k \in 1 .. Len(now[u]) : now[u][k] \in 1 .. n
  <2>1. CASE u # t
    <3>1. now[u] = was[u] /\ was[u] \in Digests
      BY <1>4, <1>6, <2>1
    <3>. QED
      BY SMT, SMTT(30), <1>1, <1>8, <3>1, BeginsFacts
  <2>2. CASE u = t
    <3>1. Begins(was[t], now[t])
      BY SMT, SMTT(30), <1>1, <1>4, <1>6, BeginsFacts
    <3>2. Len(now[t]) = Len(was[t]) + 1 /\ now[t][Len(was[t]) + 1] = n
          /\ \A k \in 1 .. Len(was[t]) : now[t][k] = was[t][k]
      BY SMT, SMTT(30), <1>1, <1>4, <1>6 DEF Link, Digests
    <3>3. \A k \in 1 .. Len(was[t]) + 1 : now[t][k] \in 1 .. n
      BY SMT, SMTT(30), <1>1, <1>8, <3>2
    <3>. QED
      BY Zenon, <2>2, <3>1, <3>2, <3>3
  <2>. QED
    BY <2>1, <2>2
<1>. QED
  BY Zenon, <1>5, <1>6, <1>7, <1>9, <1>10, <1>11 DEF Follows

\* An advisory event belongs to the outbox and moves no chain.
LEMMA AdvisedNext ==
    ASSUME NEW events, NEW was, Outbox(events, was), NEW t \in Partitions, NEW n, n = Len(events) + 1,
           NEW row \in AdvisoryRows,
           NEW e, e = [tenant |-> t, kind |-> row.kind, payload |-> row.payload, id |-> 0,
                       prev |-> Genesis, digest |-> None, checksum |-> None]
    PROVE  Follows(e, n, was, was)
<1>1. Len(events) \in Nat /\ n \in Nat \ {0}
  BY DEF Outbox, Sent
<1>2. WasSealed(was) /\ \A u \in Partitions : was[u] \in Digests
  BY Zenon DEF Outbox, Sent, WasSealed
<1>3. /\ e.tenant = t /\ e.kind = row.kind /\ e.payload = row.payload
      /\ e.digest = None /\ e.checksum = None
      /\ DOMAIN e = {"tenant", "kind", "payload", "id", "prev", "digest", "checksum"}
  OBVIOUS
<1>4. ~IsLink(e) /\ Proper(e)
  BY <1>3 DEF IsLink, Proper
<1>5. KindMatchesPayload(e)
  <2>1. Owner(row.payload) = row.kind
    BY DEF AdvisoryRows, Owner, ChainAnchor
  <2>. QED
    BY Zenon, <1>3, <2>1 DEF KindMatchesPayload
<1>6. ASSUME NEW u \in Partitions
       PROVE  Begins(was[u], was[u]) /\ \A k \in 1 .. Len(was[u]) : was[u][k] \in 1 .. n
  <2>1. \A k \in 1 .. Len(was[u]) : was[u][k] \in 1 .. Len(events)
    BY DEF Outbox
  <2>. QED
    BY SMT, SMTT(30), <1>1, <1>2, <2>1, BeginsFacts
<1>. QED
  BY Zenon, <1>2, <1>4, <1>5, <1>6 DEF Follows

\* The head after N events is the start, or the checksum of a link of the tenant.
LEMMA TipIsAHead ==
    ASSUME NEW events, NEW anchors, NEW t, NEW N \in Nat
    PROVE  \/ Tip(events, anchors, N, t) = Base(anchors, t)
           \/ \E i \in 1 .. N : /\ events[i].tenant = t /\ IsLink(events[i])
                                /\ Tip(events, anchors, N, t) = events[i].checksum
<1>. DEFINE Found(n) == \E i \in 1 .. n : /\ events[i].tenant = t /\ IsLink(events[i])
                                          /\ Tip(events, anchors, n, t) = events[i].checksum
            Good == {n \in 0 .. N : Tip(events, anchors, n, t) = Base(anchors, t) \/ Found(n)}
<1>1. 0 \in Good
  BY SMT, SMTT(30), TipStart
<1>2. ASSUME NEW n \in 1 .. N, n - 1 \in Good PROVE n \in Good
  <2>1. Tip(events, anchors, n, t) = IF events[n].tenant = t /\ IsLink(events[n]) THEN events[n].checksum
                                     ELSE Tip(events, anchors, n - 1, t)
    BY TipStep
  <2>2. CASE events[n].tenant = t /\ IsLink(events[n])
    <3>1. n \in 1 .. n
      OBVIOUS
    <3>. QED
      BY <2>1, <2>2, <3>1
  <2>3. CASE ~(events[n].tenant = t /\ IsLink(events[n]))
    <3>1. \A i \in 1 .. n - 1 : i \in 1 .. n
      OBVIOUS
    <3>. QED
      BY <1>2, <2>1, <2>3, <3>1
  <2>. QED
    BY <2>2, <2>3
<1>. QED
  <2>1. \A n \in 0 .. N : n \in Good
    <3>. HIDE DEF Good
    <3>1. Good \in SUBSET (0 .. N)
      BY DEF Good
    <3>. QED
      BY <1>1, <1>2, <3>1, FirstFailure
  <2>. QED
    BY SMT, SMTT(30), <2>1

\* The last N events of an outbox, with the anchors of the tenants that have a
\* chain before them.
WindowOf(window, anchors, events, w, N) ==
    /\ w \in Nat /\ N \in Nat /\ w + N = Len(events)
    /\ (\E S : window \in Seq(S)) /\ Len(window) = N /\ Continues(window, events, w, N)
    /\ DOMAIN anchors = {t \in Partitions : Tip(events, NoChains, w, t) # Genesis}
    /\ \A t \in DOMAIN anchors : anchors[t] = Tip(events, NoChains, w, t)

\* What is exported is a window of the outbox.
LEMMA ExportIsWindow ==
    ASSUME NEW S, NEW events \in Seq(S), NEW w \in Nat, w <= Len(events),
           NEW window, window = SubSeq(events, w + 1, Len(events)),
           NEW anchors, anchors = [t \in {t \in Partitions : HeadAfter(events, w, t) # Genesis}
                                       |-> HeadAfter(events, w, t)]
    PROVE  WindowOf(window, anchors, events, w, Len(events) - w)
<1>1. PICK N : N = Len(events) - w
  OBVIOUS
<1>2. /\ N \in Nat /\ window \in Seq(S) /\ Len(window) = N /\ w + N = Len(events)
      /\ \A n \in 1 .. N : window[n] = events[w + n]
  BY <1>1
<1>3. \A t : HeadAfter(events, w, t) = Tip(events, NoChains, w, t)
  <2>1. \A t : Base(NoChains, t) = Genesis
    BY DEF Base, NoChains
  <2>. QED
    BY <2>1, Zenon DEF HeadAfter, Tip
<1>4. /\ DOMAIN anchors = {t \in Partitions : Tip(events, NoChains, w, t) # Genesis}
      /\ \A t \in DOMAIN anchors : anchors[t] = Tip(events, NoChains, w, t)
  BY <1>3
<1>. QED
  BY Zenon, <1>1, <1>2, <1>4 DEF WindowOf, Continues

\* The heads of a window are those of the outbox.
LEMMA WindowTips ==
    ASSUME NEW events, NEW anchors, NEW window, NEW w, NEW N, WindowOf(window, anchors, events, w, N),
           NEW t \in Partitions
    PROVE  \A n \in 0 .. N : Tip(window, anchors, n, t) = Tip(events, NoChains, w + n, t)
<1>1. w \in Nat /\ N \in Nat /\ Continues(window, events, w, N)
  BY DEF WindowOf
<1>2. Base(anchors, t) = Tip(events, NoChains, w, t)
  BY DEF WindowOf, Base
<1>3. Tip(window, anchors, 0, t) = Tip(events, NoChains, w, t)
  BY Zenon, <1>2, TipStart
<1>. QED
  BY <1>1, <1>3, TipsAgree

\* The anchors of a window are heads of the sealed chains.
LEMMA WindowAnchors ==
    ASSUME NEW events, NEW was, Outbox(events, was),
           NEW anchors, NEW window, NEW w, NEW N, WindowOf(window, anchors, events, w, N)
    PROVE  Anchored(anchors, was)
<1>. SUFFICES ASSUME NEW t \in DOMAIN anchors
              PROVE  /\ t \in Partitions /\ anchors[t] \in Digests /\ Len(anchors[t]) >= 1
                     /\ Begins(anchors[t], was[t])
  BY DEF Anchored
<1>1. PICK head : head = Tip(events, NoChains, w, t)
  OBVIOUS
<1>2. t \in Partitions /\ head # Genesis /\ anchors[t] = head
  BY <1>1 DEF WindowOf
<1>3. w \in Nat /\ w \in 0 .. w /\ \A i \in 1 .. w : i \in 1 .. Len(events)
  BY DEF WindowOf
<1>4. Base(NoChains, t) = Genesis
  BY Zenon DEF Base, NoChains
<1>5. \/ head = Base(NoChains, t)
      \/ \E i \in 1 .. w : events[i].tenant = t /\ IsLink(events[i]) /\ head = events[i].checksum
  <2>1. \/ Tip(events, NoChains, w, t) = Base(NoChains, t)
        \/ \E i \in 1 .. w : /\ events[i].tenant = t /\ IsLink(events[i])
                             /\ Tip(events, NoChains, w, t) = events[i].checksum
    BY <1>3, TipIsAHead
  <2>. QED
    BY Zenon, <1>1, <2>1
<1>6. PICK i \in 1 .. w : events[i].tenant = t /\ IsLink(events[i]) /\ head = events[i].checksum
  BY Zenon, <1>2, <1>4, <1>5
<1>7. head \in Digests /\ Rooted(events[i], {}, was)
  BY Zenon, <1>3, <1>6 DEF Outbox, Sent
<1>8. Begins(head, was[t])
  BY <1>6, <1>7 DEF Rooted
<1>9. Len(head) >= 1
  BY <1>2, <1>7 DEF Digests, Genesis
<1>. QED
  BY Zenon, <1>2, <1>7, <1>8, <1>9

\* A window of the outbox is honest.
LEMMA WindowIsSent ==
    ASSUME NEW events, NEW was, Outbox(events, was),
           NEW anchors, NEW window, NEW w, NEW N, WindowOf(window, anchors, events, w, N)
    PROVE  Sent(window, anchors, {}, was)
<1>1. w \in Nat /\ N \in Nat /\ w + N = Len(events) /\ Len(window) = N
  BY DEF WindowOf
<1>2. ASSUME NEW k \in 1 .. Len(events)
      PROVE  /\ Proper(events[k]) /\ Rooted(events[k], {}, was) /\ KindMatchesPayload(events[k])
             /\ IsLink(events[k]) => /\ events[k].id = k
                                     /\ events[k].checksum = Link(events[k].prev, events[k].digest)
                                     /\ events[k].prev = Tip(events, NoChains, k - 1, events[k].tenant)
  BY Zenon DEF Outbox, Sent, Honest
<1>3. ASSUME NEW n \in 1 .. N
      PROVE  /\ Proper(window[n]) /\ Rooted(window[n], {}, was) /\ KindMatchesPayload(window[n])
             /\ IsLink(window[n]) =>
                  /\ window[n].checksum = Link(window[n].prev, window[n].digest)
                  /\ window[n].prev = Tip(window, anchors, n - 1, window[n].tenant)
                  /\ window[n].id = w + n
  <2>1. PICK k : k = w + n
    OBVIOUS
  <2>2. window[n] = events[k] /\ k \in 1 .. Len(events) /\ n - 1 \in 0 .. N /\ k - 1 = w + (n - 1)
    BY <1>1, <2>1 DEF WindowOf, Continues
  <2>3. Proper(events[k]) /\ events[k].tenant \in Partitions
    BY <1>2, <2>2 DEF Proper
  <2>4. Tip(window, anchors, n - 1, events[k].tenant) = Tip(events, NoChains, k - 1, events[k].tenant)
    BY <2>2, <2>3, WindowTips
  <2>. QED
    BY ZenonT(40), <1>2, <2>1, <2>2, <2>4
<1>4. Honest(window, anchors, was, N)
  <2>1. N \in 0 .. Len(window) /\ \A n \in N + 1 .. Len(window) : FALSE
    BY <1>1
  <2>2. ASSUME NEW i \in 1 .. N, NEW j \in 1 .. N,
               IsLink(window[i]), IsLink(window[j]), window[i].id = window[j].id
        PROVE  i = j
    <3>1. w + i = w + j
      BY <1>3, <2>2
    <3>. QED
      BY SMT, SMTT(30), <1>1, <3>1
  <2>3. ASSUME NEW t \in Partitions PROVE Tip(window, anchors, N, t) = was[t]
    <3>1. Tip(events, NoChains, Len(events), t) = was[t]
      BY DEF Outbox, Honest
    <3>2. N \in 0 .. N
      BY <1>1
    <3>3. Tip(window, anchors, N, t) = Tip(events, NoChains, w + N, t)
      BY <3>2, WindowTips
    <3>. QED
      BY ZenonT(40), <1>1, <3>1, <3>3
  <2>. QED
    BY Zenon, <1>3, <2>1, <2>2, <2>3 DEF Honest
<1>. QED
  <2>1. Anchored(anchors, was)
    BY Zenon, WindowAnchors
  <2>2. WasSealed(was)
    BY DEF Outbox, Sent
  <2>3. PICK S : window \in Seq(S)
    BY Zenon DEF WindowOf
  <2>. HIDE DEF Honest
  <2>4. \A i \in 1 .. Len(window) : Proper(window[i]) /\ Rooted(window[i], {}, was)
    BY <1>1, <1>3
  <2>. QED
    BY <1>4, <2>1, <2>2, <2>3, <2>4, Zenon DEF Sent

-----------------------------------------------------------------------------
(* Each damage keeps what is known of a window. *)

\* Events that were already in the window, fewer or in another order.
LEMMA FewerIsSent ==
    ASSUME NEW events, NEW anchors, NEW by, NEW was, Sent(events, anchors, by, was),
           NEW kind, kind # "repeat", NEW S, NEW new \in Seq(S),
           \A k \in 1 .. Len(new) : \E i \in 1 .. Len(events) : new[k] = events[i]
    PROVE  Sent(new, anchors, by \cup {kind}, was)
<1>1. ASSUME NEW k \in 1 .. Len(new)
      PROVE  Proper(new[k]) /\ ("splice" \notin by \cup {kind} => Rooted(new[k], by \cup {kind}, was))
  <2>1. PICK i \in 1 .. Len(events) : new[k] = events[i]
    BY Zenon
  <2>. QED
    BY Zenon, <2>1, StillRooted
<1>. QED
  BY Zenon, <1>1, SpoiltIsSent

\* One event is another: it only has to be proper, and rooted as its window is.
LEMMA ChangedIsSent ==
    ASSUME NEW events, NEW anchors, NEW by, NEW was, Sent(events, anchors, by, was),
           NEW kind, kind # "repeat", NEW i \in 1 .. Len(events), NEW e,
           NEW new, new = [events EXCEPT ![i] = e],
           Proper(e), "splice" \notin by \cup {kind} => Rooted(e, by \cup {kind}, was)
    PROVE  Sent(new, anchors, by \cup {kind}, was)
<1>1. PICK S : events \in Seq(S)
  BY DEF Sent
<1>2. /\ new \in Seq(S \cup {e}) /\ Len(new) = Len(events)
      /\ \A k \in 1 .. Len(new) : new[k] = IF k = i THEN e ELSE events[k]
  BY <1>1
<1>3. ASSUME NEW k \in 1 .. Len(new)
      PROVE  Proper(new[k]) /\ ("splice" \notin by \cup {kind} => Rooted(new[k], by \cup {kind}, was))
  <2>1. CASE k = i
    BY <1>2, <2>1
  <2>2. CASE k # i
    <3>1. new[k] = events[k] /\ k \in 1 .. Len(events)
      BY <1>2, <2>2
    <3>. QED
      BY Zenon, <3>1, StillRooted
  <2>. QED
    BY <2>1, <2>2
<1>. QED
  BY Zenon, <1>2, <1>3, SpoiltIsSent

\* An event is lost.
LEMMA DropIsSent ==
    ASSUME NEW events, NEW anchors, NEW by, NEW was, Sent(events, anchors, by, was), NEW i \in 1 .. Len(events)
    PROVE  Sent(Without(events, i), anchors, by \cup {"drop"}, was)
<1>1. PICK S : events \in Seq(S)
  BY DEF Sent
<1>2. PICK new, a, b : new = a \o b /\ a = SubSeq(events, 1, i - 1) /\ b = SubSeq(events, i + 1, Len(events))
  BY Zenon
<1>3. /\ a \in Seq(S) /\ Len(a) = i - 1 /\ \A k \in 1 .. i - 1 : a[k] = events[k]
      /\ b \in Seq(S) /\ Len(b) = Len(events) - i /\ \A k \in 1 .. Len(events) - i : b[k] = events[i + k]
  <2>0. Len(events) \in Nat /\ i - 1 \in Int /\ i + 1 \in Int
    BY <1>1
  <2>1. a \in Seq(S) /\ b \in Seq(S)
    BY SMT, SMTT(30), <1>1, <1>2, <2>0
  <2>2. Len(a) = i - 1 /\ \A k \in 1 .. i - 1 : a[k] = events[k]
    BY SMT, SMTT(30), <1>1, <1>2, <2>0
  <2>3. Len(b) = Len(events) - i /\ \A k \in 1 .. Len(events) - i : b[k] = events[i + k]
    BY <1>1, <1>2, <2>0
  <2>. QED
    BY Zenon, <2>1, <2>2, <2>3
<1>4. new \in Seq(S) /\ Len(new) = Len(a) + Len(b)
      /\ \A k \in 1 .. Len(new) : new[k] = IF k <= Len(a) THEN a[k] ELSE b[k - Len(a)]
  <2>1. a \in Seq(S) /\ b \in Seq(S)
    BY <1>3
  <2>2. /\ a \o b \in Seq(S) /\ Len(a \o b) = Len(a) + Len(b)
        /\ \A k \in 1 .. Len(a) + Len(b) : (a \o b)[k] = IF k <= Len(a) THEN a[k] ELSE b[k - Len(a)]
    BY <2>1, Joined
  <2>3. new = a \o b
    BY <1>2
  <2>. QED
    BY <2>2, <2>3
<1>5. ASSUME NEW k \in 1 .. Len(new) PROVE \E j \in 1 .. Len(events) : new[k] = events[j]
  <2>0. Len(events) \in Nat
    BY SMT, SMTT(30), <1>1
  <2>1. CASE k <= i - 1
    <3>1. k \in 1 .. i - 1 /\ k \in 1 .. Len(events) /\ new[k] = a[k]
      BY <1>3, <1>4, <2>0, <2>1
    <3>. QED
      BY <1>3, <3>1
  <2>2. CASE ~(k <= i - 1)
    <3>1. PICK j : j = k - (i - 1)
      OBVIOUS
    <3>2. j \in 1 .. Len(events) - i /\ i + j \in 1 .. Len(events) /\ new[k] = b[j]
      BY <1>3, <1>4, <2>0, <2>2, <3>1
    <3>. QED
      BY Zenon, <1>3, <3>2
  <2>. QED
    BY <2>1, <2>2
<1>6. Sent(new, anchors, by \cup {"drop"}, was)
  BY Zenon, <1>4, <1>5, FewerIsSent
<1>. QED
  BY <1>2, <1>6 DEF Without

\* Two neighbours change places.
LEMMA SwapIsSent ==
    ASSUME NEW events, NEW anchors, NEW by, NEW was, Sent(events, anchors, by, was),
           NEW i \in 1 .. Len(events), i < Len(events),
           NEW new, new = [events EXCEPT ![i] = events[i + 1], ![i + 1] = events[i]]
    PROVE  Sent(new, anchors, by \cup {"swap"}, was)
<1>1. PICK S : events \in Seq(S)
  BY DEF Sent
<1>2. Len(events) \in Nat /\ i + 1 \in 1 .. Len(events)
  BY <1>1
<1>3. /\ new \in Seq(S) /\ Len(new) = Len(events)
      /\ \A k \in 1 .. Len(new) :
            new[k] = IF k = i + 1 THEN events[i] ELSE IF k = i THEN events[i + 1] ELSE events[k]
  BY <1>1, <1>2
<1>4. \A k \in 1 .. Len(new) : \E j \in 1 .. Len(events) : new[k] = events[j]
  BY <1>2, <1>3
<1>. QED
  BY Zenon, <1>3, <1>4, FewerIsSent

\* Other fields of one event: its tenant, its kind, its digest.
LEMMA FieldIsSent ==
    ASSUME NEW events, NEW anchors, NEW by, NEW was, Sent(events, anchors, by, was),
           NEW i \in 1 .. Len(events), NEW kind, kind # "repeat", NEW e,
           DOMAIN e = DOMAIN events[i], e.tenant \in Partitions, e.checksum = events[i].checksum,
           e.tenant = events[i].tenant \/ kind = "relabel",
           IsLink(e) => IsLink(events[i]) /\ e.digest \in Nat
    PROVE  Sent([events EXCEPT ![i] = e], anchors, by \cup {kind}, was)
<1>1. Proper(events[i]) /\ ("splice" \notin by \cup {kind} => Rooted(events[i], by \cup {kind}, was))
  BY Zenon, StillRooted
<1>2. Proper(e)
  BY Zenon, <1>1 DEF Proper
<1>3. ASSUME "splice" \notin by \cup {kind} PROVE Rooted(e, by \cup {kind}, was)
  BY <1>1, <1>3 DEF Rooted
<1>. QED
  BY Zenon, <1>2, <1>3, ChangedIsSent

\* One link is rewritten, and what follows it in its chain is sealed again.
LEMMA SpliceIsSent ==
    ASSUME NEW events, NEW anchors, NEW by, NEW was, Sent(events, anchors, by, was), NEW i \in 1 .. Len(events)
    PROVE  Sent(Spliced(events, i), anchors, by \cup {"splice"}, was)
<1>1. PICK S : events \in Seq(S)
  BY DEF Sent
<1>2. PICK head, later, new : head = Resealed(events, i) /\ later = Later(events, i) /\ new = Spliced(events, i)
  OBVIOUS
<1>3. new = [k \in 1 .. Len(events) |->
                IF k = i THEN [events[k] EXCEPT !.digest = 0, !.checksum = head[k]]
                ELSE IF k \in later THEN [events[k] EXCEPT !.prev = head[k - 1], !.checksum = head[k]]
                ELSE events[k]]
  BY <1>2, Zenon DEF Spliced
<1>4. PICK N : N = Len(events) /\ N \in Nat
  BY <1>1
<1>5. PICK T : T = {new[k] : k \in 1 .. N}
  BY Zenon
<1>6. new \in [1 .. N -> T]
  BY Zenon, <1>3, <1>4, <1>5
<1>7. new \in Seq(T) /\ Len(new) = N
  BY SMT, SMTT(30), <1>4, <1>6
<1>8. ASSUME NEW k \in 1 .. N PROVE Proper(new[k])
  <2>1. PICK e : e = events[k]
    OBVIOUS
  <2>2. Proper(e)
    BY <1>4, <2>1 DEF Sent
  <2>3. PICK h, p : h = head[k] /\ p = head[k - 1]
    OBVIOUS
  <2>4. CASE k = i
    <3>1. new[k] = [e EXCEPT !.digest = 0, !.checksum = h]
      BY Zenon, <1>3, <1>4, <2>1, <2>3, <2>4
    <3>. QED
      BY <2>2, <3>1 DEF Proper
  <2>5. CASE k # i /\ k \in later
    <3>1. new[k] = [e EXCEPT !.prev = p, !.checksum = h]
      BY Zenon, <1>3, <1>4, <2>1, <2>3, <2>5
    <3>2. IsLink(e)
      BY <1>2, <2>1, <2>5 DEF Later
    <3>. QED
      BY <2>2, <3>1, <3>2 DEF Proper
  <2>6. CASE k # i /\ k \notin later
    BY Zenon, <1>3, <1>4, <2>1, <2>2, <2>6
  <2>. QED
    BY <2>4, <2>5, <2>6
<1>9. Sent(new, anchors, by \cup {"splice"}, was)
  BY Zenon, <1>7, <1>8, SpoiltIsSent
<1>. QED
  BY <1>2, <1>9
-----------------------------------------------------------------------------
(* The inductive invariant of the exported stream: an outbox that is still
   being sealed, or a window of it that was exported and perhaps damaged.   *)

InOutbox(events, was) ==
    \E d : probe = [of |-> "stream", was |-> was, damage |-> d,
                    x |-> [events |-> events, anchors |-> NoChains, exported |-> FALSE, by |-> {}]]
InWindow(events, anchors, by, was) ==
    \E d : probe = [of |-> "stream", was |-> was, damage |-> d,
                    x |-> [events |-> events, anchors |-> anchors, exported |-> TRUE, by |-> by]]

WindowInv ==
    \/ probe = [of |-> "nothing"]
    \/ \E events, was : InOutbox(events, was) /\ Outbox(events, was)
    \/ \E events, anchors, by, was : InWindow(events, anchors, by, was) /\ Sent(events, anchors, by, was)

LEMMA NothingIsNoStream ==
    ASSUME probe = [of |-> "nothing"] PROVE ~Of("stream")
BY DEF Of

LEMMA OutboxFields ==
    ASSUME NEW events, NEW was, InOutbox(events, was)
    PROVE  /\ Of("stream") /\ ~Fresh /\ probe.was = was
           /\ Stream.events = events /\ Stream.anchors = NoChains /\ Stream.by = {} /\ ~Stream.exported
<1>1. PICK d : probe = [of |-> "stream", was |-> was, damage |-> d,
                        x |-> [events |-> events, anchors |-> NoChains, exported |-> FALSE, by |-> {}]]
  BY Zenon DEF InOutbox
<1>2. PICK x : x = [events |-> events, anchors |-> NoChains, exported |-> FALSE, by |-> {}]
  BY Zenon
<1>3. probe.of = "stream" /\ probe.was = was /\ probe.x = x
  BY <1>1, <1>2
<1>4. x.events = events /\ x.anchors = NoChains /\ x.by = {} /\ ~x.exported
  BY <1>2, Zenon
<1>. QED
  BY <1>3, <1>4 DEF Of, Fresh, Stream

LEMMA WindowFields ==
    ASSUME NEW events, NEW anchors, NEW by, NEW was, InWindow(events, anchors, by, was)
    PROVE  /\ Of("stream") /\ ~Fresh /\ probe.was = was
           /\ Stream.events = events /\ Stream.anchors = anchors /\ Stream.by = by /\ Stream.exported
<1>1. PICK d : probe = [of |-> "stream", was |-> was, damage |-> d,
                        x |-> [events |-> events, anchors |-> anchors, exported |-> TRUE, by |-> by]]
  BY Zenon DEF InWindow
<1>2. PICK x : x = [events |-> events, anchors |-> anchors, exported |-> TRUE, by |-> by]
  BY Zenon
<1>3. probe.of = "stream" /\ probe.was = was /\ probe.x = x
  BY <1>1, <1>2
<1>4. x.events = events /\ x.anchors = anchors /\ x.by = by /\ x.exported
  BY <1>2, Zenon
<1>. QED
  BY <1>3, <1>4 DEF Of, Fresh, Stream

LEMMA OutboxOpens ==
    ASSUME OpenOutbox PROVE WindowInv'
<1>1. PICK was : was = [t \in Partitions |-> Genesis]
  BY Zenon
<1>2. InOutbox(<<>>, was)'
  BY Zenon, <1>1 DEF OpenOutbox, Probe, InOutbox
<1>3. WasSealed(was) /\ \A t \in Partitions : was[t] = Genesis /\ Len(was[t]) = 0
  BY <1>1 DEF WasSealed, Genesis, Digests
<1>4. <<>> \in Seq({}) /\ Len(<<>>) = 0
  OBVIOUS
<1>5. Anchored(NoChains, was)
  BY DEF Anchored, NoChains
<1>6. \A t \in Partitions : Tip(<<>>, NoChains, 0, t) = was[t]
  <2>1. \A t : Base(NoChains, t) = Genesis
    BY DEF Base, NoChains
  <2>. QED
    BY <1>3, <2>1, TipStart
<1>7. Honest(<<>>, NoChains, was, 0)
  BY SMT, SMTT(30), <1>4, <1>6 DEF Honest
<1>8. Sent(<<>>, NoChains, {}, was)
  BY SMT, SMTT(30), <1>3, <1>4, <1>5, <1>7 DEF Sent
<1>9. Outbox(<<>>, was)
  BY SMT, SMTT(30), <1>3, <1>4, <1>7, <1>8 DEF Outbox
<1>. QED
  BY <1>2, <1>9 DEF WindowInv

\* A step on an outbox: the events and the chains as sealed change.
LEMMA OutboxSteps ==
    ASSUME NEW events, NEW was, InOutbox(events, was), NEW more, NEW t, NEW head,
           probe' = [probe EXCEPT !.x.events = more, !.was[t] = head]
    PROVE  InOutbox(more, [was EXCEPT ![t] = head])'
<1>1. PICK d : probe = [of |-> "stream", was |-> was, damage |-> d,
                        x |-> [events |-> events, anchors |-> NoChains, exported |-> FALSE, by |-> {}]]
  BY Zenon DEF InOutbox
<1>2. PICK now : now = [was EXCEPT ![t] = head]
  BY Zenon
<1>3. probe' = [of |-> "stream", was |-> now, damage |-> d,
                x |-> [events |-> more, anchors |-> NoChains, exported |-> FALSE, by |-> {}]]
  BY Zenon, <1>1, <1>2
<1>. QED
  BY Zenon, <1>2, <1>3 DEF InOutbox

LEMMA SealKeeps ==
    ASSUME WindowInv, NEW t \in Partitions, SealDecision(t) PROVE WindowInv'
<1>1. PICK events, was : InOutbox(events, was) /\ Outbox(events, was)
  BY Zenon, NothingIsNoStream, WindowFields DEF WindowInv, SealDecision
<1>2. Stream.events = events /\ probe.was = was /\ probe.x.events = events
  BY <1>1, OutboxFields DEF Stream
<1>3. PICK n : n = Len(events) + 1
  OBVIOUS
<1>4. PICK e : e = [tenant |-> t, kind |-> "DECISION_SEALED", payload |-> "DECISION_SEALED", id |-> n,
                    prev |-> was[t], digest |-> n, checksum |-> Link(was[t], n)]
  BY Zenon
<1>5. PICK more, now : more = Append(events, e) /\ now = [was EXCEPT ![t] = Link(was[t], n)]
  BY Zenon
<1>6. probe' = [probe EXCEPT !.x.events = more, !.was[t] = Link(was[t], n)]
  <2>1. probe' = [probe EXCEPT !.x.events = Append(@, e), !.was[t] = Link(was[t], n)]
    BY <1>2, <1>3, <1>4, Zenon DEF SealDecision
  <2>. QED
    BY <1>2, <1>5, <2>1
<1>7. InOutbox(more, now)'
  BY Zenon, <1>1, <1>5, <1>6, OutboxSteps
<1>8. Follows(e, n, was, now)
  BY Zenon, <1>1, <1>3, <1>4, <1>5, SealedNext
<1>9. Outbox(more, now)
  BY Zenon, <1>1, <1>3, <1>5, <1>8, OutboxGrows
<1>. QED
  BY <1>7, <1>9 DEF WindowInv

LEMMA AdviseKeeps ==
    ASSUME WindowInv, NEW t \in Partitions, Advise(t) PROVE WindowInv'
<1>1. PICK events, was : InOutbox(events, was) /\ Outbox(events, was)
  BY NothingIsNoStream, WindowFields DEF WindowInv, Advise
<1>2. Stream.events = events /\ probe.was = was /\ probe.x.events = events
  BY <1>1, OutboxFields DEF Stream
<1>3. PICK n : n = Len(events) + 1
  OBVIOUS
<1>0. PICK row \in AdvisoryRows :
        probe' = [probe EXCEPT !.x.events =
                     Append(@, [tenant |-> t, kind |-> row.kind, payload |-> row.payload, id |-> 0,
                                prev |-> Genesis, digest |-> None, checksum |-> None])]
  BY Zenon DEF Advise
<1>4. PICK e : e = [tenant |-> t, kind |-> row.kind, payload |-> row.payload, id |-> 0,
                    prev |-> Genesis, digest |-> None, checksum |-> None]
  BY Zenon
<1>5. PICK more : more = Append(events, e)
  BY Zenon
<1>6. probe' = [probe EXCEPT !.x.events = more]
  <2>1. probe' = [probe EXCEPT !.x.events = Append(@, e)]
    BY Zenon, <1>0, <1>4
  <2>. QED
    BY <1>2, <1>5, <2>1
<1>7. InOutbox(more, was)'
  <2>1. PICK d : probe = [of |-> "stream", was |-> was, damage |-> d,
                          x |-> [events |-> events, anchors |-> NoChains, exported |-> FALSE, by |-> {}]]
    BY Zenon, <1>1 DEF InOutbox
  <2>2. probe' = [of |-> "stream", was |-> was, damage |-> d,
                  x |-> [events |-> more, anchors |-> NoChains, exported |-> FALSE, by |-> {}]]
    BY Zenon, <1>6, <2>1
  <2>. QED
    BY Zenon, <2>2 DEF InOutbox
<1>8. Follows(e, n, was, was)
  BY Zenon, <1>1, <1>3, <1>4, AdvisedNext
<1>9. Outbox(more, was)
  BY Zenon, <1>1, <1>3, <1>5, <1>8, OutboxGrows
<1>. QED
  BY <1>7, <1>9 DEF WindowInv

LEMMA ExportKeeps ==
    ASSUME WindowInv, NEW w \in Nat, Export(w) PROVE WindowInv'
<1>1. PICK events, was : InOutbox(events, was) /\ Outbox(events, was)
  BY Zenon, NothingIsNoStream, WindowFields DEF WindowInv, Export
<1>2. Stream.events = events /\ probe.was = was /\ probe.x.events = events
  BY <1>1, OutboxFields DEF Stream
<1>3. PICK window : window = SubSeq(events, w + 1, Len(events))
  BY Zenon
<1>4. PICK anchors : anchors = [t \in {t \in Partitions : HeadAfter(events, w, t) # Genesis}
                                    |-> HeadAfter(events, w, t)]
  BY Zenon
<1>5. w <= Len(events) /\ probe' = [probe EXCEPT !.x.events = window, !.x.exported = TRUE, !.x.anchors = anchors]
  <2>1. PICK a : a = [t \in {t \in Partitions : HeadAfter(Stream.events, w, t) # Genesis}
                           |-> HeadAfter(Stream.events, w, t)]
    BY Zenon
  <2>2. a = anchors
    BY <1>2, <1>4, <2>1
  <2>3. /\ w <= Len(Stream.events)
        /\ probe' = [probe EXCEPT !.x.events = SubSeq(@, w + 1, Len(@)), !.x.exported = TRUE, !.x.anchors = a]
    BY <2>1, Zenon DEF Export
  <2>. QED
    BY <1>2, <1>3, <2>2, <2>3
<1>6. InWindow(window, anchors, {}, was)'
  <2>1. PICK d : probe = [of |-> "stream", was |-> was, damage |-> d,
                          x |-> [events |-> events, anchors |-> NoChains, exported |-> FALSE, by |-> {}]]
    BY Zenon, <1>1 DEF InOutbox
  <2>2. probe' = [of |-> "stream", was |-> was, damage |-> d,
                  x |-> [events |-> window, anchors |-> anchors, exported |-> TRUE, by |-> {}]]
    BY ZenonT(40), <1>5, <2>1
  <2>. QED
    BY Zenon, <2>2 DEF InWindow
<1>7. PICK S : events \in Seq(S)
  BY <1>1 DEF Outbox, Sent
<1>8. WindowOf(window, anchors, events, w, Len(events) - w)
  BY Zenon, <1>3, <1>4, <1>5, <1>7, ExportIsWindow
<1>9. Sent(window, anchors, {}, was)
  BY Zenon, <1>1, <1>8, WindowIsSent
<1>. QED
  BY <1>6, <1>9 DEF WindowInv

LEMMA SpoilKeeps ==
    ASSUME NEW events, NEW anchors, NEW by, NEW was, InWindow(events, anchors, by, was),
           NEW kind, NEW new, Spoil(kind, new), Sent(new, anchors, by \cup {kind}, was)
    PROVE  WindowInv'
<1>1. PICK d : probe = [of |-> "stream", was |-> was, damage |-> d,
                        x |-> [events |-> events, anchors |-> anchors, exported |-> TRUE, by |-> by]]
  BY Zenon DEF InWindow
<1>2. PICK x : x = [events |-> events, anchors |-> anchors, exported |-> TRUE, by |-> by]
  BY Zenon
<1>3. PICK y : y = [x EXCEPT !.events = new, !.by = @ \cup {kind}]
  OBVIOUS
<1>4. y = [events |-> new, anchors |-> anchors, exported |-> TRUE, by |-> by \cup {kind}]
  BY Zenon, <1>2, <1>3
<1>5. probe.x = x
  BY <1>1, <1>2
<1>6. probe' = [probe EXCEPT !.x = y, !.damage = @ + 1]
  BY <1>3, <1>5 DEF Spoil, Damaged, Stream
<1>7. probe' = [of |-> "stream", was |-> was, damage |-> d + 1, x |-> y]
  BY Zenon, <1>1, <1>6
<1>8. InWindow(new, anchors, by \cup {kind}, was)'
  BY Zenon, <1>4, <1>7 DEF InWindow
<1>. QED
  BY <1>8 DEF WindowInv

LEMMA DamageKeeps ==
    ASSUME WindowInv, DamageStream PROVE WindowInv'
<1>1. PICK events, anchors, by, was : InWindow(events, anchors, by, was) /\ Sent(events, anchors, by, was)
  BY Zenon, NothingIsNoStream, OutboxFields DEF WindowInv, DamageStream
<1>2. Stream.events = events
  BY <1>1, WindowFields
<1>. DEFINE Hit(i) ==
        \/ Spoil("drop", Without(events, i))
        \/ Spoil("repeat", Append(events, events[i]))
        \/ i < Len(events) /\ Spoil("swap", [events EXCEPT ![i] = events[i + 1], ![i + 1] = events[i]])
        \/ \E t \in Partitions \ {events[i].tenant} : Spoil("relabel", [events EXCEPT ![i].tenant = t])
        \/ \E kind \in {"LEARNING_DECISION", "A LATER KIND"} : Spoil("kind", [events EXCEPT ![i].kind = kind])
        \/ /\ IsLink(events[i])
           /\ \/ Spoil("strip", [events EXCEPT ![i].digest = None, ![i].checksum = None])
              \/ Spoil("rewrite", [events EXCEPT ![i].digest = 0])
              \/ Spoil("splice", Spliced(events, i))
<1>3. PICK i \in 1 .. Len(events) : Hit(i)
  BY Zenon, <1>2 DEF DamageStream
<1>4. PICK e : e = events[i]
  OBVIOUS
<1>5. Proper(e) /\ e.tenant \in Partitions /\ DOMAIN e = {"tenant", "kind", "payload", "id", "prev", "digest", "checksum"}
  BY Zenon, <1>1, <1>4 DEF Sent, Proper
<1>6. PICK S : events \in Seq(S)
  BY <1>1 DEF Sent
<1>7. ASSUME NEW kind, kind # "repeat", NEW f, Spoil(kind, [events EXCEPT ![i] = f]),
             DOMAIN f = DOMAIN e, f.tenant \in Partitions, f.checksum = e.checksum,
             f.tenant = e.tenant \/ kind = "relabel",
             IsLink(f) => IsLink(e) /\ f.digest \in Nat
      PROVE  WindowInv'
  <2>1. Sent([events EXCEPT ![i] = f], anchors, by \cup {kind}, was)
    BY Zenon, <1>1, <1>4, <1>7, FieldIsSent
  <2>. QED
    BY <1>1, <1>7, <2>1, SpoilKeeps
<1>10. CASE Spoil("drop", Without(events, i))
  BY Zenon, <1>1, <1>10, DropIsSent, SpoilKeeps
<1>11. CASE Spoil("repeat", Append(events, events[i]))
  BY Zenon, <1>1, <1>11, RepeatIsSent, SpoilKeeps
<1>12. CASE i < Len(events) /\ Spoil("swap", [events EXCEPT ![i] = events[i + 1], ![i + 1] = events[i]])
  <2>1. PICK new : new = [events EXCEPT ![i] = events[i + 1], ![i + 1] = events[i]]
    BY Zenon
  <2>2. Sent(new, anchors, by \cup {"swap"}, was)
    BY Zenon, <1>1, <1>12, <2>1, SwapIsSent
  <2>. QED
    BY Zenon, <1>1, <1>12, <2>1, <2>2, SpoilKeeps
<1>13. ASSUME NEW t \in Partitions, Spoil("relabel", [events EXCEPT ![i].tenant = t]) PROVE WindowInv'
  <2>1. PICK f : f = [e EXCEPT !.tenant = t]
    BY Zenon
  <2>2. [events EXCEPT ![i].tenant = t] = [events EXCEPT ![i] = f]
    BY <1>4, <2>1
  <2>3. DOMAIN f = DOMAIN e /\ f.tenant = t /\ f.checksum = e.checksum /\ f.digest = e.digest
    BY <1>5, <2>1
  <2>4. IsLink(f) => IsLink(e) /\ f.digest \in Nat
    BY <1>5, <2>3 DEF IsLink, Proper
  <2>. QED
    BY <1>7, <1>13, <2>2, <2>3, <2>4
<1>14. ASSUME NEW kind, Spoil("kind", [events EXCEPT ![i].kind = kind]) PROVE WindowInv'
  <2>1. PICK f : f = [e EXCEPT !.kind = kind]
    BY Zenon
  <2>2. [events EXCEPT ![i].kind = kind] = [events EXCEPT ![i] = f]
    BY <1>4, <2>1
  <2>3. DOMAIN f = DOMAIN e /\ f.tenant = e.tenant /\ f.checksum = e.checksum /\ f.digest = e.digest
    BY Zenon, <1>5, <2>1
  <2>4. IsLink(f) => IsLink(e) /\ f.digest \in Nat
    BY <1>5, <2>3 DEF IsLink, Proper
  <2>. QED
    BY Zenon, <1>5, <1>7, <1>14, <2>2, <2>3, <2>4
<1>15. CASE IsLink(events[i]) /\ Spoil("rewrite", [events EXCEPT ![i].digest = 0])
  <2>1. PICK f : f = [e EXCEPT !.digest = 0]
    BY Zenon
  <2>2. [events EXCEPT ![i].digest = 0] = [events EXCEPT ![i] = f]
    BY <1>4, <2>1
  <2>3. DOMAIN f = DOMAIN e /\ f.tenant = e.tenant /\ f.checksum = e.checksum /\ f.digest = 0
    BY <1>5, <2>1
  <2>. QED
    BY SMT, SMTT(30), <1>4, <1>5, <1>7, <1>15, <2>2, <2>3
<1>16. CASE Spoil("strip", [events EXCEPT ![i].digest = None, ![i].checksum = None])
  <2>1. PICK f : f = [e EXCEPT !.digest = None, !.checksum = None]
    OBVIOUS
  <2>2. [events EXCEPT ![i].digest = None, ![i].checksum = None] = [events EXCEPT ![i] = f]
    BY Zenon, <1>4, <1>6, <2>1
  <2>3. DOMAIN f = DOMAIN e /\ f.tenant = e.tenant /\ ~IsLink(f)
    BY Zenon, <1>5, <2>1 DEF IsLink
  <2>4. Proper(f) /\ Rooted(f, by \cup {"strip"}, was)
    BY <1>5, <2>3 DEF Proper, Rooted
  <2>5. Sent([events EXCEPT ![i] = f], anchors, by \cup {"strip"}, was)
    BY Zenon, <1>1, <2>4, ChangedIsSent
  <2>. QED
    BY <1>1, <1>16, <2>2, <2>5, SpoilKeeps
<1>17. CASE Spoil("splice", Spliced(events, i))
  BY Zenon, <1>1, <1>17, SpliceIsSent, SpoilKeeps
<1>. QED
  BY Zenon, <1>3, <1>10, <1>11, <1>12, <1>13, <1>14, <1>15, <1>16, <1>17

\* Every step keeps the invariant.
LEMMA WindowInvStep ==
    ASSUME WindowInv, [WindowNext]_probe PROVE WindowInv'
<1>1. CASE OpenOutbox
  BY <1>1, OutboxOpens
<1>2. ASSUME NEW t \in Partitions, SealDecision(t) \/ Advise(t) PROVE WindowInv'
  BY <1>2, SealKeeps, AdviseKeeps
<1>3. ASSUME NEW w \in 0 .. MaxEvents, Export(w) PROVE WindowInv'
  BY <1>3, ExportKeeps
<1>4. CASE DamageStream
  BY Zenon, <1>4, DamageKeeps
<1>5. CASE UNCHANGED probe
  BY ZenonT(40), <1>5 DEF WindowInv, InOutbox, InWindow
<1>. QED
  BY <1>1, <1>2, <1>3, <1>4, <1>5 DEF WindowNext
-----------------------------------------------------------------------------
(* What the invariant says of the walk. *)

\* An accepted window: every chain grew from its start to the checksum of one
\* of its tenant's links.
LEMMA AcceptedGrows ==
    ASSUME NEW events, NEW anchors, NEW by, NEW was, Sent(events, anchors, by, was),
           NEW r, r = ChainByTenant(events, anchors), ~IsRefusal(r)
    PROVE  \A t \in DOMAIN r.answer :
              /\ t \in Partitions /\ Grown(r.answer[t], Base(anchors, t))
              /\ \E i \in 1 .. Len(events) :
                    /\ events[i].tenant = t /\ IsLink(events[i])
                    /\ RunningHead(r.answer[t]) = events[i].checksum
<1>1. Wired(events, anchors)
  BY SentIsWired
<1>2. PICK N : N = Len(events) /\ N \in Nat /\ N \in 0 .. Len(events)
  BY <1>1 DEF Wired
<1>3. r = Walk(events, anchors)[N]
  BY <1>2, Refusals DEF ChainByTenant
<1>4. ChainsGrown(r.answer, events, anchors, N)
  BY Zenon, <1>1, <1>2, <1>3, WalkGrows
<1>5. \A i \in 1 .. Len(events) : events[i].tenant \in Partitions
  BY ZenonT(40) DEF Sent, Proper
<1>. QED
  BY <1>2, <1>4, <1>5 DEF ChainsGrown

\* A window as it was sealed is followed to the end of every chain.
LEMMA SentIsFollowed ==
    ASSUME NEW events, NEW anchors, NEW by, NEW was, Sent(events, anchors, by, was), by \subseteq {"repeat"},
           NEW r, r = ChainByTenant(events, anchors)
    PROVE  ~IsRefusal(r) /\ \A t \in DOMAIN r.answer : RunningHead(r.answer[t]) = was[t]
<1>1. Wired(events, anchors)
  BY SentIsWired
<1>2. PICK m : Honest(events, anchors, was, m)
  BY Zenon DEF Sent
<1>3. ~IsRefusal(r) /\ \A t \in DOMAIN r.answer : t \in Partitions => RunningHead(r.answer[t]) = was[t]
  BY SMT, SMTT(30), <1>1, <1>2, HonestWalk
<1>. QED
  BY <1>3, AcceptedGrows

\* Short of a splice an accepted chain is a piece of a sealed one; the first
\* digest of an anchor tells whose.
LEMMA AcceptedIsSealed ==
    ASSUME NEW events, NEW anchors, NEW by, NEW was, Sent(events, anchors, by, was), "splice" \notin by,
           NEW r, r = ChainByTenant(events, anchors), ~IsRefusal(r), NEW t \in DOMAIN r.answer
    PROVE  \E u \in Partitions :
              /\ Begins(RunningHead(r.answer[t]), was[u])
              /\ u = t \/ ("relabel" \in by /\ t \notin DOMAIN anchors)
<1>1. PICK chain, head, base : chain = r.answer[t] /\ head = RunningHead(r.answer[t]) /\ base = Base(anchors, t)
  BY Zenon
<1>2. PICK i \in 1 .. Len(events) : events[i].tenant = t /\ IsLink(events[i]) /\ head = events[i].checksum
  BY <1>1, AcceptedGrows
<1>3. t \in Partitions /\ Grown(chain, base)
  BY Zenon, <1>1, AcceptedGrows
<1>4. PICK u \in Partitions : Begins(head, was[u]) /\ (u = t \/ "relabel" \in by)
  BY Zenon, <1>2 DEF Sent, Rooted
<1>5. ASSUME t \in DOMAIN anchors PROVE u = t
  <2>1. base \in Digests /\ Len(base) >= 1 /\ Begins(base, was[t])
    BY <1>1, <1>5 DEF Base, Sent, Anchored
  <2>2. PICK L : L = Len(chain.heads)
    BY ZenonT(40)
  <2>3. L \in Nat /\ L >= 1 /\ chain.heads[1] = base /\ head = chain.heads[L] /\ head \in Digests
    BY SMT, SMTT(30), <1>1, <1>3, <2>2 DEF Grown, RunningHead
  <2>4. Begins(base, head)
    <3>1. 1 \in 1 .. L
      BY <2>3
    <3>. QED
      BY Zenon, <1>3, <2>2, <2>3, <3>1 DEF Grown
  <2>5. was[t] \in Digests /\ was[u] \in Digests
    BY Zenon, <1>3 DEF Sent, WasSealed
  <2>6. Len(was[t]) \in Nat /\ Len(was[u]) \in Nat /\ Len(base) \in Nat /\ Len(head) \in Nat
    BY SMT, SMTT(30), <2>1, <2>3, <2>5 DEF Digests
  <2>7. Len(head) >= 1 /\ base[1] = head[1]
    BY <2>1, <2>4, <2>6 DEF Begins
  <2>8. Len(was[t]) >= 1 /\ base[1] = was[t][1]
    BY SMT, SMTT(30), <2>1, <2>6 DEF Begins
  <2>9. Len(was[u]) >= 1 /\ head[1] = was[u][1]
    BY SMT, SMTT(30), <1>4, <2>6, <2>7 DEF Begins
  <2>. QED
    BY ZenonT(40), <1>3, <2>7, <2>8, <2>9 DEF Sent, WasSealed
<1>. QED
  BY Zenon, <1>1, <1>4, <1>5

\* What an attestation of length n says of a grown chain.
LEMMA HeldIsPrefix ==
    ASSUME NEW chains, NEW t \in DOMAIN chains, NEW base \in Digests, Grown(chains[t], base),
           NEW n \in Nat, NEW head, CheckNotTruncated(chains, [tenant |-> t, len |-> n, head |-> head])
    PROVE  n < chains[t].base_len \/ Begins(head, RunningHead(chains[t]))
<1>1. PICK chain, L : chain = chains[t] /\ L = Len(chain.heads)
  BY Zenon
<1>2. /\ L \in Nat /\ L >= 1 /\ DOMAIN chain.heads = 1 .. L /\ chain.base_len \in Nat
      /\ \A k \in 1 .. L : Begins(chain.heads[k], RunningHead(chain))
  <2>1. L \in Nat /\ L >= 1 /\ DOMAIN chain.heads = 1 .. L
    BY SMT, SMTT(30), <1>1 DEF Grown
  <2>2. chain.base_len \in Nat
    BY SMT, SMTT(30), <1>1 DEF Grown, Digests
  <2>3. \A k \in 1 .. L : Begins(chain.heads[k], RunningHead(chain))
    BY SMT, SMTT(30), <1>1 DEF Grown, RunningHead
  <2>. QED
    BY ZenonT(40), <2>1, <2>2, <2>3
<1>3. PICK k : k = n - chain.base_len + 1
  BY Zenon
<1>4. /\ n <= chain.base_len + L - 1
      /\ n >= chain.base_len /\ k \in 1 .. L => chain.heads[k] = head
  BY <1>1, <1>2, <1>3 DEF CheckNotTruncated, HeadIndex
<1>. QED
  BY SMT, SMTT(30), <1>1, <1>2, <1>3, <1>4

\* A chain that was followed to its end passes every attestation of it.
LEMMA SealedIsHeld ==
    ASSUME NEW chains, NEW t \in DOMAIN chains, NEW base \in Digests, Grown(chains[t], base),
           NEW sealed \in Digests, RunningHead(chains[t]) = sealed, NEW n \in 1 .. Len(sealed)
    PROVE  CheckNotTruncated(chains, [tenant |-> t, len |-> n, head |-> SubSeq(sealed, 1, n)])
<1>1. PICK chain, L : chain = chains[t] /\ L = Len(chain.heads)
  BY Zenon
<1>2. /\ L \in Nat /\ L >= 1 /\ DOMAIN chain.heads = 1 .. L /\ chain.base_len = Len(base) /\ Len(base) \in Nat
      /\ \A k \in 1 .. L : /\ Begins(chain.heads[k], sealed) /\ chain.heads[k] \in Digests
                           /\ Len(chain.heads[k]) = Len(base) + k - 1
      /\ sealed = chain.heads[L]
  <2>1. L \in Nat /\ L >= 1 /\ DOMAIN chain.heads = 1 .. L /\ \A k \in 1 .. L : chain.heads[k] \in Digests
    BY SMT, SMTT(30), <1>1 DEF Grown
  <2>2. chain.base_len = Len(base) /\ Len(base) \in Nat
    BY <1>1 DEF Grown, Digests
  <2>3. sealed = chain.heads[L]
    BY <1>1 DEF RunningHead
  <2>4. \A k \in 1 .. L : Begins(chain.heads[k], sealed) /\ Len(chain.heads[k]) = Len(base) + k - 1
    BY Zenon, <1>1, <2>3 DEF Grown
  <2>. QED
    BY Zenon, <2>1, <2>2, <2>3, <2>4
<1>3. PICK attested : attested = SubSeq(sealed, 1, n)
  BY Zenon
<1>4. Len(sealed) \in Nat /\ attested \in Digests /\ Len(attested) = n /\ \A i \in 1 .. n : attested[i] = sealed[i]
  BY SMT, SMTT(30), <1>3 DEF Digests
<1>5. Len(sealed) = Len(base) + L - 1
  BY <1>2
<1>6. PICK k : k = n - chain.base_len + 1
  OBVIOUS
<1>7. ASSUME k \in 1 .. L PROVE chain.heads[k] = attested
  <2>1. PICK h : h = chain.heads[k]
    BY Zenon
  <2>2. h \in Digests /\ Len(h) = n /\ Begins(h, sealed)
    <3>1. h \in Digests /\ Len(h) = Len(base) + k - 1 /\ Begins(h, sealed)
      BY <1>2, <1>7, <2>1
    <3>. QED
      BY SMT, SMTT(30), <1>2, <1>6, <3>1
  <2>3. \A i \in 1 .. n : h[i] = attested[i]
    BY Zenon, <1>4, <2>2 DEF Begins
  <2>4. h = attested
    BY SMT, SMTT(30), <1>4, <2>2, <2>3 DEF Digests
  <2>. QED
    BY Zenon, <2>1, <2>4
<1>8. n <= chain.base_len + L - 1
  BY SMT, SMTT(30), <1>2, <1>4, <1>5
<1>. QED
  BY Zenon, <1>1, <1>2, <1>3, <1>6, <1>7, <1>8 DEF CheckNotTruncated, HeadIndex

\* The walk is exact wherever the invariant holds.
LEMMA WalkFromInv ==
    ASSUME WindowInv PROVE WalkIsExact
<1>. SUFFICES ASSUME Exported PROVE WalkIsExact
  BY Zenon DEF WalkIsExact, HonestStreamAccepted, WalkFollowsChain
<1>1. PICK events, anchors, by, was : InWindow(events, anchors, by, was) /\ Sent(events, anchors, by, was)
  BY NothingIsNoStream, OutboxFields DEF WindowInv, Exported
<1>2. /\ Stream.events = events /\ Stream.anchors = anchors /\ Stream.by = by /\ probe.was = was
  BY <1>1, WindowFields
<1>3. PICK r : r = ChainByTenant(events, anchors)
  OBVIOUS
<1>4. Walked = r /\ (Accepted <=> ~IsRefusal(r))
  BY ZenonT(40), <1>2, <1>3 DEF Walked, Accepted
<1>5. ASSUME by \subseteq {"repeat"}
      PROVE  ~IsRefusal(r) /\ \A t \in DOMAIN r.answer : RunningHead(r.answer[t]) = was[t]
  BY SMT, SMTT(30), <1>1, <1>3, <1>5, SentIsFollowed
<1>6. ASSUME "splice" \notin by, ~IsRefusal(r), NEW t \in DOMAIN r.answer
      PROVE  \E u \in Partitions :
                /\ Begins(RunningHead(r.answer[t]), was[u])
                /\ u = t \/ ("relabel" \in by /\ t \notin DOMAIN anchors)
  BY SMT, SMTT(30), <1>1, <1>3, <1>6, AcceptedIsSealed
<1>7. HonestStreamAccepted
  BY Zenon, <1>2, <1>4, <1>5 DEF HonestStreamAccepted
<1>8. WalkFollowsChain
  BY Zenon, <1>2, <1>4, <1>6 DEF WalkFollowsChain
<1>. QED
  BY Zenon, <1>7, <1>8 DEF WalkIsExact

\* Attestations hold wherever the invariant does.
LEMMA AttestedFromInv ==
    ASSUME WindowInv PROVE AttestedPrefixHeld
<1>. SUFFICES ASSUME Exported, Accepted, NEW t \in Partitions, NEW n \in 1 .. Len(probe.was[t])
              PROVE  LET chains == Walked.answer
                         attested == SubSeq(probe.was[t], 1, n)
                         held == CheckNotTruncated(chains, [tenant |-> t, len |-> n, head |-> attested])
                     IN  /\ held => /\ t \in DOMAIN chains
                                    /\ n < chains[t].base_len \/ Begins(attested, RunningHead(chains[t]))
                         /\ Stream.by \subseteq {"repeat"} /\ t \in DOMAIN chains => held
  BY Zenon DEF AttestedPrefixHeld
<1>1. PICK events, anchors, by, was : InWindow(events, anchors, by, was) /\ Sent(events, anchors, by, was)
  BY NothingIsNoStream, OutboxFields DEF WindowInv, Exported
<1>2. Stream.events = events /\ Stream.anchors = anchors /\ Stream.by = by /\ probe.was = was
  BY <1>1, WindowFields
<1>3. PICK r, chains : r = ChainByTenant(events, anchors) /\ chains = r.answer
  OBVIOUS
<1>4. Walked = r /\ ~IsRefusal(r) /\ Walked.answer = chains
  BY <1>2, <1>3 DEF Walked, Accepted
<1>5. PICK sealed, attested : sealed = was[t] /\ attested = SubSeq(sealed, 1, n)
  BY ZenonT(40)
<1>6. sealed \in Digests /\ n \in 1 .. Len(sealed) /\ n \in Nat /\ n >= 1
  BY SMT, SMTT(30), <1>1, <1>2, <1>5 DEF Sent, WasSealed
<1>7. PICK base : base = Base(anchors, t)
  OBVIOUS
<1>8. ASSUME t \in DOMAIN chains PROVE base \in Digests /\ Grown(chains[t], base)
  <2>1. Grown(chains[t], base)
    <3>1. \A u \in DOMAIN r.answer : Grown(r.answer[u], Base(anchors, u))
      BY Zenon, <1>1, <1>3, <1>4, AcceptedGrows
    <3>. QED
      BY Zenon, <1>3, <1>7, <1>8, <3>1
  <2>2. Genesis \in Digests
    BY DEF Genesis, Digests
  <2>3. base \in Digests
    BY Zenon, <1>1, <1>7, <2>2 DEF Base, Sent, Anchored
  <2>. QED
    BY ZenonT(40), <2>1, <2>3
<1>9. ASSUME CheckNotTruncated(chains, [tenant |-> t, len |-> n, head |-> attested])
      PROVE  t \in DOMAIN chains /\ (n < chains[t].base_len \/ Begins(attested, RunningHead(chains[t])))
  <2>1. t \in DOMAIN chains
    BY <1>6, <1>9 DEF CheckNotTruncated
  <2>. QED
    BY ZenonT(40), <1>6, <1>8, <1>9, <2>1, HeldIsPrefix
<1>10. ASSUME by \subseteq {"repeat"}, t \in DOMAIN chains
       PROVE  CheckNotTruncated(chains, [tenant |-> t, len |-> n, head |-> attested])
  <2>1. RunningHead(chains[t]) = sealed
    <3>1. HonestStreamAccepted
      BY WalkFromInv DEF WalkIsExact
    <3>. QED
      BY Zenon, <1>2, <1>3, <1>4, <1>5, <1>10, <3>1 DEF HonestStreamAccepted
  <2>. QED
    BY Zenon, <1>5, <1>6, <1>8, <1>10, <2>1, SealedIsHeld
<1>. QED
  BY <1>2, <1>4, <1>5, <1>9, <1>10, Zenon

LEMMA WindowInvHolds == WindowSpec => []WindowInv
<1>1. Unprobed => WindowInv
  BY DEF Unprobed, WindowInv
<1>2. WindowInv /\ [WindowNext]_probe => WindowInv'
  BY WindowInvStep
<1>. QED
  BY <1>1, <1>2, PTL DEF WindowSpec

\* The chain walk is exact for any tenants and any number of events sealed,
\* wherever the window starts and however it is damaged and delivered again:
\* what was sealed is accepted and followed to its end, and what is accepted
\* was sealed (dedup, check_kind_payload, chain_by_tenant).
THEOREM WalkExact == WindowSpec => []WalkIsExact
<1>1. WindowInv => WalkIsExact
  BY Zenon, WalkFromInv
<1>. QED
  BY <1>1, WindowInvHolds, PTL

\* An attestation of any length of a sealed chain holds of an accepted window
\* only if the window shows it, spliced windows included, and holds of every
\* window as sealed that shows the tenant (check_not_truncated).
THEOREM AttestationHolds == WindowSpec => []AttestedPrefixHeld
<1>1. WindowInv => AttestedPrefixHeld
  BY AttestedFromInv
<1>. QED
  BY <1>1, WindowInvHolds, PTL
=============================================================================
