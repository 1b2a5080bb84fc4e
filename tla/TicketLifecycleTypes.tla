------------------------ MODULE TicketLifecycleTypes -------------------------
(***************************************************************************)
(* The inductive invariant of the ticket lifecycle, and the proof that every *)
(* action keeps its variables in their types, for any number of threads or *)
(* tasks, identities, tickets and attempts; and what the steps of a caller *)
(* keep of its budget of RPCs and of the tickets it gave up.               *)
(***************************************************************************)
EXTENDS AioTicketLifecycle, TLAPS

-------------------------------------------------------------------------------
(* The inductive invariant. *)

\* A thread that wants or holds a lock has a signer; an idle one has no history.
ControlInv ==
    \A p \in Procs :
        /\ pc[p] \in {"lockTicket", "lockRefresh", "lockForget"} => signer[p] \in Aids
        /\ pc[p] = "idle" => burned[p] = {} /\ ticket[p] = NoTicket
        /\ burned[p] # {} => kind[p] \in Guarded
        /\ pc[p] # "idle" => kind[p] \in AllKinds

\* Tickets in hand, in a cache or in a burned signature are minted, and for the
\* right identity.
TicketInv ==
    /\ \A t \in 1..minted : owner[t] \in Aids
    /\ \A p \in Procs : ticket[p] # NoTicket =>
          ticket[p] \in 1..minted /\ owner[ticket[p]] = signer[p]
    /\ \A p \in Procs :
          \/ pc[p] = "send" /\ signer[p] # None
          \/ pc[p] \in {"store", "lockRefresh", "lockForget"}
          => ticket[p] # NoTicket
    /\ \A a \in Aids : cache[a] # NoTicket =>
          cache[a] \in 1..minted /\ owner[cache[a]] = a
    /\ \A p \in Procs : burned[p] \subseteq 1..minted

\* The ticket on its way into the cache is known to nobody else.
FreshInv ==
    \A p \in Procs : pc[p] = "store" =>
        /\ \A q \in Procs : ticket[p] \notin burned[q] /\ (q # p => ticket[q] # ticket[p])
        /\ \A a \in Aids : cache[a] # ticket[p]

\* The handshake of a lazy admit or of a refresh starts from no usable ticket, and
\* the lock keeps it so; a ticket given up has a reason.
GiveUpInv ==
    /\ \A p \in Procs : pc[p] \in Holding /\ kind[p] # "admit" => Get(signer[p]) = NoTicket
    /\ \A p \in Procs : pc[p] \in {"lockRefresh", "lockForget"} => ticket[p] \in retired
    /\ \A a \in Aids : stale[a] => cache[a] # NoTicket /\ cache[a] \in retired

\* A ticket that has burned this operation's bytes is not the usable cached one,
\* unless the thread is about to drop it, or will not send these bytes again.
BurnedInv ==
    \A p \in Procs : \A t \in burned[p] :
        signer[p] # None /\ Get(signer[p]) = t =>
            \/ pc[p] \in {"lockRefresh", "lockForget"} /\ ticket[p] = t
            \/ pc[p] = "returned" /\ answer[p] # "unavailable"

IndInv ==
    /\ TypeOK
    /\ LockDiscipline
    /\ ControlInv
    /\ TicketInv
    /\ FreshInv
    /\ GiveUpInv
    /\ NoGoodTicketDiscarded
    /\ BurnedInv
    /\ NoReplayedBytes
-------------------------------------------------------------------------------
(* The RPCs of a call, and the tickets it gave up: what each caller keeps. *)

\* The RPCs a call has spent before its ticket, and before its resend.
Before(p) == IF kind[p] \in Presenting THEN 1 ELSE 0
Resend(p) == IF resent[p] THEN 3 ELSE 0

\* What a call has spent, by its control point.
Spent(p) ==
    CASE pc[p] \in {"idle", "present"} -> 0
      [] pc[p] \in {"lockTicket", "handshake"} -> Before(p) + Resend(p)
      [] pc[p] = "store" -> Before(p) + Resend(p) + 2
      [] pc[p] = "send" -> Before(p) + Resend(p) + (IF signer[p] = None THEN 0 ELSE 2)
      [] pc[p] = "lockRefresh" -> 3
      [] OTHER -> RpcBudget(kind[p])

WireOk(p) ==
    /\ wire[p] <= Spent(p)
    /\ resent[p] => RefreshesOnce(kind[p])
    /\ pc[p] \in {"idle", "present", "lockTicket", "lockRefresh"} => ~resent[p]
    /\ pc[p] = "lockRefresh" => RefreshesOnce(kind[p])
    /\ pc[p] = "present" => kind[p] \in Presenting /\ ticket[p] = NoTicket
    /\ kind[p] = "run" => signer[p] = None
    /\ kind[p] = "admit" => pc[p] \in Holding \cup {"idle", "lockTicket", "returned"}
    /\ pc[p] # "idle" /\ kind[p] = "admit" => signer[p] # None
    /\ pc[p] \in Holding => signer[p] # None

WireInv == \A p \in Procs : WireOk(p)

\* A step of one caller leaves the others where they are.
LEMMA OthersStay ==
    ASSUME TypeOK, NEW p \in Procs, StartCall(p) \/ Retry(p) \/ Finish(p) \/ Step(p) \/ Cancel(p),
           NEW q \in Procs, q # p
    PROVE  /\ pc'[q] = pc[q] /\ kind'[q] = kind[q] /\ signer'[q] = signer[q]
           /\ ticket'[q] = ticket[q] /\ resent'[q] = resent[q] /\ wire'[q] = wire[q]
           /\ answer'[q] = answer[q]
<1>. USE DEF TypeOK, GoTo, Return, CountRpcs, historyVars, serverVars
<1>1. CASE StartCall(p)
  BY <1>1 DEF StartCall, Start
<1>2. CASE Retry(p) \/ Finish(p)
  BY <1>2 DEF Retry, Finish
<1>3. CASE Present(p) \/ PresentRefused(p) \/ Forget(p) \/ Cancel(p)
  BY <1>3 DEF Present, PresentRefused, Forget, Cancel
<1>4. CASE TakeCached(p) \/ BeginAdmit(p) \/ AdoptRefreshed(p) \/ BeginReadmit(p)
  BY <1>4 DEF TakeCached, BeginAdmit, AdoptRefreshed, BeginReadmit
<1>5. CASE Admit(p) \/ AdmitLost(p) \/ AdmitRefused(p) \/ Store(p)
  BY <1>5 DEF Admit, AdmitLost, AdmitRefused, Store
<1>6. CASE Send(p)
  BY <1>6 DEF Send
<1>. QED
  BY <1>1, <1>2, <1>3, <1>4, <1>5, <1>6 DEF Step

\* A client that has made no call has spent nothing.
LEMMA InitWire == Init => WireInv
<1>. SUFFICES ASSUME Init, NEW p \in Procs PROVE WireOk(p)
  BY DEF WireInv
<1>1. wire[p] = 0 /\ pc[p] = "idle" /\ kind[p] = None /\ ~resent[p] /\ signer[p] = None
  BY DEF Init
<1>2. Spent(p) = 0
  BY Zenon, <1>1 DEF Spent
<1>. QED
  BY <1>1, <1>2, ConstantsAssumption DEF WireOk, Holding

\* Every step of a caller keeps its account.
LEMMA CallerWire ==
    ASSUME TypeOK, ControlInv, WireInv, NEW p \in Procs,
           StartCall(p) \/ Retry(p) \/ Finish(p) \/ Step(p) \/ Cancel(p)
    PROVE  WireOk(p)'
<1>. WireOk(p)
  BY DEF WireInv
<1>. USE ConstantsAssumption DEF TypeOK, GoTo, Return, CountRpcs, historyVars, serverVars, WireOk,
     Spent, Before, Resend, RpcBudget, RefreshesOnce, Presenting, Holding
<1>1. CASE StartCall(p)
  <2>1. PICK k \in AllKinds : Start(p, k)
    BY <1>1 DEF StartCall
  <2>2. PICK s \in SignersOf(k) : /\ kind'[p] = k /\ signer'[p] = s /\ pc'[p] = Entry(k, s)
                                  /\ wire'[p] = wire[p] /\ resent'[p] = resent[p]
                                  /\ ticket'[p] = ticket[p] /\ pc[p] = "idle"
    BY <2>1 DEF Start
  <2>3. wire[p] = 0 /\ ~resent[p] /\ ticket[p] = NoTicket
    BY <2>2 DEF ControlInv
  <2>4. /\ k = "run" => s = None
        /\ k = "admit" => s # None
    BY <2>2 DEF SignersOf
  <2>. QED
    BY <2>2, <2>3, <2>4 DEF Entry, Unpresented, AllKinds
<1>2. CASE Retry(p)
  BY <1>2 DEF Retry, Entry, Unpresented, AllKinds
<1>3. CASE Finish(p)
  BY <1>3 DEF Finish
<1>4. CASE Present(p) \/ PresentRefused(p)
  BY <1>4 DEF Present, PresentRefused, Unpresented
<1>5. CASE TakeCached(p) \/ BeginAdmit(p)
  BY <1>5 DEF TakeCached, BeginAdmit, LockFree
<1>6. CASE AdoptRefreshed(p) \/ BeginReadmit(p)
  BY SMT, SMTT(30), <1>6 DEF AdoptRefreshed, BeginReadmit, LockFree
<1>7. CASE Admit(p) \/ AdmitLost(p) \/ AdmitRefused(p)
  BY <1>7 DEF Admit, AdmitLost, AdmitRefused
<1>8. CASE Store(p)
  BY <1>8 DEF Store
<1>9. CASE Send(p)
  BY <1>9 DEF Send, AfterAnswer
<1>10. CASE Forget(p) \/ Cancel(p)
  BY <1>10 DEF Forget, Cancel
<1>. QED
  BY Zenon, <1>1, <1>2, <1>3, <1>4, <1>5, <1>6, <1>7, <1>8, <1>9, <1>10 DEF Step

\* A step of any caller keeps refused tickets out of the cache.
LEMMA CallerDrops ==
    ASSUME IndInv, WireInv, RefusedTicketDropped, NEW p \in Procs,
           StartCall(p) \/ Retry(p) \/ Finish(p) \/ Step(p) \/ Cancel(p)
    PROVE  RefusedTicketDropped'
<1>a. TypeOK
  BY DEF IndInv
<1>b. WireOk(p)
  BY DEF WireInv
<1>c. ASSUME NEW q \in Procs, q # p
      PROVE  /\ pc'[q] = pc[q] /\ kind'[q] = kind[q] /\ signer'[q] = signer[q]
             /\ ticket'[q] = ticket[q] /\ answer'[q] = answer[q]
  BY <1>a, <1>c, OthersStay
<1>. USE <1>a DEF TypeOK, GoTo, Return, historyVars, serverVars, RefusedTicketDropped, Get
<1>1. CASE StartCall(p)
  BY SMT, SMTT(30), <1>1 DEF StartCall, Start, Entry, Unpresented
<1>2. CASE Retry(p)
  BY <1>2 DEF Retry, Entry, Unpresented
<1>3. CASE Finish(p)
  BY <1>3 DEF Finish
<1>4. CASE Present(p)
  BY <1>4 DEF Present, Unpresented
<1>5. CASE PresentRefused(p)
  <2>1. cache' = cache /\ stale' = stale /\ signer' = signer /\ ticket' = ticket /\ kind' = kind
    BY <1>5 DEF PresentRefused
  <2>2. ticket[p] = NoTicket
    BY <1>5, <1>b DEF PresentRefused, WireOk
  <2>. QED
    BY <2>1, <2>2, <1>c
<1>6. CASE TakeCached(p)
  BY <1>6 DEF TakeCached
<1>7. CASE BeginAdmit(p)
  BY <1>7 DEF BeginAdmit
<1>8. CASE AdoptRefreshed(p)
  BY <1>8 DEF AdoptRefreshed
<1>9. CASE BeginReadmit(p)
  BY ZenonT(40), <1>9 DEF BeginReadmit, SetCache, LockFree
<1>10. CASE Admit(p)
  BY <1>10 DEF Admit
<1>11. CASE AdmitLost(p)
  BY <1>11 DEF AdmitLost
<1>12. CASE AdmitRefused(p)
  <2>1. cache' = cache /\ stale' = stale /\ signer' = signer /\ ticket' = ticket /\ kind' = kind
    BY Zenon, <1>12 DEF AdmitRefused
  <2>2. kind[p] # "admit" => Get(signer[p]) = NoTicket
    BY Zenon, <1>12 DEF AdmitRefused, IndInv, GiveUpInv, Holding
  <2>. QED
    BY <2>1, <2>2, <1>c DEF Guarded
<1>13. CASE Store(p)
  <2>1. signer[p] \in Aids
    BY Zenon, <1>13, <1>b DEF Store, WireOk, Holding
  <2>2. /\ \A a \in Aids \ {signer[p]} : cache'[a] = cache[a] /\ stale'[a] = stale[a]
        /\ ~stale'[signer[p]] /\ cache'[signer[p]] \in {ticket[p], NoTicket}
    BY <1>13, <2>1 DEF Store, SetCache
  <2>3. \A q \in Procs : q # p => ticket[q] # ticket[p]
    BY <1>13 DEF Store, IndInv, FreshInv
  <2>4. kind'[p] = kind[p] /\ (pc'[p] = "returned" => kind[p] = "admit")
    BY <1>13 DEF Store
  <2>5. \A q \in Procs : signer[q] # None => signer[q] \in Aids
    OBVIOUS
  <2>. HIDE <1>a DEF TypeOK, GoTo, Return, historyVars, serverVars
  <2>6. SUFFICES ASSUME NEW q \in Procs, q # p, pc[q] = "returned", signer[q] \in Aids,
                        ticket[q] # NoTicket, Get(signer[q]) # ticket[q]
                 PROVE  (IF stale'[signer[q]] THEN NoTicket ELSE cache'[signer[q]]) # ticket[q]
    BY SMT, SMTT(30), <2>4, <2>5, <1>c DEF Guarded
  <2>7. CASE signer[q] = signer[p]
    BY <2>2, <2>3, <2>6, <2>7
  <2>8. CASE signer[q] # signer[p]
    BY <2>2, <2>6, <2>8
  <2>. QED
    BY Zenon, <2>7, <2>8
<1>14. CASE Send(p)
  BY SMT, SMTT(30), <1>14 DEF Send, AfterAnswer, RefreshesOnce
<1>15. CASE Forget(p)
  BY SMT, SMTT(30), <1>15 DEF Forget, StillCached, SetCache, LockFree
<1>16. CASE Cancel(p)
  BY <1>16 DEF Cancel
<1>. HIDE <1>a DEF TypeOK, GoTo, Return, historyVars, serverVars, RefusedTicketDropped, Get
<1>. QED
  BY <1>1, <1>2, <1>3, <1>4, <1>5, <1>6, <1>7, <1>8, <1>9, <1>10, <1>11, <1>12, <1>13,
     <1>14, <1>15, <1>16 DEF Step

-------------------------------------------------------------------------------
(* Type correctness of every action. *)

\* get hands out a ticket or none.
LEMMA GetType ==
    ASSUME TypeOK, NEW a \in Aids
    PROVE  Get(a) \in Tickets \cup {NoTicket}
BY DEF TypeOK, Get

LEMMA StartCallType ==
    ASSUME IndInv, NEW p \in Procs, StartCall(p)
    PROVE  TypeOK'
<1>. USE SMT, SMTT(60) DEF IndInv
<1>a. \A k \in Kinds : SignersOf(k) \subseteq Aids \cup {None}
  BY DEF SignersOf
<1>1. kind' \in [Procs -> AllKinds \cup {None}]
  BY ConstantsAssumption DEF StartCall, Start, Entry, Unpresented, SignersOf, GoTo, TypeOK
<1>2. signer' \in [Procs -> Aids \cup {None}]
  BY <1>a DEF StartCall, Start, Entry, Unpresented, SignersOf, GoTo, TypeOK
<1>3. pc' \in [Procs -> PCs]
  BY DEF StartCall, Start, Entry, Unpresented, SignersOf, GoTo, TypeOK, PCs, Holding
<1>4. tries' \in [Procs -> 0..MaxTries]
  BY SMT, SMTT(30), ConstantsAssumption DEF StartCall, Start, Entry, Unpresented, SignersOf, GoTo, TypeOK
<1>. QED
  BY <1>1, <1>2, <1>3, <1>4 DEF StartCall, Start, TypeOK, serverVars, historyVars

LEMMA RetryType ==
    ASSUME IndInv, NEW p \in Procs, Retry(p)
    PROVE  TypeOK'
<1>. USE SMT, SMTT(60) DEF IndInv
<1>1. pc' \in [Procs -> PCs]
  BY DEF Retry, Entry, Unpresented, GoTo, TypeOK, PCs, Holding
<1>2. tries' \in [Procs -> 0..MaxTries]
  BY ConstantsAssumption DEF Retry, Entry, Unpresented, GoTo, TypeOK
<1>3. ticket' \in [Procs -> Tickets \cup {NoTicket}]
  BY DEF Retry, Entry, Unpresented, GoTo, TypeOK
<1>4. resent' \in [Procs -> BOOLEAN]
  BY DEF Retry, Entry, Unpresented, GoTo, TypeOK
<1>5. answer' \in [Procs -> Answers \cup {None}]
  BY DEF Retry, Entry, Unpresented, GoTo, TypeOK, Answers
<1>6. wire' \in [Procs -> Nat]
  BY DEF Retry, Entry, Unpresented, GoTo, TypeOK
<1>. QED
  BY <1>1, <1>2, <1>3, <1>4, <1>5, <1>6 DEF Retry, TypeOK, serverVars, historyVars

LEMMA FinishType ==
    ASSUME IndInv, NEW p \in Procs, Finish(p)
    PROVE  TypeOK'
<1>. USE SMT, SMTT(60) DEF IndInv
<1>1. pc' \in [Procs -> PCs]
  BY DEF Finish, GoTo, TypeOK, PCs, Holding
<1>2. kind' \in [Procs -> AllKinds \cup {None}]
  BY DEF Finish, GoTo, TypeOK
<1>3. signer' \in [Procs -> Aids \cup {None}]
  BY DEF Finish, GoTo, TypeOK
<1>4. ticket' \in [Procs -> Tickets \cup {NoTicket}]
  BY DEF Finish, GoTo, TypeOK
<1>5. resent' \in [Procs -> BOOLEAN]
  BY DEF Finish, GoTo, TypeOK
<1>6. answer' \in [Procs -> Answers \cup {None}]
  BY DEF Finish, GoTo, TypeOK, Answers
<1>7. tries' \in [Procs -> 0..MaxTries]
  BY ConstantsAssumption DEF Finish, GoTo, TypeOK
<1>8. burned' \in [Procs -> SUBSET Tickets]
  BY DEF Finish, GoTo, TypeOK
<1>9. applied' \in [Procs -> Nat]
  BY DEF Finish, GoTo, TypeOK
<1>10. wire' \in [Procs -> Nat]
  BY DEF Finish, GoTo, TypeOK
<1>. QED
  BY Zenon, <1>1, <1>2, <1>3, <1>4, <1>5, <1>6, <1>7, <1>8, <1>9, <1>10 DEF Finish, TypeOK, serverVars,
    historyVars

LEMMA PresentType ==
    ASSUME IndInv, NEW p \in Procs, Present(p)
    PROVE  TypeOK'
<1>. USE SMT, SMTT(60) DEF IndInv
<1>1. pc' \in [Procs -> PCs]
  BY DEF Present, Unpresented, CountRpcs, GoTo, TypeOK, PCs, Holding
<1>2. burned' \in [Procs -> SUBSET Tickets]
  BY DEF Present, Unpresented, CountRpcs, GoTo, TypeOK
<1>3. wire' \in [Procs -> Nat]
  BY DEF Present, Unpresented, CountRpcs, GoTo, TypeOK
<1>. QED
  BY <1>1, <1>2, <1>3 DEF Present, TypeOK, serverVars, historyVars

LEMMA PresentRefusedType ==
    ASSUME IndInv, NEW p \in Procs, PresentRefused(p)
    PROVE  TypeOK'
<1>. USE SMT, SMTT(60) DEF IndInv
<1>1. pc' \in [Procs -> PCs]
  BY DEF PresentRefused, Return, CountRpcs, GoTo, TypeOK, PCs, Holding
<1>2. answer' \in [Procs -> Answers \cup {None}]
  BY DEF PresentRefused, Return, CountRpcs, GoTo, TypeOK, Answers
<1>3. wire' \in [Procs -> Nat]
  BY DEF PresentRefused, Return, CountRpcs, GoTo, TypeOK
<1>. QED
  BY Zenon, <1>1, <1>2, <1>3 DEF PresentRefused, TypeOK, serverVars, historyVars

LEMMA TakeCachedType ==
    ASSUME IndInv, NEW p \in Procs, TakeCached(p)
    PROVE  TypeOK'
<1>. USE SMT, SMTT(60) DEF IndInv
<1>a. Get(signer[p]) \in Tickets \cup {NoTicket}
  BY GetType DEF TakeCached, ControlInv
<1>1. ticket' \in [Procs -> Tickets \cup {NoTicket}]
  BY <1>a DEF TakeCached, GoTo, TypeOK
<1>2. pc' \in [Procs -> PCs]
  BY DEF TakeCached, GoTo, TypeOK, PCs, Holding
<1>. QED
  BY Zenon, <1>1, <1>2 DEF TakeCached, TypeOK, serverVars, historyVars

LEMMA BeginAdmitType ==
    ASSUME IndInv, NEW p \in Procs, BeginAdmit(p)
    PROVE  TypeOK'
<1>. USE DEF IndInv
<1>1. lock' \in [Aids -> Procs \cup {None}]
  BY ZenonT(60) DEF BeginAdmit, GoTo, TypeOK
<1>2. pc' \in [Procs -> PCs]
  BY SMT, SMTT(60) DEF BeginAdmit, GoTo, TypeOK, PCs, Holding
<1>. QED
  BY <1>1, <1>2, SMT, SMTT(60) DEF BeginAdmit, TypeOK, serverVars, historyVars

LEMMA AdoptRefreshedType ==
    ASSUME IndInv, NEW p \in Procs, AdoptRefreshed(p)
    PROVE  TypeOK'
<1>. USE SMT, SMTT(60) DEF IndInv
<1>a. Get(signer[p]) \in Tickets \cup {NoTicket}
  BY GetType DEF AdoptRefreshed, ControlInv
<1>1. ticket' \in [Procs -> Tickets \cup {NoTicket}]
  BY <1>a DEF AdoptRefreshed, GoTo, TypeOK
<1>2. resent' \in [Procs -> BOOLEAN]
  BY DEF AdoptRefreshed, GoTo, TypeOK
<1>3. answer' \in [Procs -> Answers \cup {None}]
  BY DEF AdoptRefreshed, GoTo, TypeOK, Answers
<1>4. pc' \in [Procs -> PCs]
  BY Zenon DEF AdoptRefreshed, GoTo, TypeOK, PCs, Holding
<1>. QED
  BY Zenon, <1>1, <1>2, <1>3, <1>4 DEF AdoptRefreshed, TypeOK, serverVars, historyVars

LEMMA BeginReadmitType ==
    ASSUME IndInv, NEW p \in Procs, BeginReadmit(p)
    PROVE  TypeOK'
<1>. USE DEF IndInv
<1>1. cache' \in [Aids -> Tickets \cup {NoTicket}]
  BY ZenonT(60) DEF BeginReadmit, SetCache, GoTo, TypeOK
<1>2. stale' \in [Aids -> BOOLEAN]
  BY ZenonT(60) DEF BeginReadmit, SetCache, GoTo, TypeOK
<1>3. lock' \in [Aids -> Procs \cup {None}]
  BY ZenonT(60) DEF BeginReadmit, SetCache, GoTo, TypeOK
<1>4. resent' \in [Procs -> BOOLEAN]
  BY Zenon DEF BeginReadmit, SetCache, GoTo, TypeOK
<1>5. answer' \in [Procs -> Answers \cup {None}]
  BY Zenon DEF BeginReadmit, SetCache, GoTo, TypeOK, Answers
<1>6. pc' \in [Procs -> PCs]
  BY Zenon DEF BeginReadmit, SetCache, GoTo, TypeOK, PCs, Holding
<1>. QED
  BY <1>1, <1>2, <1>3, <1>4, <1>5, <1>6, SMT, SMTT(60) DEF BeginReadmit, TypeOK, serverVars, historyVars

LEMMA AdmitType ==
    ASSUME IndInv, NEW p \in Procs, Admit(p)
    PROVE  TypeOK'
<1>. USE SMT, SMTT(60) DEF IndInv
<1>a. minted + 1 \in Tickets /\ minted \in Nat
  BY SMT, SMTT(30), ConstantsAssumption DEF Admit, Mint, TypeOK, Tickets
<1>1. minted' \in 0..MaxTickets
  BY SMT, SMTT(30), <1>a, ConstantsAssumption DEF Admit, Mint, CountRpcs, GoTo, TypeOK
<1>2. owner' \in [Tickets -> Aids \cup {None}]
  BY <1>a DEF Admit, Mint, CountRpcs, GoTo, TypeOK
<1>3. applied' \in [Procs -> Nat]
  BY DEF Admit, Mint, CountRpcs, GoTo, TypeOK
<1>4. ticket' \in [Procs -> Tickets \cup {NoTicket}]
  BY <1>a DEF Admit, Mint, CountRpcs, GoTo, TypeOK
<1>5. pc' \in [Procs -> PCs]
  BY DEF Admit, Mint, CountRpcs, GoTo, TypeOK, PCs, Holding
<1>6. wire' \in [Procs -> Nat]
  BY DEF Admit, Mint, CountRpcs, GoTo, TypeOK
<1>. QED
  BY Zenon, <1>1, <1>2, <1>3, <1>4, <1>5, <1>6 DEF Admit, TypeOK, serverVars, historyVars

LEMMA AdmitLostType ==
    ASSUME IndInv, NEW p \in Procs, AdmitLost(p)
    PROVE  TypeOK'
<1>. USE DEF IndInv
<1>a. minted + 1 \in Tickets /\ minted \in Nat
  BY ConstantsAssumption, SMT, SMTT(60) DEF AdmitLost, Mint, TypeOK, Tickets
<1>1. minted' \in 0..MaxTickets
  BY <1>a, ConstantsAssumption, SMT, SMTT(60) DEF AdmitLost, Mint, CountRpcs, Return, Release, GoTo, TypeOK
<1>2. owner' \in [Tickets -> Aids \cup {None}]
  BY Zenon, <1>a DEF AdmitLost, Mint, CountRpcs, Return, Release, GoTo, TypeOK
<1>3. applied' \in [Procs -> Nat]
  BY SMT, SMTT(60) DEF AdmitLost, Mint, CountRpcs, Return, Release, GoTo, TypeOK
<1>4. retired' \in SUBSET Tickets
  BY Zenon, <1>a DEF AdmitLost, Mint, CountRpcs, Return, Release, GoTo, TypeOK
<1>5. pc' \in [Procs -> PCs]
  BY SMT, SMTT(60) DEF AdmitLost, Mint, CountRpcs, Return, Release, GoTo, TypeOK, PCs, Holding
<1>6. answer' \in [Procs -> Answers \cup {None}]
  BY SMT, SMTT(60) DEF AdmitLost, Mint, CountRpcs, Return, Release, GoTo, TypeOK, Answers
<1>7. wire' \in [Procs -> Nat]
  BY SMT, SMTT(60) DEF AdmitLost, Mint, CountRpcs, Return, Release, GoTo, TypeOK
<1>8. lock' \in [Aids -> Procs \cup {None}]
  BY ZenonT(60) DEF AdmitLost, Mint, CountRpcs, Return, Release, GoTo, TypeOK
<1>. QED
  BY ZenonT(40), <1>1, <1>2, <1>3, <1>4, <1>5, <1>6, <1>7, <1>8 DEF AdmitLost, TypeOK, serverVars,
    historyVars

LEMMA AdmitRefusedType ==
    ASSUME IndInv, NEW p \in Procs, AdmitRefused(p)
    PROVE  TypeOK'
<1>. USE DEF IndInv
<1>1. pc' \in [Procs -> PCs]
  BY SMT, SMTT(60) DEF AdmitRefused, CountRpcs, Return, Release, GoTo, TypeOK, PCs, Holding
<1>2. answer' \in [Procs -> Answers \cup {None}]
  BY Zenon DEF AdmitRefused, CountRpcs, Return, Release, GoTo, TypeOK, Answers
<1>3. wire' \in [Procs -> Nat]
  BY SMT, SMTT(60) DEF AdmitRefused, CountRpcs, Return, Release, GoTo, TypeOK
<1>4. lock' \in [Aids -> Procs \cup {None}]
  BY ZenonT(60) DEF AdmitRefused, CountRpcs, Return, Release, GoTo, TypeOK
<1>. QED
  BY Zenon, <1>1, <1>2, <1>3, <1>4 DEF AdmitRefused, TypeOK, serverVars, historyVars

LEMMA StoreType ==
    ASSUME IndInv, NEW p \in Procs, Store(p)
    PROVE  TypeOK'
<1>. USE DEF IndInv
<1>a. ticket[p] \in Tickets \cup {NoTicket}
  BY SMT, SMTT(60) DEF TypeOK
<1>b.  pc[p] = "store" => ticket[p] \in Tickets
  BY Zenon, <1>a DEF TicketInv
<1>c. cache[signer[p]] \in Tickets \cup {NoTicket}
  BY ZenonT(40) DEF Store, LockDiscipline, Holding, TypeOK
<1>1. pc' \in [Procs -> PCs]
  BY SMT, SMTT(60) DEF Store, SetCache, Release, Return, GoTo, TypeOK, PCs, Holding
<1>2. lock' \in [Aids -> Procs \cup {None}]
  BY ZenonT(60) DEF Store, SetCache, Release, Return, GoTo, TypeOK
<1>3. answer' \in [Procs -> Answers \cup {None}]
  BY SMT, SMTT(60) DEF Store, SetCache, Release, Return, GoTo, TypeOK, Answers
<1>4. cache' \in [Aids -> Tickets \cup {NoTicket}]
  BY ZenonT(60) DEF Store, SetCache, Release, Return, GoTo, TypeOK
<1>5. stale' \in [Aids -> BOOLEAN]
  BY ZenonT(60) DEF Store, SetCache, Release, Return, GoTo, TypeOK
<1>6. retired' \in SUBSET Tickets
  BY Zenon, <1>a, <1>b, <1>c DEF Store, SetCache, Release, Return, GoTo, TypeOK
<1>. QED
  BY Zenon, <1>1, <1>2, <1>3, <1>4, <1>5, <1>6 DEF Store, TypeOK, serverVars, historyVars

LEMMA SendType ==
    ASSUME IndInv, NEW p \in Procs, Send(p)
    PROVE  TypeOK'
<1>. USE SMT, SMTT(60) DEF IndInv
<1>a. ticket[p] \in Tickets \cup {NoTicket}
  BY DEF TypeOK
<1>b. signer[p] # None /\ pc[p] = "send" => ticket[p] \in Tickets
  BY <1>a DEF TicketInv
<1>1. pc' \in [Procs -> PCs]
  BY DEF Send, AfterAnswer, CountRpcs, GoTo, TypeOK, PCs, Holding
<1>2. answer' \in [Procs -> Answers \cup {None}]
  BY DEF Send, AfterAnswer, CountRpcs, GoTo, TypeOK, Answers
<1>3. wire' \in [Procs -> Nat]
  BY SMT, SMTT(30) DEF Send, AfterAnswer, CountRpcs, GoTo, TypeOK
<1>4. burned' \in [Procs -> SUBSET Tickets]
  BY <1>a, <1>b DEF Send, AfterAnswer, CountRpcs, GoTo, TypeOK
<1>5. applied' \in [Procs -> Nat]
  BY DEF Send, AfterAnswer, CountRpcs, GoTo, TypeOK
<1>6. retired' \in SUBSET Tickets
  BY <1>a, <1>b DEF Send, AfterAnswer, CountRpcs, GoTo, TypeOK
<1>. QED
  BY ZenonT(40), <1>1, <1>2, <1>3, <1>4, <1>5, <1>6 DEF Send, TypeOK, serverVars, historyVars

LEMMA ForgetType ==
    ASSUME IndInv, NEW p \in Procs, Forget(p)
    PROVE  TypeOK'
<1>. USE DEF IndInv
<1>1. pc' \in [Procs -> PCs]
  BY SMT, SMTT(60) DEF Forget, SetCache, GoTo, TypeOK, PCs, Holding
<1>2. cache' \in [Aids -> Tickets \cup {NoTicket}]
  <2>1. CASE StillCached(p)  BY <2>1, SMT, SMTT(60) DEF Forget, SetCache, TypeOK
  <2>2. CASE ~StillCached(p)  BY <2>2, SMT, SMTT(60) DEF Forget, TypeOK
  <2>. QED  BY <2>1, <2>2
<1>3. stale' \in [Aids -> BOOLEAN]
  <2>1. CASE StillCached(p)  BY <2>1, ZenonT(60) DEF Forget, SetCache, TypeOK
  <2>2. CASE ~StillCached(p)  BY Zenon, <2>2 DEF Forget, TypeOK
  <2>. QED  BY <2>1, <2>2
<1>. QED
  BY Zenon, <1>1, <1>2, <1>3 DEF Forget, TypeOK, serverVars, historyVars

LEMMA CancelType ==
    ASSUME IndInv, NEW p \in Procs, Cancel(p)
    PROVE  TypeOK'
<1>. USE SMT, SMTT(60) DEF IndInv
<1>a. ticket[p] \in Tickets \cup {NoTicket}
  BY DEF TypeOK
<1>b.  pc[p] = "store" => ticket[p] \in Tickets
  BY Zenon, <1>a DEF TicketInv
<1>1. pc' \in [Procs -> PCs]
  BY Zenon DEF Cancel, CancelUnlocks, Release, Return, GoTo, TypeOK, PCs, Holding
<1>2. lock' \in [Aids -> Procs \cup {None}]
  BY Zenon DEF Cancel, CancelUnlocks, Release, Return, GoTo, TypeOK
<1>3. answer' \in [Procs -> Answers \cup {None}]
  BY Zenon DEF Cancel, CancelUnlocks, Release, Return, GoTo, TypeOK, Answers
<1>4. retired' \in SUBSET Tickets
  BY Zenon, <1>a, <1>b DEF Cancel, CancelUnlocks, Release, Return, GoTo, TypeOK
<1>. QED
  BY Zenon, <1>1, <1>2, <1>3, <1>4 DEF Cancel, TypeOK, serverVars, historyVars

LEMMA AgeType ==
    ASSUME IndInv, NEW a \in Aids, Age(a)
    PROVE  TypeOK'
<1>. USE SMT, SMTT(60) DEF IndInv
<1>a. cache[a] \in Tickets
  BY DEF Age, TypeOK
<1>1. stale' \in [Aids -> BOOLEAN]
  BY DEF Age, GoTo, TypeOK
<1>2. retired' \in SUBSET Tickets
  BY <1>a DEF Age, GoTo, TypeOK
<1>. QED
  BY Zenon, <1>1, <1>2 DEF Age, TypeOK, serverVars, historyVars
==============================================================================
