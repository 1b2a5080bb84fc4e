----------------------- MODULE TicketLifecycleProofs -----------------------
(***************************************************************************)
(* The remaining steps preserve the inductive invariant, and the theorems  *)
(* about the ticket lifecycle, for any number of threads or tasks,         *)
(* identities, tickets and attempts.  They are made for the asyncio client *)
(* (AioSpec), whose steps include every step of the synchronous one, and   *)
(* carried over to it (Spec).                                              *)
(*                                                                         *)
(* The second half shows that the three clients implement the contract of  *)
(* a call (module CallContract): the synchronous and the asyncio client of *)
(* the Python SDK, and the TypeScript client.                              *)
(***************************************************************************)
EXTENDS TicketLifecycleCalls, TsTicketLifecycle

-------------------------------------------------------------------------------
(* The inductive invariant is preserved, action by action (continued). *)

LEMMA AdmitRefusedPreserves ==
    ASSUME IndInv, NEW p \in Procs, AdmitRefused(p)
    PROVE  IndInv'
<1>. USE SMT, SMTT(60) DEF IndInv
<1>t. TypeOK'
  BY AdmitRefusedType
<1>1. LockDiscipline'
  BY DEF AdmitRefused, Return, Release, GoTo, TypeOK, Holding, LockDiscipline
<1>2. ControlInv'
  BY DEF AdmitRefused, Return, GoTo, serverVars, ControlInv, TypeOK
<1>3. TicketInv'
  BY DEF AdmitRefused, Return, GoTo, serverVars, TicketInv, TypeOK
<1>4. FreshInv'
  BY DEF AdmitRefused, Return, GoTo, serverVars, FreshInv, TypeOK
<1>5. GiveUpInv'
  BY DEF AdmitRefused, Return, GoTo, Holding, GiveUpInv, Get, TypeOK
<1>6. NoGoodTicketDiscarded'
  BY SMT, SMTT(30) DEF AdmitRefused, Return, GoTo, serverVars, NoGoodTicketDiscarded, TypeOK
<1>7. BurnedInv'
  BY DEF AdmitRefused, Return, GoTo, serverVars, BurnedInv, Get, TypeOK
<1>8. NoReplayedBytes'
  BY Zenon DEF AdmitRefused, Return, GoTo, serverVars, NoReplayedBytes, TypeOK
<1>. QED
  BY <1>t, <1>1, <1>2, <1>3, <1>4, <1>5, <1>6, <1>7, <1>8

LEMMA StorePreserves ==
    ASSUME IndInv, NEW p \in Procs, Store(p)
    PROVE  IndInv'
<1>. USE SMT, SMTT(60) DEF IndInv
<1>t. TypeOK'
  BY StoreType
<1>a. signer[p] \in Aids /\ lock[signer[p]] = p /\ ticket[p] \in 1..minted
  BY DEF Store, LockDiscipline, Holding, TicketInv
<1>b. pc' \in [Procs -> PCs] /\ pc'[p] \in {"send", "returned"} /\ \A q \in Procs : q # p => pc'[q] = pc[q]
  BY DEF Store, GoTo, Return, TypeOK, PCs
<1>1. LockDiscipline'
  BY SMT, SMTT(30), <1>a, <1>b DEF Store, LockDiscipline, Holding, Release, TypeOK
<1>2. ControlInv'
  BY DEF Store, Return, GoTo, serverVars, TypeOK, ControlInv
<1>3. TicketInv'
  BY SMT, SMTT(30) DEF Store, SetCache, Return, GoTo, serverVars, TypeOK, TicketInv
<1>4. FreshInv'
  BY SMT, SMTT(30) DEF Store, SetCache, Return, GoTo, serverVars, TypeOK, FreshInv, TicketInv
<1>5. GiveUpInv'
  BY SMT, SMTT(30) DEF Store, SetCache, Return, GoTo, TypeOK, Holding, GiveUpInv, LockDiscipline, Get
<1>6. NoGoodTicketDiscarded'
  BY SMT, SMTT(30) DEF Store, SetCache, Return, GoTo, serverVars, TypeOK, NoTicket, Holding,
    NoGoodTicketDiscarded, GiveUpInv, TicketInv, Get
<1>7. BurnedInv'
  BY DEF Store, SetCache, Return, GoTo, serverVars, TypeOK, NoTicket, BurnedInv, FreshInv,
    TicketInv, Get
<1>8. NoReplayedBytes'
  BY ZenonT(40) DEF Store, Return, GoTo, serverVars, TypeOK, NoReplayedBytes, FreshInv
<1>. QED
  BY <1>t, <1>1, <1>2, <1>3, <1>4, <1>5, <1>6, <1>7, <1>8

LEMMA SendPreserves ==
    ASSUME IndInv, NEW p \in Procs, Send(p)
    PROVE  IndInv'
<1>. USE SMT, SMTT(60) DEF IndInv
<1>t. TypeOK'
  BY SendType
<1>1. LockDiscipline'
  BY SMT, SMTT(30) DEF Send, AfterAnswer, GoTo, Holding, LockDiscipline, TypeOK
<1>2. ControlInv'
  BY SMT, SMTT(30) DEF Send, AfterAnswer, GoTo, TypeOK, ControlInv
<1>3. TicketInv'
  BY SMT, SMTT(30) DEF Send, AfterAnswer, GoTo, TicketInv, TypeOK
<1>4. FreshInv'
  BY SMT, SMTT(30) DEF Send, AfterAnswer, GoTo, FreshInv, TypeOK
<1>5. GiveUpInv'
  BY SMT, SMTT(30) DEF Send, AfterAnswer, GoTo, Holding, GiveUpInv, Get, TypeOK
<1>6. NoGoodTicketDiscarded'
  BY SMT, SMTT(30) DEF Send, GoTo, NoGoodTicketDiscarded, TypeOK
<1>7. BurnedInv'
  BY SMT, SMTT(30) DEF Send, AfterAnswer, GoTo, TypeOK, BurnedInv, Get
<1>8. NoReplayedBytes'
  BY DEF Send, AfterAnswer, GoTo, TypeOK, NoReplayedBytes
<1>. QED
  BY <1>t, <1>1, <1>2, <1>3, <1>4, <1>5, <1>6, <1>7, <1>8

LEMMA ForgetPreserves ==
    ASSUME IndInv, NEW p \in Procs, Forget(p)
    PROVE  IndInv'
<1>. USE SMT, SMTT(60) DEF IndInv
<1>t. TypeOK'
  BY ForgetType
<1>1. LockDiscipline'
  BY SMT, SMTT(30) DEF Forget, GoTo, Holding, LockDiscipline, TypeOK
<1>2. ControlInv'
  BY DEF Forget, GoTo, serverVars, ControlInv, TypeOK
<1>4. FreshInv'
  BY DEF Forget, SetCache, GoTo, serverVars, TypeOK, FreshInv, TicketInv
<1>8. NoReplayedBytes'
  BY DEF Forget, GoTo, serverVars, NoReplayedBytes, TypeOK
<1>c. signer[p] \in Aids /\ ticket[p] \in retired /\ ticket[p] \in 1..minted /\ lock[signer[p]] = None
  BY DEF Forget, ControlInv, GiveUpInv, LockFree, TicketInv
<1>a. CASE StillCached(p)
  <2>0. /\ cache[signer[p]] = ticket[p] /\ ~stale[signer[p]]
        /\ cache' = [cache EXCEPT ![signer[p]] = NoTicket]
        /\ stale' = [stale EXCEPT ![signer[p]] = FALSE]
    BY SMT, SMTT(30), <1>a, <1>c DEF Forget, StillCached, SetCache, Get, NoTicket, TypeOK
  <2>3. TicketInv'
    BY ZenonT(40), <1>c, <2>0 DEF Forget, TicketInv, GoTo, TypeOK, serverVars
  <2>5. GiveUpInv'
    BY SMT, SMTT(30), <1>c, <2>0 DEF Forget, GiveUpInv, GoTo, TypeOK, historyVars, Get, LockDiscipline, Holding
  <2>6. NoGoodTicketDiscarded'
    BY SMT, SMTT(30), <1>c, <2>0 DEF Forget, NoGoodTicketDiscarded, GoTo, TypeOK, historyVars, serverVars,
      TicketInv
  <2>7. BurnedInv'
    BY SMT, SMTT(30), <1>c, <2>0 DEF Forget, BurnedInv, GoTo, TypeOK, serverVars, Get, NoTicket, TicketInv
  <2>. QED
    BY Zenon, <1>t, <1>1, <1>2, <1>4, <1>8, <2>3, <2>5, <2>6, <2>7
<1>b. CASE ~StillCached(p)
  <2>0. UNCHANGED <<cache, stale>> /\ Get(signer[p]) # ticket[p]
    BY <1>b DEF Forget, StillCached
  <2>3. TicketInv'
    BY ZenonT(40), <1>c, <2>0 DEF Forget, TicketInv, GoTo, TypeOK, serverVars
  <2>5. GiveUpInv'
    BY <1>c, <2>0 DEF Forget, GiveUpInv, GoTo, TypeOK, historyVars, Get, LockDiscipline, Holding
  <2>6. NoGoodTicketDiscarded'
    BY ZenonT(40), <1>c, <2>0 DEF Forget, NoGoodTicketDiscarded, GoTo, TypeOK, historyVars, serverVars,
      TicketInv
  <2>7. BurnedInv'
    BY <1>c, <2>0 DEF Forget, BurnedInv, GoTo, TypeOK, serverVars, Get
  <2>. QED
    BY <1>t, <1>1, <1>2, <1>4, <1>8, <2>3, <2>5, <2>6, <2>7
<1>. QED
  BY <1>a, <1>b

LEMMA CancelPreserves ==
    ASSUME IndInv, NEW p \in Procs, Cancel(p)
    PROVE  IndInv'
<1>. USE SMT, SMTT(60) DEF IndInv
<1>t. TypeOK'
  BY CancelType
<1>1. LockDiscipline'
  <2>1. CASE pc[p] \in Holding
    BY SMT, SMTT(30), <2>1 DEF Cancel, CancelUnlocks, Release, Return, GoTo, LockDiscipline, Holding, TypeOK
  <2>2. CASE pc[p] \notin Holding
    BY SMT, SMTT(30), <2>2 DEF Cancel, CancelUnlocks, Return, GoTo, LockDiscipline, Holding, TypeOK
  <2>. QED BY Zenon, <2>1, <2>2
<1>2. ControlInv'
  BY DEF Cancel, Return, GoTo, serverVars, ControlInv, TypeOK
<1>3. TicketInv'
  BY DEF Cancel, Return, GoTo, serverVars, TicketInv, TypeOK
<1>4. FreshInv'
  BY DEF Cancel, Return, GoTo, serverVars, FreshInv, TypeOK
<1>5. GiveUpInv'
  BY DEF Cancel, Return, GoTo, Holding, GiveUpInv, Get, TypeOK
<1>6. NoGoodTicketDiscarded'
  BY DEF Cancel, Return, GoTo, serverVars, NoGoodTicketDiscarded, TypeOK
<1>7. BurnedInv'
  BY DEF Cancel, Return, GoTo, serverVars, TypeOK, BurnedInv, Get
<1>8. NoReplayedBytes'
  BY ZenonT(40) DEF Cancel, Return, GoTo, serverVars, NoReplayedBytes, TypeOK
<1>. QED
  BY <1>t, <1>1, <1>2, <1>3, <1>4, <1>5, <1>6, <1>7, <1>8

LEMMA AgePreserves ==
    ASSUME IndInv, NEW a \in Aids, Age(a)
    PROVE  IndInv'
<1>. USE SMT, SMTT(60) DEF IndInv
<1>t. TypeOK'
  BY AgeType
<1>1. LockDiscipline'
  BY DEF Age, LockDiscipline, TypeOK
<1>2. ControlInv'
  BY DEF Age, serverVars, ControlInv, TypeOK
<1>3. TicketInv'
  BY DEF Age, serverVars, TicketInv, TypeOK
<1>4. FreshInv'
  BY DEF Age, serverVars, FreshInv, TypeOK
<1>5. GiveUpInv'
  BY DEF Age, GiveUpInv, Get, TypeOK
<1>6. NoGoodTicketDiscarded'
  BY Zenon DEF Age, serverVars, NoGoodTicketDiscarded, TypeOK
<1>7. BurnedInv'
  BY SMT, SMTT(30) DEF Age, serverVars, NoTicket, BurnedInv, TicketInv, Get, TypeOK
<1>8. NoReplayedBytes'
  BY DEF Age, serverVars, NoReplayedBytes, TypeOK
<1>. QED
  BY <1>t, <1>1, <1>2, <1>3, <1>4, <1>5, <1>6, <1>7, <1>8

LEMMA InitInv == Init => IndInv
<1>. SUFFICES ASSUME Init PROVE IndInv
  OBVIOUS
<1>1. TypeOK
  BY ConstantsAssumption DEF Init, TypeOK, PCs
<1>2. LockDiscipline
  BY DEF Init, LockDiscipline, Holding
<1>3. ControlInv
  BY DEF Init, ControlInv
<1>4. TicketInv
  BY DEF Init, TicketInv
<1>5. FreshInv /\ NoReplayedBytes /\ BurnedInv
  BY DEF Init, FreshInv, NoReplayedBytes, BurnedInv
<1>6. GiveUpInv
  BY DEF Init, GiveUpInv, Holding
<1>7. NoGoodTicketDiscarded
  BY DEF Init, NoGoodTicketDiscarded
<1>. QED
  BY <1>1, <1>2, <1>3, <1>4, <1>5, <1>6, <1>7 DEF IndInv

LEMMA StutterPreserves ==
    ASSUME IndInv, UNCHANGED vars
    PROVE  IndInv'
<1>. USE DEF IndInv, vars, clientVars, serverVars, historyVars
<1>1. TypeOK'
  BY SMT, SMTT(60) DEF TypeOK
<1>2. LockDiscipline'
  BY ZenonT(60) DEF LockDiscipline
<1>3. ControlInv'
  BY ZenonT(60) DEF ControlInv
<1>4. TicketInv'
  BY ZenonT(40) DEF TicketInv
<1>5. FreshInv'
  BY ZenonT(60) DEF FreshInv
<1>6. GiveUpInv'
  BY SMT, SMTT(60) DEF GiveUpInv, Get
<1>7. NoGoodTicketDiscarded'
  BY SMT, SMTT(60) DEF NoGoodTicketDiscarded
<1>8. BurnedInv'
  BY SMT, SMTT(60) DEF BurnedInv, Get
<1>9. NoReplayedBytes'
  BY SMT, SMTT(60) DEF NoReplayedBytes
<1>. QED
  BY Zenon, <1>1, <1>2, <1>3, <1>4, <1>5, <1>6, <1>7, <1>8, <1>9

\* A call of some kind is a call of one of the methods.
LEMMA MethodsAreCalls ==
    ASSUME NEW p \in Procs
    PROVE  StartCall(p) <=> \/ AdmitCall(p) \/ Authorize(p) \/ RunDecision(p) \/ OpenSession(p)
                            \/ Submit(p) \/ CloseSession(p) \/ Read(p)
BY Zenon DEF StartCall, AllKinds, AdmitCall, Authorize, RunDecision, OpenSession, Submit,
   CloseSession, Read

\* The coroutines together take exactly the synchronous client's steps; only
\* cancellation is new.
LEMMA AioNextIsNext ==
    /\ Next <=> \/ \E p \in Procs : StartCall(p) \/ Retry(p) \/ Finish(p) \/ Step(p)
               \/ \E a \in Aids : Age(a)
    /\ AioNext <=> Next \/ \E p \in Procs : Cancel(p)
<1>1. ASSUME NEW p \in Procs
      PROVE  StartCall(p) <=> \/ AdmitCall(p) \/ AioAuthorize(p) \/ AioRunDecision(p)
                              \/ AioOpenSession(p) \/ AioSubmit(p) \/ AioCloseSession(p)
                              \/ AioRead(p)
  BY MethodsAreCalls DEF AioAuthorize, AioRunDecision, AioOpenSession, AioSubmit,
     AioCloseSession, AioRead
<1>2. ASSUME NEW p \in Procs
      PROVE  Step(p) \/ AdmitCall(p) <=>
                \/ AioPresentation(p) \/ AioAdmit(p) \/ AioTicketFor(p) \/ AioRefreshTicket(p)
                \/ AioSend(p) \/ AioForget(p)
  BY DEF Step, AioPresentation, AioAdmit, AioTicketFor, AioRefreshTicket, AioSend, AioForget
<1>3. ASSUME NEW p \in Procs
      PROVE  Retry(p) \/ Finish(p) <=> AioRetry(p)
  BY DEF AioRetry
<1>4. Next <=> \/ \E p \in Procs : StartCall(p) \/ Retry(p) \/ Finish(p) \/ Step(p)
               \/ \E a \in Aids : Age(a)
  BY MethodsAreCalls DEF Next
<1>. QED
  BY <1>1, <1>2, <1>3, <1>4 DEF AioNext

LEMMA NextPreserves == IndInv /\ [AioNext]_vars => IndInv'
<1>. SUFFICES ASSUME IndInv, [AioNext]_vars PROVE IndInv'
  OBVIOUS
<1>1. ASSUME NEW p \in Procs, StartCall(p) \/ Retry(p) \/ Finish(p) \/ Cancel(p)
      PROVE  IndInv'
  BY <1>1, StartCallPreserves, RetryPreserves, FinishPreserves, CancelPreserves
<1>2. ASSUME NEW p \in Procs, Step(p)
      PROVE  IndInv'
  BY <1>2, PresentPreserves, PresentRefusedPreserves, TakeCachedPreserves,
     BeginAdmitPreserves, AdoptRefreshedPreserves, BeginReadmitPreserves, AdmitPreserves,
     AdmitLostPreserves, AdmitRefusedPreserves, StorePreserves, SendPreserves,
     ForgetPreserves DEF Step
<1>3. ASSUME NEW a \in Aids, Age(a)
      PROVE  IndInv'
  BY <1>3, AgePreserves
<1>4. CASE UNCHANGED vars
  BY <1>4, StutterPreserves
<1>. QED
  BY <1>1, <1>2, <1>3, <1>4, AioNextIsNext

-------------------------------------------------------------------------------
(* The theorems. *)

\* The strengthened invariant holds throughout every run of the asyncio client.
THEOREM AioInvariance == AioSpec => []IndInv
<1>1. Init => IndInv
  BY InitInv
<1>2. IndInv /\ [AioNext]_vars => IndInv'
  BY NextPreserves
<1>. QED
  BY <1>1, <1>2, PTL DEF AioSpec

\* Every run of the synchronous client is one of the asyncio client in which no
\* task is cancelled.
THEOREM SyncIsUncancelledAio == Spec => AioSpec
<1>1. [Next]_vars => [AioNext]_vars
  BY AioNextIsNext
<1>. QED
  BY <1>1, PTL DEF Spec, AioSpec

LEMMA IndInvTickets == IndInv => TicketBelongsToSigner
<1>. SUFFICES ASSUME IndInv PROVE TicketBelongsToSigner
  OBVIOUS
<1>1. ASSUME NEW p \in Procs, pc[p] \in {"send", "store"}, signer[p] # None
      PROVE  ticket[p] \in 1..minted /\ owner[ticket[p]] = signer[p]
  BY <1>1 DEF IndInv, TicketInv
<1>2. ASSUME NEW a \in Aids, cache[a] # NoTicket
      PROVE  cache[a] \in 1..minted /\ owner[cache[a]] = a
  BY <1>2 DEF IndInv, TicketInv
<1>. QED
  BY <1>1, <1>2 DEF TicketBelongsToSigner

\* Type correctness of both Python clients.
THEOREM TypeCorrect == AioSpec => []TypeOK
<1>1. IndInv => TypeOK
  BY DEF IndInv
<1>. QED
  BY <1>1, AioInvariance, PTL

\* The per-AID lock: no return, raise or cancellation out of the handshake leaks
\* it, and no two handshakes of one AID overlap, for any number of tasks.
THEOREM LocksAreExclusive == AioSpec => []LockDiscipline
<1>1. IndInv => LockDiscipline
  BY DEF IndInv
<1>. QED
  BY <1>1, AioInvariance, PTL

\* Refreshes are coalesced (_refresh_ticket, _invalidate_ticket): no caller ever
\* throws away a ticket that nobody had a reason to give up, for any number of
\* concurrent callers and any answers of the runtime.
THEOREM RefreshesAreCoalesced == AioSpec => []NoGoodTicketDiscarded
<1>1. IndInv => NoGoodTicketDiscarded
  BY DEF IndInv
<1>. QED
  BY <1>1, AioInvariance, PTL

\* _forget_burned_ticket does its work: no replay-guarded write is ever sent again
\* under a ticket that has burned its bytes, however many attempts are made.
THEOREM WritesAreNotReplayed == AioSpec => []NoReplayedBytes
<1>1. IndInv => NoReplayedBytes
  BY DEF IndInv
<1>. QED
  BY <1>1, AioInvariance, PTL

\* Tickets are never mixed between identities (_cache_and_lock, _signer).
THEOREM TicketsStayWithTheirSigner == AioSpec => []TicketBelongsToSigner
<1>1. IndInv => TicketBelongsToSigner
  BY IndInvTickets
<1>. QED
  BY <1>1, AioInvariance, PTL

\* Cancelling a task inside the handshake of a refresh or of a lazy admit leaves
\* no usable ticket behind.
THEOREM CancellationIsClean == AioSpec => CancelLeavesCacheEmpty
<1>1. IndInv /\ [AioNext]_vars =>
        [\A p \in Procs : pc[p] \in Holding /\ kind[p] # "admit" /\ Cancel(p)
            => Get(signer[p])' = NoTicket]_vars
  <2>. SUFFICES ASSUME IndInv, NEW p \in Procs, pc[p] \in Holding, kind[p] # "admit", Cancel(p)
                PROVE  Get(signer[p])' = NoTicket
    OBVIOUS
  <2>1. Get(signer[p]) = NoTicket
    BY DEF IndInv, GiveUpInv
  <2>. QED
    BY <2>1 DEF Cancel, Get
<1>. QED
  BY <1>1, AioInvariance, PTL DEF AioSpec, CancelLeavesCacheEmpty

-------------------------------------------------------------------------------
(* The RPCs of a call, and the tickets it gave up. *)

\* So does every step of the client.
LEMMA NextWire == IndInv /\ WireInv /\ [AioNext]_vars => WireInv'
<1>. SUFFICES ASSUME IndInv, WireInv, [AioNext]_vars, NEW q \in Procs PROVE WireOk(q)'
  BY DEF WireInv
<1>. WireOk(q) /\ TypeOK /\ ControlInv
  BY DEF WireInv, IndInv
<1>1. ASSUME pc'[q] = pc[q] /\ kind'[q] = kind[q] /\ signer'[q] = signer[q]
             /\ ticket'[q] = ticket[q] /\ resent'[q] = resent[q] /\ wire'[q] = wire[q]
      PROVE  WireOk(q)'
  BY ZenonT(40), <1>1 DEF WireOk, Spent, Before, Resend
<1>2. ASSUME NEW p \in Procs, StartCall(p) \/ Retry(p) \/ Finish(p) \/ Step(p) \/ Cancel(p)
      PROVE  WireOk(q)'
  BY <1>1, <1>2, OthersStay, CallerWire
<1>3. ASSUME NEW a \in Aids, Age(a)
      PROVE  WireOk(q)'
  BY <1>1, <1>3 DEF Age
<1>4. CASE UNCHANGED vars
  BY <1>1, <1>4 DEF vars, clientVars, historyVars
<1>. QED
  BY <1>2, <1>3, <1>4, AioNextIsNext

\* The account stays within the budget.
LEMMA WireWithinBudget == IndInv /\ WireInv => WireBound
<1>. SUFFICES ASSUME IndInv, WireInv, NEW p \in Procs, pc[p] # "idle"
              PROVE  wire[p] <= RpcBudget(kind[p])
  BY DEF WireBound
<1>1. WireOk(p) /\ wire[p] \in Nat /\ pc[p] \in PCs /\ kind[p] \in AllKinds /\ resent[p] \in BOOLEAN
  BY DEF WireInv, IndInv, TypeOK, ControlInv
<1>2. Spent(p) <= RpcBudget(kind[p])
  BY <1>1 DEF WireOk, Spent, Before, Resend, RpcBudget, RefreshesOnce, Presenting, Holding,
     PCs, AllKinds
<1>3. Spent(p) \in Nat /\ RpcBudget(kind[p]) \in Nat
  BY <1>1 DEF Spent, Before, Resend, RpcBudget
<1>. QED
  BY <1>1, <1>2, <1>3 DEF WireOk

\* No call makes more RPCs than its budget (the resend counter of
\* _credentialed_call): one refresh at most, however the runtime answers.
THEOREM CallsStayInBudget == AioSpec => []WireBound
<1>1. Init => WireInv
  BY InitWire
<1>2. IndInv /\ WireInv /\ [AioNext]_vars => WireInv'
  BY NextWire
<1>3. IndInv /\ WireInv => WireBound
  BY WireWithinBudget
<1>. QED
  BY <1>1, <1>2, <1>3, AioInvariance, PTL DEF AioSpec

\* Neither do a ticket's ageing and stuttering steps hand one out again.
LEMMA NextDrops ==
    IndInv /\ WireInv /\ RefusedTicketDropped /\ [AioNext]_vars => RefusedTicketDropped'
<1>. SUFFICES ASSUME IndInv, WireInv, RefusedTicketDropped, [AioNext]_vars
              PROVE  RefusedTicketDropped'
  BY Zenon
<1>1. ASSUME NEW a \in Aids, Age(a)
      PROVE  RefusedTicketDropped'
  BY Zenon, <1>1 DEF Age, RefusedTicketDropped, Get, IndInv, TypeOK
<1>2. CASE UNCHANGED vars
  BY <1>2 DEF vars, clientVars, RefusedTicketDropped, Get
<1>. QED
  BY <1>1, <1>2, CallerDrops, AioNextIsNext

\* A ticket that a write has given up (_forget_burned_ticket, _invalidate_ticket) is
\* no longer handed out when the call raises, and no concurrent refresh restores it.
THEOREM GivenUpTicketsStayOut == AioSpec => []RefusedTicketDropped
<1>1. Init => WireInv /\ RefusedTicketDropped
  BY InitWire DEF Init, RefusedTicketDropped
<1>2. IndInv /\ WireInv /\ [AioNext]_vars => WireInv'
  BY NextWire
<1>3. IndInv /\ WireInv /\ RefusedTicketDropped /\ [AioNext]_vars => RefusedTicketDropped'
  BY NextDrops
<1>. QED
  BY <1>1, <1>2, <1>3, AioInvariance, PTL DEF AioSpec

\* The same for the synchronous client.
THEOREM SyncClientCorrect ==
    Spec => [](TypeOK /\ LockDiscipline /\ NoGoodTicketDiscarded /\ NoReplayedBytes
                 /\ TicketBelongsToSigner /\ WireBound /\ RefusedTicketDropped)
  BY SyncIsUncancelledAio, TypeCorrect, LocksAreExclusive, RefreshesAreCoalesced,
     WritesAreNotReplayed, TicketsStayWithTheirSigner, CallsStayInBudget,
     GivenUpTicketsStayOut, PTL

-------------------------------------------------------------------------------
(* The contract of a call: the inductive invariant. *)

ClientPCs == PCs \cup {"joined", "resolved", "rejected"}

CallTypes ==
    /\ pc \in [Procs -> ClientPCs]
    /\ kind \in [Procs -> AllKinds \cup {None}]
    /\ signer \in [Procs -> Aids \cup {None}]
    /\ answer \in [Procs -> Answers \cup {None}]
    /\ applied \in [Procs -> {0, 1}]

\* Where a call stands with the runtime.  Only an explicit admit is carried out
\* before its last step: it then waits for the ticket to be stored, or for its
\* promise, which an answer that was lost has rejected.
CallOk(p) ==
    /\ pc[p] = "idle" => applied[p] = 0
    /\ kind[p] = "admit" /\ pc[p] # "idle" =>
          /\ signer[p] # None
          /\ pc[p] \in Holding \cup {"lockTicket", "joined", "resolved", "rejected", "returned"}
    /\ applied[p] = 1 =>
          \/ kind[p] = "admit" /\ pc[p] \in {"store", "resolved"}
          \/ pc[p] \in {"rejected", "returned"} /\ answer[p] \in {"ok", "other"}
    /\ kind[p] = "admit" /\ pc[p] = "store" => applied[p] = 1
    /\ pc[p] = "returned" => answer[p] \in Answers /\ (answer[p] = "ok" => applied[p] = 1)
    /\ pc[p] = "rejected" => answer[p] \in Answers \ {"ok"}
    /\ pc[p] = "lockForget" => answer[p] \in Answers \ {"ok"}

CallInv == CallTypes /\ \A p \in Procs : CallOk(p)

\* The control points at which the contract sees a call under way.
Pending == ClientPCs \ {"idle", "returned"}
-------------------------------------------------------------------------------
(* How the steps look to the contract. *)

\* A step that carries nothing out and neither starts nor ends a call.
LEMMA StutterMaps ==
    ASSUME applied' = applied,
           \A q \in Procs : \/ pc[q] \in Pending /\ pc'[q] \in Pending
                            \/ pc'[q] = pc[q] /\ answer'[q] = answer[q]
    PROVE  UNCHANGED Contract!vars
BY DEF Contract!vars, Pending

LEMMA InvokeMaps ==
    ASSUME CallTypes, NEW p \in Procs, pc[p] = "idle", NEW c \in Pending,
           pc' = [pc EXCEPT ![p] = c], applied' = applied, answer' = answer
    PROVE  Contract!Next
<1>1. Contract!Invoke(p)
  BY Zenon DEF Contract!Invoke, CallTypes, Pending
<1>. QED
  BY <1>1 DEF Contract!Next

\* The runtime carries the call out before it returns.
LEMMA ApplyMaps ==
    ASSUME CallTypes, NEW p \in Procs, applied[p] = 0, applied' = [applied EXCEPT ![p] = 1],
           \A q \in Procs : \/ pc[q] \in Pending /\ pc'[q] \in Pending
                            \/ q # p /\ pc'[q] = pc[q] /\ answer'[q] = answer[q]
    PROVE  Contract!Next
<1>1. Contract!Apply(p)
  BY DEF Contract!Apply, CallTypes, Pending
<1>. QED
  BY Zenon, <1>1 DEF Contract!Next

LEMMA ReturnMaps ==
    ASSUME CallTypes, NEW p \in Procs, pc[p] \in Pending, NEW a \in Answers, NEW e \in {applied[p], 1},
           a = "ok" => e = 1, a \in {"unauthenticated", "unavailable"} => e = 0,
           pc' = [pc EXCEPT ![p] = "returned"], answer' = [answer EXCEPT ![p] = a],
           applied' = [applied EXCEPT ![p] = e]
    PROVE  Contract!Next
<1>1. Contract!Return(p)
  <2>1. a \in Contract!Outcomes
    BY DEF Answers, Contract!Outcomes, Contract!Refusals
  <2>2. [q \in Procs |-> IF pc'[q] = "returned" THEN answer'[q] ELSE None]
          = [[q \in Procs |-> IF pc[q] = "returned" THEN answer[q] ELSE None] EXCEPT ![p] = a]
    BY Zenon DEF CallTypes
  <2>3. [q \in Procs |-> IF pc'[q] \in {"idle", "returned"} THEN pc'[q] ELSE "pending"]
          = [[q \in Procs |-> IF pc[q] \in {"idle", "returned"} THEN pc[q] ELSE "pending"]
                EXCEPT ![p] = "returned"]
    BY Zenon DEF CallTypes
  <2>. QED
    BY Zenon, <2>1, <2>2, <2>3 DEF Contract!Return, Contract!Refusals, Pending
<1>. QED
  BY <1>1 DEF Contract!Next

LEMMA ReattemptMaps ==
    ASSUME CallTypes, NEW p \in Procs, pc[p] = "returned", answer[p] = "unavailable",
           NEW c \in Pending, pc' = [pc EXCEPT ![p] = c], answer' = [answer EXCEPT ![p] = None],
           applied' = applied
    PROVE  Contract!Next
<1>1. Contract!Reattempt(p)
  BY Zenon DEF Contract!Reattempt, CallTypes, Pending
<1>. QED
  BY <1>1 DEF Contract!Next

LEMMA FinishMaps ==
    ASSUME CallTypes, NEW p \in Procs, pc[p] = "returned", pc' = [pc EXCEPT ![p] = "idle"],
           answer' = [answer EXCEPT ![p] = None], applied' = [applied EXCEPT ![p] = 0]
    PROVE  Contract!Next
<1>1. Contract!Finish(p)
  BY ZenonT(40) DEF Contract!Finish, CallTypes
<1>. QED
  BY <1>1 DEF Contract!Next
-------------------------------------------------------------------------------
(* The steps that all clients share. *)

\* A step of p that leaves the other callers alone.
LEMMA OthersKeep ==
    ASSUME CallInv, CallTypes', NEW p \in Procs, CallOk(p)',
           \A q \in Procs \ {p} : /\ pc'[q] = pc[q] /\ kind'[q] = kind[q] /\ signer'[q] = signer[q]
                                  /\ answer'[q] = answer[q] /\ applied'[q] = applied[q]
    PROVE  CallInv'
<1>. SUFFICES ASSUME NEW q \in Procs, q # p PROVE CallOk(q)'
  BY DEF CallInv
<1>. QED
  BY DEF CallInv, CallOk

LEMMA EntryIsPending ==
    ASSUME NEW k, NEW s
    PROVE  /\ Entry(k, s) \in {"present", "send", "lockTicket"}
           /\ k = "admit" /\ s # None => Entry(k, s) = "lockTicket"
           /\ Entry(k, s) \in Pending
BY DEF Entry, Unpresented, Presenting, Pending, ClientPCs, PCs

LEMMA StartContract ==
    ASSUME CallInv, NEW p \in Procs, StartCall(p)
    PROVE  CallInv' /\ Contract!Next
<1>1. PICK k \in AllKinds : Start(p, k)
  BY DEF StartCall
<1>2. PICK s \in SignersOf(k) :
        /\ kind' = [kind EXCEPT ![p] = k] /\ signer' = [signer EXCEPT ![p] = s]
        /\ pc' = [pc EXCEPT ![p] = Entry(k, s)]
  BY Zenon, <1>1 DEF Start, GoTo
<1>3. answer' = answer /\ applied' = applied /\ pc[p] = "idle"
  BY <1>1 DEF Start, historyVars
<1>4. s \in Aids \cup {None} /\ (k = "admit" => s # None)
  BY ConstantsAssumption DEF SignersOf, AllKinds
<1>5. Entry(k, s) \in Pending /\ Entry(k, s) \in {"present", "send", "lockTicket"}
      /\ (k = "admit" => Entry(k, s) = "lockTicket")
  BY <1>4, EntryIsPending
<1>6. CallTypes'
  BY Zenon, <1>2, <1>3, <1>4, <1>5 DEF CallInv, CallTypes, Pending
<1>7. CallOk(p)'
  BY ZenonT(40), <1>2, <1>3, <1>4, <1>5 DEF CallInv, CallTypes, CallOk
<1>8. CallInv'
  BY <1>2, <1>3, <1>6, <1>7, OthersKeep DEF CallInv, CallTypes
<1>. QED
  BY Zenon, <1>2, <1>3, <1>5, <1>8, InvokeMaps DEF CallInv

LEMMA RetryContract ==
    ASSUME CallInv, NEW p \in Procs, Retry(p)
    PROVE  CallInv' /\ Contract!Next
<1>1. /\ pc[p] = "returned" /\ answer[p] = "unavailable"
      /\ pc' = [pc EXCEPT ![p] = Entry(kind[p], signer[p])]
      /\ answer' = [answer EXCEPT ![p] = None]
      /\ kind' = kind /\ signer' = signer /\ applied' = applied
  BY ZenonT(40) DEF Retry, GoTo, RetryableAnswers
<1>2. kind[p] = "admit" => signer[p] # None
  BY <1>1 DEF CallInv, CallOk
<1>3. /\ Entry(kind[p], signer[p]) \in Pending
      /\ Entry(kind[p], signer[p]) \in {"present", "send", "lockTicket"}
      /\ kind[p] = "admit" => Entry(kind[p], signer[p]) = "lockTicket"
  BY <1>2, EntryIsPending
<1>4. CallTypes'
  BY Zenon, <1>1, <1>3 DEF CallInv, CallTypes, Pending
<1>5. applied[p] = 0
  BY Zenon, <1>1 DEF CallInv, CallOk, CallTypes
<1>6. CallOk(p)'
  BY ZenonT(40), <1>1, <1>2, <1>3, <1>5 DEF CallInv, CallTypes, CallOk
<1>7. CallInv'
  BY <1>1, <1>4, <1>6, OthersKeep DEF CallInv, CallTypes
<1>. QED
  BY Zenon, <1>1, <1>3, <1>7, ReattemptMaps DEF CallInv

LEMMA FinishContract ==
    ASSUME CallInv, NEW p \in Procs, Finish(p)
    PROVE  CallInv' /\ Contract!Next
<1>1. /\ pc[p] = "returned" /\ pc' = [pc EXCEPT ![p] = "idle"]
      /\ kind' = [kind EXCEPT ![p] = None] /\ signer' = [signer EXCEPT ![p] = None]
      /\ answer' = [answer EXCEPT ![p] = None] /\ applied' = [applied EXCEPT ![p] = 0]
  BY DEF Finish, GoTo
<1>2. CallTypes'
  BY ZenonT(40), <1>1 DEF CallInv, CallTypes, ClientPCs, PCs
<1>3. CallOk(p)'
  BY SMT, SMTT(30), <1>1 DEF CallInv, CallTypes, CallOk
<1>4. CallInv'
  BY <1>1, <1>2, <1>3, OthersKeep DEF CallInv, CallTypes
<1>. QED
  BY Zenon, <1>1, <1>4, FinishMaps DEF CallInv

\* A step on the way, from one control point of a call to the next.
LEMMA OnTheWay ==
    ASSUME CallInv, NEW p \in Procs, pc[p] \in Pending, applied[p] = 0,
           NEW c \in Pending \ {"rejected", "lockForget"},
           kind[p] = "admit" => c \in {"handshake", "lockTicket", "joined", "resolved"},
           pc' = [pc EXCEPT ![p] = c], kind' = kind, signer' = signer, applied' = applied,
           answer' \in {answer, [answer EXCEPT ![p] = None]}
    PROVE  CallInv' /\ UNCHANGED Contract!vars
<1>1. CallTypes'
  BY Zenon DEF CallInv, CallTypes, Pending
<1>2. CallOk(p)'
  BY SMT, SMTT(30) DEF CallInv, CallTypes, CallOk, Pending, Holding
<1>3. CallInv'
  BY Zenon, <1>1, <1>2, OthersKeep DEF CallInv, CallTypes
<1>4. UNCHANGED Contract!vars
  BY StutterMaps DEF CallInv, CallTypes
<1>. QED
  BY Zenon, <1>3, <1>4

\* A step with which the call ends.
LEMMA ItReturns ==
    ASSUME CallInv, NEW p \in Procs, pc[p] \in Pending, NEW a \in Answers, NEW e \in {applied[p], 1},
           a = "ok" => e = 1, a \in {"unauthenticated", "unavailable"} => e = 0,
           pc' = [pc EXCEPT ![p] = "returned"], answer' = [answer EXCEPT ![p] = a],
           applied' = [applied EXCEPT ![p] = e], kind' = kind, signer' = signer
    PROVE  CallInv' /\ Contract!Next
<1>1. CallTypes'
  BY Zenon DEF CallInv, CallTypes, ClientPCs, PCs
<1>2. CallOk(p)'
  BY SMT, SMTT(30) DEF CallInv, CallTypes, CallOk, Pending, Answers
<1>3. CallInv'
  BY <1>1, <1>2, OthersKeep DEF CallInv, CallTypes
<1>. QED
  BY Zenon, <1>3, ReturnMaps DEF CallInv

\* A step keeps the invariant and is a step of the contract, or nothing to it.
Implements == CallInv' /\ [Contract!Next]_(Contract!vars)

LEMMA PresentContract ==
    ASSUME CallInv, NEW p \in Procs, Present(p) \/ PresentRefused(p)
    PROVE  Implements
<1>. USE DEF Implements
<1>1. pc[p] = "present" /\ pc[p] \in Pending /\ applied[p] = 0 /\ kind[p] # "admit"
  BY DEF Present, PresentRefused, CallInv, CallTypes, CallOk, Pending, ClientPCs, PCs, Holding
<1>2. CASE Present(p)
  <2>1. Unpresented(signer[p]) \in Pending \ {"rejected", "lockForget"}
    BY Zenon DEF Unpresented, Pending, ClientPCs, PCs
  <2>2. /\ pc' = [pc EXCEPT ![p] = Unpresented(signer[p])] /\ kind' = kind /\ signer' = signer
        /\ answer' = answer /\ applied' = applied
    BY Zenon, <1>2 DEF Present, GoTo
  <2>. QED
    BY Zenon, <1>1, <2>1, <2>2, OnTheWay
<1>3. CASE PresentRefused(p)
  <2>1. PICK a \in Answers \ {"ok"} :
          pc' = [pc EXCEPT ![p] = "returned"] /\ answer' = [answer EXCEPT ![p] = a]
    BY Zenon, <1>3 DEF PresentRefused, Return, GoTo
  <2>2. kind' = kind /\ signer' = signer /\ applied' = [applied EXCEPT ![p] = 0]
    BY <1>1, <1>3 DEF PresentRefused, CallInv, CallTypes
  <2>. QED
    BY Zenon, <1>1, <2>1, <2>2, ItReturns
<1>. QED
  BY Zenon, <1>2, <1>3

\* The handshake has been answered with a ticket.
LEMMA AdmitContract ==
    ASSUME CallInv, NEW p \in Procs, Admit(p)
    PROVE  Implements
<1>. USE DEF Implements
<1>1. /\ pc[p] = "handshake" /\ pc[p] \in Pending /\ applied[p] = 0
      /\ pc' = [pc EXCEPT ![p] = "store"] /\ kind' = kind /\ signer' = signer /\ answer' = answer
  BY DEF Admit, GoTo, CallInv, CallTypes, CallOk, Pending, ClientPCs, PCs, Holding
<1>2. "store" \in Pending \ {"rejected", "lockForget"} /\ "store" \in Holding
  BY DEF Pending, ClientPCs, PCs, Holding
<1>3. CASE kind[p] # "admit"
  BY Zenon, <1>1, <1>2, <1>3, OnTheWay DEF Admit, Mint
<1>4. CASE kind[p] = "admit"
  <2>1. applied' = [applied EXCEPT ![p] = 1]
    <3>1. applied' = [applied EXCEPT ![p] = applied[p] + 1]
      BY Zenon, <1>4 DEF Admit, Mint
    <3>2. applied[p] + 1 = 1
      BY SMT, SMTT(30), <1>1
    <3>. QED
      BY Zenon, <3>1, <3>2
  <2>2. CallTypes'
    BY Zenon, <1>1, <1>2, <2>1 DEF CallInv, CallTypes, Pending
  <2>3. CallOk(p)'
    BY ZenonT(40), <1>1, <1>2, <1>4, <2>1 DEF CallInv, CallTypes, CallOk
  <2>4. CallInv'
    BY <1>1, <2>1, <2>2, <2>3, OthersKeep DEF CallInv, CallTypes
  <2>5. Contract!Next
    BY Zenon, <1>1, <1>2, <2>1, ApplyMaps DEF CallInv, CallTypes
  <2>. QED
    BY Zenon, <2>4, <2>5
<1>. QED
  BY Zenon, <1>3, <1>4

\* The call itself is answered.  What the runtime carried out shows in the
\* answer, unless that is "other"; a refusal on the way is followed by a
\* refresh, or by giving the ticket up.
LEMMA SendContract ==
    ASSUME CallInv, NEW p \in Procs, Send(p)
    PROVE  Implements
<1>. USE DEF Implements
<1>1. pc[p] = "send" /\ pc[p] \in Pending /\ applied[p] = 0 /\ kind[p] # "admit"
  BY DEF Send, CallInv, CallTypes, CallOk, Pending, ClientPCs, PCs, Holding
<1>2. PICK a \in Answers, n \in {0, 1} :
        /\ answer' = [answer EXCEPT ![p] = a] /\ pc' = [pc EXCEPT ![p] = AfterAnswer(p, a)]
        /\ applied' = [applied EXCEPT ![p] = applied[p] + n]
        /\ a = "ok" => n = 1
        /\ a \notin {"ok", "other"} => n = 0
  BY Zenon DEF Send, GoTo, Answers
<1>3. kind' = kind /\ signer' = signer /\ applied' = [applied EXCEPT ![p] = n]
  <2>1. applied[p] + n = n
    BY <1>1
  <2>. QED
    BY Zenon, <1>2, <2>1 DEF Send
<1>4. AfterAnswer(p, a) \in {"returned", "lockRefresh", "lockForget"}
      /\ (a \in {"ok", "other"} => AfterAnswer(p, a) = "returned")
  BY DEF AfterAnswer
<1>5. CASE AfterAnswer(p, a) = "returned"
  BY Zenon, <1>1, <1>2, <1>3, <1>5, ItReturns DEF Answers
<1>6. CASE AfterAnswer(p, a) # "returned"
  <2>1. /\ a \in Answers \ {"ok", "other"} /\ applied' = applied
        /\ AfterAnswer(p, a) \in {"lockRefresh", "lockForget"}
    BY SMT, SMTT(30), <1>1, <1>2, <1>3, <1>4, <1>6 DEF CallInv, CallTypes
  <2>2. CallTypes' /\ pc'[p] \in Pending
    BY Zenon, <1>2, <1>3, <2>1 DEF CallInv, CallTypes, Pending, ClientPCs, PCs
  <2>3. CallOk(p)'
    BY Zenon, <1>1, <1>2, <1>3, <2>1 DEF CallInv, CallTypes, CallOk
  <2>4. CallInv'
    BY ZenonT(40), <1>2, <1>3, <2>1, <2>2, <2>3, OthersKeep DEF CallInv, CallTypes
  <2>5. UNCHANGED Contract!vars
    BY <1>1, <1>2, <2>1, <2>2, StutterMaps DEF CallInv, CallTypes
  <2>. QED
    BY <2>4, <2>5
<1>. QED
  BY ZenonT(40), <1>5, <1>6
-------------------------------------------------------------------------------
(* The steps of the Python clients. *)

LEMMA LockContract ==
    ASSUME CallInv, NEW p \in Procs,
           TakeCached(p) \/ BeginAdmit(p) \/ AdoptRefreshed(p) \/ BeginReadmit(p)
    PROVE  Implements
<1>1. pc[p] \in {"lockTicket", "lockRefresh"} /\ applied[p] = 0 /\ pc[p] \in Pending
  BY Zenon DEF TakeCached, BeginAdmit, AdoptRefreshed, BeginReadmit, CallInv, CallTypes, CallOk,
     Pending, ClientPCs, PCs, Holding
<1>2. PICK c \in {"send", "handshake"} :
        /\ pc' = [pc EXCEPT ![p] = c] /\ kind' = kind /\ signer' = signer /\ applied' = applied
        /\ answer' \in {answer, [answer EXCEPT ![p] = None]}
        /\ c = "send" => kind[p] # "admit"
  <2>1. CASE TakeCached(p)
    BY Zenon, <2>1 DEF TakeCached, GoTo, historyVars
  <2>2. CASE BeginAdmit(p)
    BY Zenon, <2>2 DEF BeginAdmit, GoTo, historyVars
  <2>3. CASE AdoptRefreshed(p)
    BY Zenon, <2>3 DEF AdoptRefreshed, GoTo, historyVars, CallInv, CallOk, Holding
  <2>4. CASE BeginReadmit(p)
    BY Zenon, <2>4 DEF BeginReadmit, GoTo, historyVars
  <2>. QED
    BY Zenon, <2>1, <2>2, <2>3, <2>4
<1>3. /\ c \in Pending \ {"rejected", "lockForget"}
      /\ kind[p] = "admit" => c \in {"handshake", "lockTicket", "joined", "resolved"}
  BY <1>2 DEF Pending, ClientPCs, PCs, Holding
<1>. QED
  BY Zenon, <1>1, <1>2, <1>3, OnTheWay DEF Implements

LEMMA AdmitFailsContract ==
    ASSUME CallInv, NEW p \in Procs, AdmitLost(p) \/ AdmitRefused(p)
    PROVE  Implements
<1>1. pc[p] = "handshake" /\ applied[p] = 0 /\ pc[p] \in Pending /\ kind' = kind /\ signer' = signer
  BY DEF AdmitLost, AdmitRefused, CallInv, CallTypes, CallOk, Pending, ClientPCs, PCs, Holding
<1>2. PICK a \in Answers, e \in {applied[p], 1} :
        /\ pc' = [pc EXCEPT ![p] = "returned"] /\ answer' = [answer EXCEPT ![p] = a]
        /\ applied' = [applied EXCEPT ![p] = e] /\ a # "ok"
        /\ a \in {"unauthenticated", "unavailable"} => e = 0
  <2>1. CASE AdmitLost(p)
    <3>1. applied' \in {[applied EXCEPT ![p] = 0], [applied EXCEPT ![p] = 1]}
      BY <1>1, <2>1 DEF AdmitLost, Mint, CallInv, CallTypes
    <3>. QED
      BY ZenonT(40), <1>1, <2>1, <3>1 DEF AdmitLost, Return, GoTo, Answers
  <2>2. CASE AdmitRefused(p)
    <3>1. applied' = [applied EXCEPT ![p] = 0]
      BY <1>1, <2>2 DEF AdmitRefused, CallInv, CallTypes
    <3>. QED
      BY Zenon, <1>1, <2>2, <3>1 DEF AdmitRefused, Return, GoTo, Answers
  <2>. QED
    BY <2>1, <2>2
<1>. QED
  BY ZenonT(40), <1>1, <1>2, ItReturns DEF Implements

LEMMA StoreContract ==
    ASSUME CallInv, NEW p \in Procs, Store(p)
    PROVE  Implements
<1>1. /\ pc[p] = "store" /\ pc[p] \in Pending /\ kind' = kind /\ signer' = signer
      /\ applied' = applied /\ applied[p] = IF kind[p] = "admit" THEN 1 ELSE 0
  BY Zenon DEF Store, CallInv, CallTypes, CallOk, Pending, ClientPCs, PCs, Holding
<1>2. CASE kind[p] # "admit"
  <2>1. "send" \in Pending \ {"rejected", "lockForget"}
    BY DEF Pending, ClientPCs, PCs
  <2>. QED
    BY Zenon, <1>1, <1>2, <2>1, OnTheWay DEF Store, GoTo, Implements
<1>3. CASE kind[p] = "admit"
  <2>1. pc' = [pc EXCEPT ![p] = "returned"] /\ answer' = [answer EXCEPT ![p] = "ok"]
    BY Zenon, <1>3 DEF Store, Return, GoTo
  <2>2. applied' = [applied EXCEPT ![p] = 1] /\ "ok" \in Answers
    BY <1>1, <1>3 DEF CallInv, CallTypes, Answers
  <2>. QED
    BY Zenon, <1>1, <2>1, <2>2, ItReturns DEF Implements
<1>. QED
  BY Zenon, <1>2, <1>3

LEMMA ForgetContract ==
    ASSUME CallInv, NEW p \in Procs, Forget(p) \/ TsForget(p)
    PROVE  Implements
<1>1. /\ pc[p] = "lockForget" /\ pc[p] \in Pending /\ kind' = kind /\ signer' = signer
      /\ pc' = [pc EXCEPT ![p] = "returned"] /\ answer' = answer /\ applied' = applied
  BY Zenon DEF Forget, TsForget, GoTo, historyVars, CallInv, CallTypes, CallOk, Pending, ClientPCs, PCs
<1>2. applied[p] = 0 /\ answer[p] \in Answers \ {"ok"}
  BY <1>1 DEF CallInv, CallTypes, CallOk
<1>3. answer' = [answer EXCEPT ![p] = answer[p]] /\ applied' = [applied EXCEPT ![p] = 0]
  BY <1>1, <1>2 DEF CallInv, CallTypes
<1>. QED
  BY Zenon, <1>1, <1>2, <1>3, ItReturns DEF Implements

LEMMA CancelContract ==
    ASSUME CallInv, NEW p \in Procs, Cancel(p)
    PROVE  Implements
<1>1. /\ pc[p] \in Pending /\ kind' = kind /\ signer' = signer /\ applied' = applied
      /\ pc' = [pc EXCEPT ![p] = "returned"] /\ answer' = [answer EXCEPT ![p] = "other"]
  BY DEF Cancel, Return, GoTo, CallInv, CallTypes, Pending
<1>2. applied' = [applied EXCEPT ![p] = applied[p]] /\ "other" \in Answers
  BY <1>1 DEF CallInv, CallTypes, Answers
<1>. QED
  BY Zenon, <1>1, <1>2, ItReturns DEF Implements
-------------------------------------------------------------------------------
(* The steps of the TypeScript client. *)

LEMMA LeadOrJoinGoes ==
    ASSUME NEW p \in Procs, LeadOrJoin(p)
    PROVE  \E c \in {"handshake", "joined"} : pc' = [pc EXCEPT ![p] = c]
BY DEF LeadOrJoin, GoTo

LEMMA TsTicketContract ==
    ASSUME CallInv, NEW p \in Procs,
           TsTakeCached(p) \/ TsBeginAdmit(p) \/ TsAdoptRefreshed(p) \/ TsBeginReadmit(p)
    PROVE  Implements
<1>1. pc[p] \in {"lockTicket", "lockRefresh"} /\ applied[p] = 0 /\ pc[p] \in Pending
  BY Zenon DEF TsTakeCached, TsBeginAdmit, TsAdoptRefreshed, TsBeginReadmit, CallInv, CallTypes, CallOk,
     Pending, ClientPCs, PCs, Holding
<1>2. PICK c \in {"send", "handshake", "joined"} :
        /\ pc' = [pc EXCEPT ![p] = c] /\ kind' = kind /\ signer' = signer /\ applied' = applied
        /\ answer' \in {answer, [answer EXCEPT ![p] = None]}
        /\ c = "send" => kind[p] # "admit"
  <2>1. CASE TsTakeCached(p)
    BY Zenon, <2>1 DEF TsTakeCached, GoTo, historyVars
  <2>2. CASE TsBeginAdmit(p)
    BY Zenon, <2>2, LeadOrJoinGoes DEF TsBeginAdmit, historyVars
  <2>3. CASE TsAdoptRefreshed(p)
    BY Zenon, <2>3 DEF TsAdoptRefreshed, GoTo, historyVars, CallInv, CallOk, Holding
  <2>4. CASE TsBeginReadmit(p)
    BY Zenon, <2>4, LeadOrJoinGoes DEF TsBeginReadmit, historyVars
  <2>. QED
    BY Zenon, <2>1, <2>2, <2>3, <2>4
<1>3. /\ c \in Pending \ {"rejected", "lockForget"}
      /\ kind[p] = "admit" => c \in {"handshake", "lockTicket", "joined", "resolved"}
  BY Zenon, <1>2 DEF Pending, ClientPCs, PCs, Holding
<1>. QED
  BY Zenon, <1>1, <1>2, <1>3, OnTheWay DEF Implements

\* Whoever awaits the promise of p's handshake, p included, is on its way, and
\* only p's own call may have been carried out.
LEMMA AwaitingArePending ==
    ASSUME CallInv, NEW p \in Procs, pc[p] \in {"handshake", "store"}, NEW q \in Awaiting(p)
    PROVE  /\ q \in Procs /\ pc[q] \in Pending
           /\ kind[q] = "admit" => signer[q] # None
           /\ q # p => applied[q] = 0
           /\ applied[q] = 1 => kind[q] = "admit"
BY DEF Awaiting, CallInv, CallTypes, CallOk, Pending, ClientPCs, PCs, Holding

LEMMA SettleContract ==
    ASSUME CallInv, NEW p \in Procs, TsSettle(p)
    PROVE  Implements
<1>1. /\ pc[p] = "store" /\ kind' = kind /\ signer' = signer /\ applied' = applied /\ answer' = answer
      /\ pc' = [q \in Procs |-> IF q \in Awaiting(p) THEN "resolved" ELSE pc[q]]
  BY DEF TsSettle
<1>2. "resolved" \in Pending
  BY DEF Pending, ClientPCs, PCs
<1>3. CallTypes'
  BY <1>1, <1>2 DEF CallInv, CallTypes, Pending
<1>4. ASSUME NEW q \in Procs PROVE CallOk(q)'
  <2>1. CASE q \in Awaiting(p)
    BY Zenon, <1>1, <2>1, AwaitingArePending DEF CallOk, CallInv, CallTypes
  <2>2. CASE q \notin Awaiting(p)
    BY ZenonT(40), <1>1, <2>2 DEF CallOk, CallInv, CallTypes
  <2>. QED
    BY Zenon, <2>1, <2>2
<1>5. UNCHANGED Contract!vars
  BY <1>1, <1>2, AwaitingArePending, StutterMaps
<1>. QED
  BY Zenon, <1>3, <1>4, <1>5 DEF Implements, CallInv

\* The handshake fails: whoever awaits it is rejected with its error.
LEMMA RejectContract ==
    ASSUME CallInv, NEW p \in Procs, TsAdmitLost(p) \/ TsAdmitRefused(p)
    PROVE  Implements
<1>1. pc[p] = "handshake" /\ applied[p] = 0 /\ pc[p] \in Pending /\ kind' = kind /\ signer' = signer
  BY Zenon DEF TsAdmitLost, TsAdmitRefused, CallInv, CallTypes, CallOk, Pending, ClientPCs, PCs, Holding
<1>2. PICK a \in Answers \ {"ok"} :
        /\ pc' = [q \in Procs |-> IF q \in Awaiting(p) THEN "rejected" ELSE pc[q]]
        /\ answer' = [q \in Procs |-> IF q \in Awaiting(p) THEN a ELSE answer[q]]
        /\ \/ applied' = applied
           \/ applied' = [applied EXCEPT ![p] = 1] /\ a = "other" /\ kind[p] = "admit"
  <2>1. CASE TsAdmitLost(p)
    <3>1. \/ applied' = applied
          \/ applied' = [applied EXCEPT ![p] = 1] /\ kind[p] = "admit"
      BY <1>1, <2>1 DEF TsAdmitLost, Mint
    <3>. QED
      BY Zenon, <2>1, <3>1 DEF TsAdmitLost, RejectAll, Answers
  <2>2. CASE TsAdmitRefused(p)
    BY Zenon, <2>2 DEF TsAdmitRefused, RejectAll
  <2>. QED
    BY Zenon, <2>1, <2>2
<1>3. "rejected" \in Pending /\ p \in Awaiting(p)
  BY Zenon DEF Pending, ClientPCs, PCs, Awaiting
<1>4. CallTypes'
  BY <1>1, <1>2, <1>3 DEF CallInv, CallTypes, Pending
<1>5. ASSUME NEW q \in Procs PROVE CallOk(q)'
  <2>1. CASE q \in Awaiting(p)
    <3>1. applied[q] = 0
      BY Zenon, <1>1, <2>1, AwaitingArePending DEF CallInv, CallTypes
    <3>2. applied'[q] = 1 => a = "other"
      BY <1>2, <3>1 DEF CallInv, CallTypes
    <3>. QED
      BY Zenon, <1>1, <1>2, <2>1, <3>1, <3>2, AwaitingArePending DEF CallOk, CallInv, CallTypes
  <2>2. CASE q \notin Awaiting(p)
    <3>1. q # p /\ applied'[q] = applied[q]
      BY Zenon, <1>2, <1>3, <2>2 DEF CallInv, CallTypes
    <3>. QED
      BY Zenon, <1>1, <1>2, <2>2, <3>1 DEF CallOk, CallInv, CallTypes
  <2>. QED
    BY Zenon, <2>1, <2>2
<1>6. \A q \in Procs : \/ pc[q] \in Pending /\ pc'[q] \in Pending
                       \/ q # p /\ pc'[q] = pc[q] /\ answer'[q] = answer[q]
  BY Zenon, <1>1, <1>2, <1>3, AwaitingArePending
<1>7. [Contract!Next]_(Contract!vars)
  <2>1. CASE applied' = applied
    BY <1>6, <2>1, StutterMaps
  <2>2. CASE applied' = [applied EXCEPT ![p] = 1]
    BY Zenon, <1>1, <1>6, <2>2, ApplyMaps DEF CallInv
  <2>. QED
    BY Zenon, <1>2, <2>1, <2>2
<1>. QED
  BY Zenon, <1>4, <1>5, <1>7 DEF Implements, CallInv

\* A caller runs on after the promise.
LEMMA ResumeContract ==
    ASSUME CallInv, NEW p \in Procs, Resume(p)
    PROVE  Implements
<1>1. pc[p] \in {"resolved", "rejected"} /\ pc[p] \in Pending /\ kind' = kind /\ signer' = signer
  BY DEF Resume, TsResume, Pending, ClientPCs, PCs
<1>2. CASE pc[p] = "resolved" /\ kind[p] # "admit"
  <2>1. "send" \in Pending \ {"rejected", "lockForget"}
    BY DEF Pending, ClientPCs, PCs
  <2>2. applied[p] = 0
    BY Zenon, <1>2 DEF CallInv, CallTypes, CallOk
  <2>3. pc' = [pc EXCEPT ![p] = "send"] /\ answer' = answer /\ applied' = applied
    BY <1>2 DEF Resume, TsResume, GoTo
  <2>. QED
    BY Zenon, <1>1, <1>2, <2>1, <2>2, <2>3, OnTheWay DEF Implements
<1>3. CASE pc[p] = "resolved" /\ kind[p] = "admit"
  <2>1. /\ pc' = [pc EXCEPT ![p] = "returned"] /\ answer' = [answer EXCEPT ![p] = "ok"]
        /\ applied' = [applied EXCEPT ![p] = 1] /\ "ok" \in Answers
    BY <1>3 DEF Resume, TsResume, Return, GoTo, Answers
  <2>. QED
    BY Zenon, <1>1, <2>1, ItReturns DEF Implements
<1>4. CASE pc[p] = "rejected"
  <2>1. /\ pc' = [pc EXCEPT ![p] = "returned"] /\ answer' = [answer EXCEPT ![p] = answer[p]]
        /\ applied' = applied
    BY Zenon, <1>4 DEF Resume, TsResume, Return, GoTo
  <2>2. /\ answer[p] \in Answers \ {"ok"} /\ applied' = [applied EXCEPT ![p] = applied[p]]
        /\ answer[p] \in {"unauthenticated", "unavailable"} => applied[p] = 0
    BY <1>4, <2>1 DEF CallInv, CallTypes, CallOk
  <2>. QED
    BY Zenon, <1>1, <2>1, <2>2, ItReturns DEF Implements
<1>. QED
  BY Zenon, <1>1, <1>2, <1>3, <1>4
-------------------------------------------------------------------------------
(* The clients. *)

LEMMA InitContract == Init => CallInv /\ Contract!Init
<1>. SUFFICES ASSUME Init PROVE CallInv /\ Contract!Init
  OBVIOUS
<1>1. CallTypes
  BY DEF Init, CallTypes, ClientPCs, PCs
<1>2. \A p \in Procs : CallOk(p)
  BY SMT, SMTT(30) DEF Init, CallOk
<1>3. Contract!Init
  BY DEF Init, Contract!Init
<1>. QED
  BY <1>1, <1>2, <1>3 DEF CallInv

LEMMA CallerContract ==
    ASSUME CallInv, NEW p \in Procs, StartCall(p) \/ Retry(p) \/ Finish(p)
    PROVE  Implements
BY StartContract, RetryContract, FinishContract DEF Implements

LEMMA StepContract ==
    ASSUME CallInv, NEW p \in Procs, Step(p)
    PROVE  Implements
BY Zenon, PresentContract, LockContract, AdmitContract, AdmitFailsContract, StoreContract, SendContract,
   ForgetContract DEF Step

LEMMA TsStepContract ==
    ASSUME CallInv, NEW p \in Procs, TsStep(p)
    PROVE  Implements
BY Zenon, PresentContract, TsTicketContract, AdmitContract, SettleContract, RejectContract,
   ResumeContract, SendContract, ForgetContract DEF TsStep

\* The clock passes a refresh point, or nothing happens.
LEMMA QuietContract ==
    ASSUME CallInv, UNCHANGED vars \/ \E b \in Aids : Age(b)
    PROVE  Implements
<1>1. UNCHANGED <<pc, kind, signer, answer, applied>>
  BY Zenon DEF Age, vars, clientVars, historyVars
<1>2. CallInv'
  BY Zenon, <1>1 DEF CallInv, CallTypes, CallOk
<1>3. UNCHANGED Contract!vars
  BY Zenon, <1>1 DEF Contract!vars
<1>. QED
  BY <1>2, <1>3 DEF Implements

LEMMA AioStepContract ==
    ASSUME CallInv, [AioNext]_vars
    PROVE  Implements
<1>1. ASSUME NEW p \in Procs,
             \/ AioAuthorize(p) \/ AioRunDecision(p) \/ AioOpenSession(p) \/ AioSubmit(p)
             \/ AioCloseSession(p) \/ AioRead(p) \/ AdmitCall(p)
      PROVE  StartCall(p)
  BY <1>1, Zenon DEF AioAuthorize, AioRunDecision, AioOpenSession, AioSubmit, AioCloseSession,
     AioRead, AdmitCall, Authorize, RunDecision, OpenSession, Submit, CloseSession, Read,
     StartCall, AllKinds
<1>2. ASSUME NEW p \in Procs,
             \/ AioPresentation(p) \/ BeginAdmit(p) \/ Admit(p) \/ AdmitLost(p) \/ AdmitRefused(p)
             \/ Store(p) \/ AioTicketFor(p) \/ AioRefreshTicket(p) \/ AioSend(p) \/ AioForget(p)
      PROVE  Step(p)
  BY <1>2, Zenon DEF Step, AioPresentation, AioTicketFor, AioRefreshTicket, AioSend, AioForget
<1>3. ASSUME NEW p \in Procs, AioRetry(p)
      PROVE  Retry(p) \/ Finish(p)
  BY <1>3 DEF AioRetry
<1>4. \/ \E p \in Procs : StartCall(p) \/ Retry(p) \/ Finish(p) \/ Step(p) \/ Cancel(p)
      \/ UNCHANGED vars \/ \E b \in Aids : Age(b)
  BY <1>1, <1>2, <1>3, Zenon DEF AioNext, AioAdmit
<1>. QED
  BY <1>4, CallerContract, StepContract, CancelContract, QuietContract

LEMMA SyncStepContract ==
    ASSUME CallInv, [Next]_vars
    PROVE  Implements
<1>1. ASSUME NEW p \in Procs,
             \/ AdmitCall(p) \/ Authorize(p) \/ RunDecision(p) \/ OpenSession(p) \/ Submit(p)
             \/ CloseSession(p) \/ Read(p)
      PROVE  StartCall(p)
  BY <1>1, Zenon DEF AdmitCall, Authorize, RunDecision, OpenSession, Submit, CloseSession, Read,
     StartCall, AllKinds
<1>2. \/ \E p \in Procs : StartCall(p) \/ Retry(p) \/ Finish(p) \/ Step(p)
      \/ UNCHANGED vars \/ \E b \in Aids : Age(b)
  BY <1>1, Zenon DEF Next
<1>. QED
  BY <1>2, CallerContract, StepContract, QuietContract

LEMMA TsNextContract ==
    ASSUME CallInv, [TsNext]_vars
    PROVE  Implements
BY CallerContract, TsStepContract, QuietContract DEF TsNext

\* The asyncio client implements the contract of a call, cancellation included:
\* over all the attempts of an operation the runtime carries it out at most
\* once, a call that returns has carried it out, and a call that raises
\* UNAUTHENTICATED, SESSION_UNAVAILABLE or TENANT_MOVING has not (authorize,
\* _credentialed_call, _signed_once, admit and with_session_retry_async).
THEOREM AioKeepsContract == AioSpec => CallContractHolds
<1>1. CallInv /\ [AioNext]_vars => CallInv' /\ [Contract!Next]_(Contract!vars)
  BY AioStepContract DEF Implements
<1>. QED
  BY <1>1, InitContract, PTL DEF AioSpec, CallContractHolds, Contract!Spec

\* So does the synchronous client, whatever its threads interleave.
THEOREM SyncKeepsContract == Spec => CallContractHolds
<1>1. CallInv /\ [Next]_vars => CallInv' /\ [Contract!Next]_(Contract!vars)
  BY SyncStepContract DEF Implements
<1>. QED
  BY <1>1, InitContract, PTL DEF Spec, CallContractHolds, Contract!Spec

\* So does the TypeScript client, although one handshake answers several calls:
\* callers that join a handshake share its failure, and an admit that joins a
\* handshake is carried out with it (ts/src/client.ts).
THEOREM TsKeepsContract == TsSpec => CallContractHolds
<1>1. CallInv /\ [TsNext]_vars => CallInv' /\ [Contract!Next]_(Contract!vars)
  BY TsNextContract DEF Implements
<1>. QED
  BY <1>1, InitContract, PTL DEF TsSpec, CallContractHolds, Contract!Spec
==============================================================================
