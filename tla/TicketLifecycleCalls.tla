------------------------ MODULE TicketLifecycleCalls -------------------------
(***************************************************************************)
(* The inductive invariant is preserved by the start and the end of a call, *)
(* by presenting a ticket, by what is decided under the lock, and by an    *)
(* admit that succeeds or whose answer is lost.                            *)
(***************************************************************************)
EXTENDS TicketLifecycleTypes

-------------------------------------------------------------------------------
(* The inductive invariant is preserved, action by action. *)

LEMMA StartCallPreserves ==
    ASSUME IndInv, NEW p \in Procs, StartCall(p)
    PROVE  IndInv'
<1>. USE SMT, SMTT(60) DEF IndInv
<1>t. TypeOK'
  BY StartCallType
<1>1. LockDiscipline'
  BY DEF StartCall, Start, Entry, Unpresented, GoTo, Holding, LockDiscipline, TypeOK
<1>2. ControlInv'
  BY SMT, SMTT(30), ConstantsAssumption DEF StartCall, Start, Entry, Unpresented, SignersOf, GoTo, serverVars, TypeOK,
    ControlInv
<1>3. TicketInv'
  BY DEF StartCall, Start, Entry, Unpresented, GoTo, serverVars, TypeOK, TicketInv, ControlInv
<1>4. FreshInv'
  BY DEF StartCall, Start, Entry, Unpresented, GoTo, serverVars, FreshInv, TypeOK
<1>5. GiveUpInv'
  BY DEF StartCall, Start, Entry, Unpresented, GoTo, historyVars, Holding, GiveUpInv, Get, TypeOK
<1>6. NoGoodTicketDiscarded'
  BY DEF StartCall, Start, GoTo, serverVars, historyVars, NoGoodTicketDiscarded, TypeOK
<1>7. BurnedInv'
  BY DEF StartCall, Start, GoTo, serverVars, BurnedInv, ControlInv, Get, TypeOK
<1>8. NoReplayedBytes'
  BY DEF StartCall, Start, GoTo, serverVars, NoReplayedBytes, ControlInv, TypeOK
<1>. QED
  BY <1>t, <1>1, <1>2, <1>3, <1>4, <1>5, <1>6, <1>7, <1>8

LEMMA RetryPreserves ==
    ASSUME IndInv, NEW p \in Procs, Retry(p)
    PROVE  IndInv'
<1>. USE SMT, SMTT(60) DEF IndInv
<1>t. TypeOK'
  BY RetryType
<1>1. LockDiscipline'
  BY DEF Retry, Entry, Unpresented, GoTo, Holding, LockDiscipline, TypeOK
<1>2. ControlInv'
  BY DEF Retry, Entry, Unpresented, GoTo, serverVars, TypeOK, ControlInv
<1>3. TicketInv'
  BY DEF Retry, Entry, Unpresented, GoTo, serverVars, TicketInv, TypeOK
<1>4. FreshInv'
  BY DEF Retry, Entry, Unpresented, GoTo, serverVars, FreshInv, TicketInv, TypeOK
<1>5. GiveUpInv'
  BY DEF Retry, Entry, Unpresented, GoTo, Holding, GiveUpInv, Get, TypeOK
<1>6. NoGoodTicketDiscarded'
  BY DEF Retry, GoTo, serverVars, NoGoodTicketDiscarded, TypeOK
<1>7. BurnedInv'
  BY DEF Retry, RetryableAnswers, GoTo, serverVars, BurnedInv, Get, TypeOK
<1>8. NoReplayedBytes'
  BY DEF Retry, Entry, Unpresented, GoTo, serverVars, NoReplayedBytes, TypeOK
<1>. QED
  BY <1>t, <1>1, <1>2, <1>3, <1>4, <1>5, <1>6, <1>7, <1>8

LEMMA FinishPreserves ==
    ASSUME IndInv, NEW p \in Procs, Finish(p)
    PROVE  IndInv'
<1>. USE SMT, SMTT(60) DEF IndInv
<1>t. TypeOK'
  BY FinishType
<1>1. LockDiscipline'
  BY SMT, SMTT(30) DEF Finish, GoTo, Holding, LockDiscipline, TypeOK
<1>2. ControlInv'
  BY DEF Finish, GoTo, TypeOK, ControlInv
<1>3. TicketInv'
  BY DEF Finish, GoTo, TypeOK, TicketInv
<1>4. FreshInv'
  BY DEF Finish, GoTo, FreshInv, TicketInv, TypeOK
<1>5. GiveUpInv'
  BY DEF Finish, GoTo, Holding, GiveUpInv, Get, TypeOK
<1>6. NoGoodTicketDiscarded'
  BY DEF Finish, GoTo, NoGoodTicketDiscarded, TypeOK
<1>7. BurnedInv'
  BY DEF Finish, GoTo, TypeOK, BurnedInv, Get
<1>8. NoReplayedBytes'
  BY DEF Finish, GoTo, NoReplayedBytes, TypeOK
<1>. QED
  BY <1>t, <1>1, <1>2, <1>3, <1>4, <1>5, <1>6, <1>7, <1>8

LEMMA PresentPreserves ==
    ASSUME IndInv, NEW p \in Procs, Present(p)
    PROVE  IndInv'
<1>. USE SMT, SMTT(60) DEF IndInv
<1>t. TypeOK'
  BY PresentType
<1>1. LockDiscipline'
  BY DEF Present, Unpresented, GoTo, Holding, LockDiscipline, TypeOK
<1>2. ControlInv'
  BY DEF Present, Unpresented, GoTo, TypeOK, ControlInv
<1>3. TicketInv'
  BY DEF Present, Unpresented, GoTo, TicketInv, TypeOK
<1>4. FreshInv'
  BY DEF Present, Unpresented, GoTo, FreshInv, TypeOK
<1>5. GiveUpInv'
  BY DEF Present, Unpresented, GoTo, Holding, GiveUpInv, Get, TypeOK
<1>6. NoGoodTicketDiscarded'
  BY DEF Present, GoTo, NoGoodTicketDiscarded, TypeOK
<1>7. BurnedInv'
  BY DEF Present, GoTo, BurnedInv, Get, TypeOK
<1>8. NoReplayedBytes'
  BY DEF Present, GoTo, TypeOK, NoReplayedBytes
<1>. QED
  BY <1>t, <1>1, <1>2, <1>3, <1>4, <1>5, <1>6, <1>7, <1>8

LEMMA PresentRefusedPreserves ==
    ASSUME IndInv, NEW p \in Procs, PresentRefused(p)
    PROVE  IndInv'
<1>. USE SMT, SMTT(60) DEF IndInv
<1>t. TypeOK'
  BY PresentRefusedType
<1>1. LockDiscipline'
  BY DEF PresentRefused, Return, GoTo, Holding, LockDiscipline, TypeOK
<1>2. ControlInv'
  BY DEF PresentRefused, Return, GoTo, serverVars, ControlInv, TypeOK
<1>3. TicketInv'
  BY DEF PresentRefused, Return, GoTo, serverVars, TicketInv, TypeOK
<1>4. FreshInv'
  BY DEF PresentRefused, Return, GoTo, serverVars, FreshInv, TypeOK
<1>5. GiveUpInv'
  BY DEF PresentRefused, Return, GoTo, Holding, GiveUpInv, Get, TypeOK
<1>6. NoGoodTicketDiscarded'
  BY DEF PresentRefused, Return, GoTo, serverVars, NoGoodTicketDiscarded, TypeOK
<1>7. BurnedInv'
  BY DEF PresentRefused, Return, GoTo, serverVars, BurnedInv, Get, TypeOK
<1>8. NoReplayedBytes'
  BY ZenonT(40) DEF PresentRefused, Return, GoTo, serverVars, NoReplayedBytes, TypeOK
<1>. QED
  BY <1>t, <1>1, <1>2, <1>3, <1>4, <1>5, <1>6, <1>7, <1>8

LEMMA TakeCachedPreserves ==
    ASSUME IndInv, NEW p \in Procs, TakeCached(p)
    PROVE  IndInv'
<1>. USE SMT, SMTT(60) DEF IndInv
<1>t. TypeOK'
  BY TakeCachedType
<1>a. signer[p] \in Aids /\ cache[signer[p]] # NoTicket /\ Get(signer[p]) = cache[signer[p]]
  BY DEF TakeCached, ControlInv, Get
<1>b. ticket' = [ticket EXCEPT ![p] = cache[signer[p]]] /\ pc' = [pc EXCEPT ![p] = "send"]
  BY <1>a DEF TakeCached, GoTo
<1>1. LockDiscipline'
  BY SMT, SMTT(30) DEF TakeCached, GoTo, Holding, LockDiscipline, TypeOK
<1>2. ControlInv'
  BY DEF TakeCached, GoTo, serverVars, ControlInv, TypeOK
<1>3. TicketInv'
  BY SMT, SMTT(30), <1>a, <1>b DEF TakeCached, TicketInv, TypeOK, serverVars
<1>4. FreshInv'
  BY SMT, SMTT(30), <1>a, <1>b DEF TakeCached, FreshInv, TypeOK, serverVars
<1>5. GiveUpInv'
  BY DEF TakeCached, GoTo, historyVars, Holding, GiveUpInv, Get, TypeOK
<1>6. NoGoodTicketDiscarded'
  BY DEF TakeCached, GoTo, serverVars, historyVars, NoGoodTicketDiscarded, TypeOK
<1>7. BurnedInv'
  BY DEF TakeCached, GoTo, serverVars, BurnedInv, Get, TypeOK
<1>8. NoReplayedBytes'
  BY Zenon, <1>a, <1>b DEF TakeCached, NoReplayedBytes, BurnedInv, ControlInv, TypeOK, serverVars
<1>. QED
  BY <1>t, <1>1, <1>2, <1>3, <1>4, <1>5, <1>6, <1>7, <1>8

LEMMA BeginAdmitPreserves ==
    ASSUME IndInv, NEW p \in Procs, BeginAdmit(p)
    PROVE  IndInv'
<1>. USE SMT, SMTT(60) DEF IndInv
<1>t. TypeOK'
  BY BeginAdmitType
<1>1. LockDiscipline'
  BY SMT, SMTT(30), ConstantsAssumption DEF BeginAdmit, LockFree, GoTo, TypeOK, Holding, LockDiscipline
<1>2. ControlInv'
  BY DEF BeginAdmit, GoTo, serverVars, ControlInv, TypeOK
<1>3. TicketInv'
  BY DEF BeginAdmit, GoTo, serverVars, TicketInv, TypeOK
<1>4. FreshInv'
  BY DEF BeginAdmit, GoTo, serverVars, FreshInv, TypeOK
<1>5. GiveUpInv'
  BY DEF BeginAdmit, GoTo, historyVars, GiveUpInv, Get, TypeOK
<1>6. NoGoodTicketDiscarded'
  BY DEF BeginAdmit, GoTo, serverVars, historyVars, NoGoodTicketDiscarded, TypeOK
<1>7. BurnedInv'
  BY DEF BeginAdmit, GoTo, serverVars, BurnedInv, Get, TypeOK
<1>8. NoReplayedBytes'
  BY ZenonT(40) DEF BeginAdmit, GoTo, serverVars, NoReplayedBytes, TypeOK
<1>. QED
  BY <1>t, <1>1, <1>2, <1>3, <1>4, <1>5, <1>6, <1>7, <1>8

LEMMA AdoptRefreshedPreserves ==
    ASSUME IndInv, NEW p \in Procs, AdoptRefreshed(p)
    PROVE  IndInv'
<1>. USE SMT, SMTT(60) DEF IndInv
<1>t. TypeOK'
  BY AdoptRefreshedType
<1>a. signer[p] \in Aids /\ cache[signer[p]] # NoTicket /\ Get(signer[p]) = cache[signer[p]]
  BY DEF AdoptRefreshed, ControlInv, Get, Adopts
<1>b. ticket' = [ticket EXCEPT ![p] = cache[signer[p]]] /\ pc' = [pc EXCEPT ![p] = "send"]
  BY <1>a DEF AdoptRefreshed, GoTo
<1>1. LockDiscipline'
  BY SMT, SMTT(30) DEF AdoptRefreshed, GoTo, Holding, LockDiscipline, TypeOK
<1>2. ControlInv'
  BY DEF AdoptRefreshed, GoTo, serverVars, ControlInv, TypeOK
<1>3. TicketInv'
  BY <1>a, <1>b DEF AdoptRefreshed, TicketInv, TypeOK, serverVars
<1>4. FreshInv'
  BY SMT, SMTT(30), <1>a, <1>b DEF AdoptRefreshed, FreshInv, TypeOK, serverVars
<1>5. GiveUpInv'
  BY DEF AdoptRefreshed, GoTo, historyVars, TypeOK, Holding, GiveUpInv, Get
<1>6. NoGoodTicketDiscarded'
  BY DEF AdoptRefreshed, GoTo, serverVars, historyVars, NoGoodTicketDiscarded, TypeOK
<1>7. BurnedInv'
  BY ZenonT(40) DEF AdoptRefreshed, Adopts, GoTo, serverVars, BurnedInv, Get, TypeOK
<1>8. NoReplayedBytes'
  BY Zenon DEF AdoptRefreshed, Adopts, GoTo, serverVars, TypeOK, NoReplayedBytes, BurnedInv
<1>. QED
  BY <1>t, <1>1, <1>2, <1>3, <1>4, <1>5, <1>6, <1>7, <1>8

LEMMA BeginReadmitPreserves ==
    ASSUME IndInv, NEW p \in Procs, BeginReadmit(p)
    PROVE  IndInv'
<1>. USE SMT, SMTT(60) DEF IndInv
<1>t. TypeOK'
  BY BeginReadmitType
<1>1. LockDiscipline'
  BY SMT, SMTT(30), ConstantsAssumption DEF BeginReadmit, LockFree, GoTo, TypeOK, Holding, LockDiscipline
<1>2. ControlInv'
  BY DEF BeginReadmit, GoTo, serverVars, ControlInv, TypeOK
<1>3. TicketInv'
  BY Zenon DEF BeginReadmit, SetCache, GoTo, serverVars, TicketInv, TypeOK
<1>4. FreshInv'
  BY ZenonT(40) DEF BeginReadmit, SetCache, GoTo, serverVars, FreshInv, TicketInv, TypeOK
<1>5. GiveUpInv'
  BY SMT, SMTT(30) DEF BeginReadmit, SetCache, GoTo, historyVars, TypeOK, GiveUpInv, ControlInv, Get
<1>6. NoGoodTicketDiscarded'
  BY SMT, SMTT(30) DEF BeginReadmit, Adopts, SetCache, GoTo, serverVars, historyVars, NoGoodTicketDiscarded,
    GiveUpInv, ControlInv, Get, TypeOK
<1>7. BurnedInv'
  BY DEF BeginReadmit, SetCache, GoTo, serverVars, TypeOK, NoTicket, BurnedInv, TicketInv, Get
<1>8. NoReplayedBytes'
  BY Zenon DEF BeginReadmit, GoTo, serverVars, NoReplayedBytes, TypeOK
<1>. QED
  BY <1>t, <1>1, <1>2, <1>3, <1>4, <1>5, <1>6, <1>7, <1>8

LEMMA AdmitPreserves ==
    ASSUME IndInv, NEW p \in Procs, Admit(p)
    PROVE  IndInv'
<1>. USE DEF IndInv
<1>t. TypeOK'
  BY AdmitType
<1>a. minted + 1 \in Tickets /\ minted \in Nat /\ signer[p] \in Aids
  BY ConstantsAssumption, SMT, SMTT(60) DEF Admit, Mint, Tickets, TypeOK, LockDiscipline, Holding
<1>c. /\ minted' = minted + 1 /\ owner'[minted + 1] = signer[p]
      /\ \A t \in 1..minted : t \in 1..minted' /\ owner'[t] = owner[t]
      /\ minted' \in 1..minted'
  BY <1>a, SMT, SMTT(60) DEF Admit, Mint, TypeOK
<1>b. \A q \in Procs : pc[q] = "store" => ticket[q] \in 1..minted
  BY SMT, SMTT(60) DEF TicketInv
<1>1. LockDiscipline'
  BY SMT, SMTT(60) DEF Admit, GoTo, Holding, LockDiscipline, TypeOK
<1>2. ControlInv'
  BY SMT, SMTT(60) DEF Admit, GoTo, ControlInv, TypeOK
<1>3. TicketInv'
  <2>1. \A t \in 1..minted' : owner'[t] \in Aids
    BY <1>a, <1>c, SMT, SMTT(60) DEF TicketInv
  <2>2. \A q \in Procs : ticket'[q] # NoTicket =>
          ticket'[q] \in 1..minted' /\ owner'[ticket'[q]] = signer'[q]
    BY Zenon, <1>a, <1>c DEF TicketInv, Admit, TypeOK
  <2>3. \A q \in Procs :
          \/ pc'[q] = "send" /\ signer'[q] # None
          \/ pc'[q] \in {"store", "lockRefresh", "lockForget"}
          => ticket'[q] # NoTicket
    BY <1>a, SMT, SMTT(60) DEF TicketInv, Admit, GoTo, TypeOK, NoTicket
  <2>4. \A b \in Aids : cache'[b] # NoTicket =>
          cache'[b] \in 1..minted' /\ owner'[cache'[b]] = b
    BY <1>c, ZenonT(60) DEF TicketInv, Admit
  <2>5. \A q \in Procs : burned'[q] \subseteq 1..minted'
    BY ZenonT(60), <1>c DEF TicketInv, Admit
  <2>. QED
    BY Zenon, <2>1, <2>2, <2>3, <2>4, <2>5 DEF TicketInv
<1>4. FreshInv'
  <2>. SUFFICES ASSUME NEW q \in Procs, pc'[q] = "store"
                PROVE /\ \A r \in Procs : ticket'[q] \notin burned'[r] /\ (r # q => ticket'[r] # ticket'[q])
                      /\ \A a \in Aids : cache'[a] # ticket'[q]
    BY SMT, SMTT(60) DEF FreshInv
  <2>1. CASE q = p
    BY <2>1, <1>a, SMT, SMTT(60) DEF Admit, TicketInv, TypeOK, NoTicket
  <2>2. CASE q # p
    BY <2>2, <1>a, <1>b, SMT, SMTT(60) DEF Admit, FreshInv, TypeOK, GoTo
  <2>. QED BY <2>1, <2>2
<1>5. GiveUpInv'
  <2>1. \A q \in Procs : pc'[q] \in Holding => pc[q] \in Holding
    BY SMT, SMTT(60) DEF Admit, GoTo, Holding, TypeOK
  <2>2. \A q \in Procs : pc'[q] \in {"lockRefresh", "lockForget"} => pc[q] = pc'[q] /\ ticket'[q] = ticket[q]
    BY SMT, SMTT(60) DEF Admit, GoTo, TypeOK
  <2>. QED
    BY <2>1, <2>2, SMT, SMTT(60) DEF Admit, GiveUpInv, Get
<1>6. NoGoodTicketDiscarded'
  BY SMT, SMTT(60) DEF Admit, Mint, GoTo, TypeOK, NoGoodTicketDiscarded
<1>7. BurnedInv'
  BY SMT, SMTT(60) DEF Admit, GoTo, BurnedInv, Get, TypeOK
<1>8. NoReplayedBytes'
  BY ZenonT(40) DEF Admit, GoTo, NoReplayedBytes, TypeOK
<1>. QED
  BY <1>t, <1>1, <1>2, <1>3, <1>4, <1>5, <1>6, <1>7, <1>8

LEMMA AdmitLostPreserves ==
    ASSUME IndInv, NEW p \in Procs, AdmitLost(p)
    PROVE  IndInv'
<1>. USE SMT, SMTT(60) DEF IndInv
<1>t. TypeOK'
  BY AdmitLostType
<1>a. minted + 1 \in Tickets /\ minted \in Nat /\ signer[p] \in Aids
  BY SMT, SMTT(30), ConstantsAssumption DEF AdmitLost, Mint, Tickets, TypeOK, LockDiscipline, Holding
<1>b. /\ minted' = minted + 1 /\ owner'[minted + 1] = signer[p]
      /\ \A t \in 1..minted : t \in 1..minted' /\ owner'[t] = owner[t]
  BY SMT, SMTT(30), <1>a DEF AdmitLost, Mint, TypeOK
<1>1. LockDiscipline'
  BY DEF AdmitLost, Return, Release, GoTo, TypeOK, Holding, LockDiscipline
<1>2. ControlInv'
  BY Zenon DEF AdmitLost, Return, GoTo, ControlInv, TypeOK
<1>3. TicketInv'
  <2>1. \A t \in 1..minted' : owner'[t] \in Aids
    BY SMT, SMTT(30), <1>a, <1>b DEF TicketInv
  <2>2. \A q \in Procs : pc'[q] \notin {"returned"} => pc'[q] = pc[q]
    BY DEF AdmitLost, Return, GoTo, TypeOK
  <2>. QED
    BY ZenonT(40), <1>b, <2>1, <2>2 DEF TicketInv, AdmitLost
<1>4. FreshInv'
  BY Zenon DEF AdmitLost, Return, GoTo, FreshInv, TypeOK
<1>5. GiveUpInv'
  BY DEF AdmitLost, Return, GoTo, Holding, GiveUpInv, Get, TypeOK
<1>6. NoGoodTicketDiscarded'
  BY SMT, SMTT(30) DEF AdmitLost, Mint, Return, GoTo, TypeOK, NoGoodTicketDiscarded
<1>7. BurnedInv'
  BY DEF AdmitLost, Return, GoTo, BurnedInv, Get, TypeOK
<1>8. NoReplayedBytes'
  BY DEF AdmitLost, Return, GoTo, NoReplayedBytes, TypeOK
<1>. QED
  BY <1>t, <1>1, <1>2, <1>3, <1>4, <1>5, <1>6, <1>7, <1>8
==============================================================================
