----------------------------- MODULE AuthProofs -----------------------------
(***************************************************************************)
(* Proofs about Auth, for any number of goroutines and any lifetimes.      *)
(***************************************************************************)
EXTENDS Auth, TLAPS

(* Every step keeps the types.                                             *)
LEMMA StepType == ASSUME TypeOK, [Next]_vars PROVE TypeOK'
<1> USE DEF TypeOK, Pc, Time, Token, Goto
<1>1. CASE Tick
  BY <1>1, TimeAssumption DEF Tick
<1>2. ASSUME NEW w \in Worker, Start(w) \/ Acquire(w) \/ SendRequest(w) PROVE TypeOK'
  BY <1>2 DEF Start, Acquire, SendRequest
<1>3. ASSUME NEW w \in Worker, CheckToken(w) PROVE TypeOK'
  BY <1>3 DEF CheckToken
<1>4. ASSUME NEW w \in Worker, Receive(w)
      PROVE  pc' \in [Worker -> Pc] /\ fresh' \in [Worker -> Token] /\ checked' \in [Worker -> Time]
  BY <1>4, TimeAssumption DEF Receive
<1>5. ASSUME NEW w \in Worker, RefreshToken(w) PROVE TypeOK'
  BY <1>4, <1>5 DEF RefreshToken
<1>6. ASSUME NEW w \in Worker, Login(w) PROVE TypeOK'
  BY <1>6, TimeAssumption DEF Login, Fail
<1>7. ASSUME NEW w \in Worker, RedeemToken(w) PROVE TypeOK'
  <2>1. CASE Receive(w)
    BY <1>4, <1>7, <2>1, TimeAssumption DEF RedeemToken, Receive, Fail
  <2>2. CASE RedeemsLeft(w) /\ tries' = [tries EXCEPT ![w] = @ + 1]
             /\ UNCHANGED <<mu, refresh, pc, fresh, checked>>
    BY <1>7, <2>2, TimeAssumption DEF RedeemToken, RedeemsLeft
  <2>3. CASE Fail(w) /\ UNCHANGED <<refresh, tries, fresh, checked>>
    BY <1>7, <2>3 DEF RedeemToken, Fail
  <2> QED
    BY <1>7, <2>1, <2>2, <2>3 DEF RedeemToken
<1>8. ASSUME NEW w \in Worker, Store(w) PROVE TypeOK'
  BY <1>8 DEF Store
<1>9. ASSUME NEW w \in Worker, ReadToken(w) PROVE TypeOK'
  BY <1>9 DEF ReadToken
<1>10. CASE UNCHANGED vars
  BY <1>10 DEF vars
<1> QED
  BY <1>1, <1>2, <1>3, <1>5, <1>6, <1>7, <1>8, <1>9, <1>10 DEF Next, Step

(* The clock leaves a token that is due as it is; so nobody who refreshes  *)
(* one finds it replaced, as long as the others wait for the mutex.        *)
LEMMA StepMutex ==
    ASSUME TypeOK, MutexHeld, RefreshesOnlyDue, [Next]_vars
    PROVE  MutexHeld' /\ RefreshesOnlyDue'
<1> USE DEF TypeOK, Time, Token, Goto, MutexHeld, RefreshesOnlyDue, Locked, Due
<1>1. CASE Tick
  BY <1>1, TimeAssumption DEF Tick
<1>2. ASSUME NEW w \in Worker, Start(w) \/ Acquire(w) \/ SendRequest(w) \/ ReadToken(w)
      PROVE  MutexHeld' /\ RefreshesOnlyDue'
  BY <1>2, WorkerAssumption DEF Start, Acquire, SendRequest, ReadToken
<1>3. ASSUME NEW w \in Worker, CheckToken(w) PROVE MutexHeld' /\ RefreshesOnlyDue'
  BY <1>3 DEF CheckToken
<1>4. ASSUME NEW w \in Worker, RefreshToken(w) PROVE MutexHeld' /\ RefreshesOnlyDue'
  BY <1>4 DEF RefreshToken, Receive
<1>5. ASSUME NEW w \in Worker, Login(w) PROVE MutexHeld' /\ RefreshesOnlyDue'
  BY <1>5 DEF Login, Fail
<1>6. ASSUME NEW w \in Worker, RedeemToken(w) PROVE MutexHeld' /\ RefreshesOnlyDue'
  BY <1>6 DEF RedeemToken, Receive, Fail
<1>7. ASSUME NEW w \in Worker, Store(w) PROVE MutexHeld' /\ RefreshesOnlyDue'
  BY <1>7 DEF Store
<1>8. CASE UNCHANGED vars
  BY <1>8 DEF vars
<1> QED
  BY <1>1, <1>2, <1>3, <1>4, <1>5, <1>6, <1>7, <1>8 DEF Next, Step

(* What TokensLast says of one worker.                                     *)
Lasting(w) ==
    /\ checked[w] <= now
    /\ pc[w] \in {"store", "read", "send"} => now < checked[w] + Margin
    /\ pc[w] = "store" => fresh[w] >= checked[w] + Margin
    /\ pc[w] = "read" =>
          /\ session >= checked[w] + Margin
          /\ \A v \in Worker : pc[v] = "store" => fresh[v] >= checked[w] + Margin
    /\ pc[w] = "send" /\ header[w] # Torn => header[w] >= checked[w] + Margin

(* A token received now outlasts what any worker made sure of before.      *)
LEMMA ReceiveLasts ==
    ASSUME IInv, NEW w \in Worker, pc[w] \in Locked, Receive(w),
           UNCHANGED <<now, session, header>>
    PROVE  TokensLast'
<1> USE DEF IInv, TypeOK, Time, Token, Goto, TokensLast, Receive
<1>1. ASSUME NEW u \in Worker PROVE Lasting(u)'
  <2>1. u # w => pc'[u] = pc[u] /\ checked'[u] = checked[u] /\ fresh'[u] = fresh[u]
    OBVIOUS
  <2>2. pc'[w] = "store" /\ checked'[w] = now /\ fresh'[w] = now + Life
    OBVIOUS
  <2>3. CASE u = w
    BY <2>2, <2>3, TimeAssumption DEF Lasting
  <2>4. CASE u # w
    BY <2>1, <2>2, <2>4, TimeAssumption DEF Lasting
  <2> QED
    BY <2>3, <2>4
<1> QED
  BY <1>1 DEF Lasting

(* Every step keeps the tokens in use valid.                               *)
LEMMA StepLasts ==
    ASSUME IInv, TypeOK', [Next]_vars
    PROVE  TokensLast'
<1> USE DEF IInv, TypeOK, Time, Token
<1>1. CASE Tick
  BY <1>1, TimeAssumption DEF Tick, TokensLast
<1>2. ASSUME NEW w \in Worker, Start(w) \/ Acquire(w) \/ SendRequest(w) PROVE TokensLast'
  BY <1>2 DEF Start, Acquire, SendRequest, Goto, TokensLast
<1>3. ASSUME NEW w \in Worker, CheckToken(w) PROVE TokensLast'
  <2>1. CASE Due
    BY <1>3, <2>1 DEF CheckToken, Goto, TokensLast
  <2>2. CASE ~Due
    <3>1. \A v \in Worker : pc[v] # "store"
      BY <1>3 DEF CheckToken, MutexHeld, Locked
    <3> QED
      BY <1>3, <2>2, <3>1, TimeAssumption DEF CheckToken, Due, Goto, TokensLast
  <2> QED
    BY <2>1, <2>2
<1>4. ASSUME NEW w \in Worker, RefreshToken(w) PROVE TokensLast'
  BY <1>4, ReceiveLasts DEF RefreshToken, Locked, Goto, TokensLast
<1>5. ASSUME NEW w \in Worker, Login(w) PROVE TokensLast'
  BY <1>5 DEF Login, Fail, Goto, TokensLast
<1>6. ASSUME NEW w \in Worker, RedeemToken(w) PROVE TokensLast'
  BY <1>6, ReceiveLasts DEF RedeemToken, Fail, Locked, Goto, TokensLast
<1>7. ASSUME NEW w \in Worker, Store(w) PROVE TokensLast'
  <2>1. \A v \in Worker \ {w} : pc[v] # "store"
    BY <1>7 DEF Store, MutexHeld, Locked
  <2> QED
    BY <1>7, <2>1 DEF Store, Goto, TokensLast
<1>8. ASSUME NEW w \in Worker, ReadToken(w) PROVE TokensLast'
  BY <1>8 DEF ReadToken, Goto, TokensLast
<1>9. CASE UNCHANGED vars
  BY <1>9 DEF vars, TokensLast
<1> QED
  BY <1>1, <1>2, <1>3, <1>4, <1>5, <1>6, <1>7, <1>8, <1>9 DEF Next, Step

(* The inductive invariant holds in every reachable state.                 *)
THEOREM AuthInvariance == Spec => []IInv
<1>1. Init => IInv
  BY TimeAssumption
     DEF Init, IInv, TypeOK, Time, Token, Pc, MutexHeld, RefreshesOnlyDue, Locked, TokensLast
<1>2. IInv /\ [Next]_vars => IInv'
  BY StepType, StepMutex, StepLasts DEF IInv
<1> QED
  BY <1>1, <1>2, PTL DEF Spec

(* Goroutines that share the client never refresh, or log in, for a token  *)
(* that another one has replaced already (checkToken).                     *)
THEOREM RefreshIsDue == Spec => []RefreshesOnlyDue
<1>1. IInv => RefreshesOnlyDue
  BY DEF IInv
<1> QED
  BY <1>1, AuthInvariance, PTL

(* A request carries a token that has not expired, or one torn by a        *)
(* concurrent write, although it is read outside of the mutex.             *)
THEOREM TokensAreValid == Spec => []CarriesValidToken
<1>1. IInv => CarriesValidToken
  BY TimeAssumption
     DEF IInv, TypeOK, Time, Token, TokensLast, CarriesValidToken
<1> QED
  BY <1>1, AuthInvariance, PTL

=============================================================================
