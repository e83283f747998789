-------------------------- MODULE TokenRenewalProofs --------------------------
(***************************************************************************)
(* Proofs about TokenRenewal: the token never expires while nothing        *)
(* disturbs its renewal, and one timer at most is running unless threads   *)
(* overlap.                                                                *)
(***************************************************************************)
EXTENDS TokenRenewal, TLAPS

(* No thread is two of the kinds of threads whose steps differ.            *)
LEMMA ThreadKinds ==
  /\ Generators \subseteq Threads /\ Disconnects \subseteq Threads
  /\ Timers \subseteq Generators /\ Generates \subseteq Generators
  /\ Setup \in Generators
  /\ \A t \in Generators : t \notin Disconnects
  /\ \A k \in Timers : k # None /\ k \in Nat /\ k > 0
<1>1. \A k \in Timers : k # None /\ k \in Nat /\ k > 0
  BY TokenAssumption DEF Timers
<1>2. QED BY <1>1, TokenAssumption DEF Generators, Threads

(* The initial states satisfy the invariant.                               *)
LEMMA InitInv == Init => TokenInv
<1> SUFFICES ASSUME Init PROVE TokenInv OBVIOUS
<1> USE TokenAssumption, ThreadKinds
<1>1. TypeOK
  <2>1. now \in Nat /\ sasToken \in Nat /\ overlapped \in BOOLEAN
    BY DEF Init
  <2>2. at \in [Threads -> {"idle", "signing", "done"} \union AtTimer]
    BY DEF Init
  <2>3. since \in [Generators -> Nat] /\ due \in [Timers -> Nat]
    BY DEF Init
  <2>4. timer \in Timers \union {None} /\ old \in [Threads -> Timers \union {None}]
    BY DEF Init
  <2>5. running \subseteq Timers /\ made \in 0..MaxTimers /\ faults \in 0..MaxFaults
    BY DEF Init
  <2>6. QED BY <2>1, <2>2, <2>3, <2>4, <2>5 DEF TypeOK
<1>2. OneTimer BY DEF Init, OneTimer
<1>3. AloneAtTimer BY DEF Init, AloneAtTimer, AtTimer
<1>4. Renewed BY DEF Init, Renewed, AtTimer
<1>5. QED BY <1>1, <1>2, <1>3, <1>4 DEF TokenInv

-----------------------------------------------------------------------------
(* Each step leaves the variables in their types.                          *)
LEMMA TypeStep == TypeOK /\ [Next]_vars => TypeOK'
<1> SUFFICES ASSUME TypeOK, [Next]_vars PROVE TypeOK' OBVIOUS
<1> USE TokenAssumption, ThreadKinds DEF TypeOK, AtTimer, Go
<1>1. CASE Tick BY <1>1 DEF Tick, tokens, timing
<1>2. CASE GetCurrentSasToken BY <1>2 DEF GetCurrentSasToken, BeginToSign, timing
<1>3. ASSUME NEW t \in Generates, Generate(t) PROVE TypeOK'
  BY <1>3 DEF Generate, BeginToSign, timing
<1>4. ASSUME NEW t \in Disconnects, Disconnect(t) PROVE TypeOK'
  BY <1>4 DEF Disconnect, Enter, tokens, timing
<1>5. ASSUME NEW k \in Timers, TimerFires(k) PROVE TypeOK'
  BY <1>5 DEF TimerFires, BeginToSign
<1>6. ASSUME NEW t \in Generators, StoreToken(t) PROVE TypeOK'
  BY <1>6 DEF StoreToken, Enter, timing
<1>7. ASSUME NEW t \in Generators, SignFails(t) PROVE TypeOK'
  BY <1>7 DEF SignFails, tokens, timing
<1>8. ASSUME NEW t \in Generators, StartTimer(t) PROVE TypeOK'
  BY <1>8 DEF StartTimer, tokens, SecondsUntilUpdate, Timers
<1>9. ASSUME NEW t \in Threads, ReadTimer(t) PROVE TypeOK'
  BY <1>9 DEF ReadTimer, tokens
<1>10. ASSUME NEW t \in Threads, ClearTimer(t) PROVE TypeOK'
  BY <1>10 DEF ClearTimer, Cancel, tokens
<1>11. CASE UNCHANGED vars BY <1>11 DEF vars, tokens, timing
<1>12. QED
  BY <1>1, <1>2, <1>3, <1>4, <1>5, <1>6, <1>7, <1>8, <1>9, <1>10, <1>11 DEF Next

-----------------------------------------------------------------------------
(* A thread that enters the timer's code finds it empty, or says so; one   *)
(* that is inside alone reads, forgets and starts the only timer.          *)
LEMMA AloneStep ==
  TypeOK /\ OneTimer /\ AloneAtTimer /\ [Next]_vars => (OneTimer /\ AloneAtTimer)'
<1> SUFFICES ASSUME TypeOK, OneTimer, AloneAtTimer, [Next]_vars, ~overlapped'
             PROVE  (OneTimer /\ AloneAtTimer)'
  BY DEF OneTimer, AloneAtTimer
<1> USE TokenAssumption, ThreadKinds DEF TypeOK, OneTimer, AloneAtTimer, AtTimer, Go
<1>1. CASE Tick BY <1>1 DEF Tick, timing
<1>2. CASE GetCurrentSasToken BY <1>2 DEF GetCurrentSasToken, BeginToSign, timing
<1>3. ASSUME NEW t \in Generates, Generate(t) PROVE (OneTimer /\ AloneAtTimer)'
  BY <1>3 DEF Generate, BeginToSign, timing
<1>4. ASSUME NEW t \in Disconnects, Disconnect(t) PROVE (OneTimer /\ AloneAtTimer)'
  <2>1. \A u \in Threads \ {t} : at[u] \notin AtTimer /\ at'[u] = at[u]
    BY <1>4 DEF Disconnect, Enter
  <2>2. at'[t] = "cancel" /\ UNCHANGED <<running, timer, old>> /\ ~overlapped
    BY <1>4 DEF Disconnect, Enter, timing
  <2>3. QED BY <2>1, <2>2
<1>5. ASSUME NEW k \in Timers, TimerFires(k) PROVE (OneTimer /\ AloneAtTimer)'
  BY <1>5 DEF TimerFires, BeginToSign
<1>6. ASSUME NEW t \in Generators, StoreToken(t) PROVE (OneTimer /\ AloneAtTimer)'
  BY <1>6 DEF StoreToken, Enter, timing
<1>7. ASSUME NEW t \in Generators, SignFails(t) PROVE (OneTimer /\ AloneAtTimer)'
  BY <1>7 DEF SignFails, timing
<1>8. ASSUME NEW t \in Generators, StartTimer(t) PROVE (OneTimer /\ AloneAtTimer)'
  BY <1>8 DEF StartTimer
<1>9. ASSUME NEW t \in Threads, ReadTimer(t) PROVE (OneTimer /\ AloneAtTimer)'
  BY <1>9 DEF ReadTimer
<1>10. ASSUME NEW t \in Threads, ClearTimer(t) PROVE (OneTimer /\ AloneAtTimer)'
  BY <1>10 DEF ClearTimer, Cancel
<1>11. CASE UNCHANGED vars BY <1>11 DEF vars, timing
<1>12. QED
  BY <1>1, <1>2, <1>3, <1>4, <1>5, <1>6, <1>7, <1>8, <1>9, <1>10, <1>11 DEF Next

-----------------------------------------------------------------------------
(* What disturbs the renewal does so for good.                             *)
LEMMA UndisturbedBefore ==
  ASSUME TypeOK, [Next]_vars, Undisturbed'
  PROVE  Undisturbed
<1> USE TokenAssumption, ThreadKinds DEF TypeOK, Undisturbed, Go
<1>1. CASE Tick BY <1>1 DEF Tick
<1>2. CASE GetCurrentSasToken BY <1>2 DEF GetCurrentSasToken, BeginToSign
<1>3. ASSUME NEW t \in Generates, Generate(t) PROVE Undisturbed
  BY <1>3 DEF Generate, BeginToSign
<1>4. ASSUME NEW t \in Disconnects, Disconnect(t) PROVE Undisturbed
  BY <1>4 DEF Disconnect
<1>5. ASSUME NEW k \in Timers, TimerFires(k) PROVE Undisturbed
  BY <1>5 DEF TimerFires, BeginToSign
<1>6. ASSUME NEW t \in Generators, StoreToken(t) PROVE Undisturbed
  BY <1>6 DEF StoreToken
<1>7. ASSUME NEW t \in Generators, SignFails(t) PROVE Undisturbed
  BY <1>7 DEF SignFails
<1>8. ASSUME NEW t \in Generators, StartTimer(t) PROVE Undisturbed
  BY <1>8 DEF StartTimer
<1>9. ASSUME NEW t \in Threads, ReadTimer(t) PROVE Undisturbed
  BY <1>9 DEF ReadTimer
<1>10. ASSUME NEW t \in Threads, ClearTimer(t) PROVE Undisturbed
  BY <1>10 DEF ClearTimer
<1>11. CASE UNCHANGED vars BY <1>11 DEF vars
<1>12. QED
  BY <1>1, <1>2, <1>3, <1>4, <1>5, <1>6, <1>7, <1>8, <1>9, <1>10, <1>11 DEF Next

(* The three ways in which a token is followed in time hand over to one    *)
(* another: the signature that was begun in time is stored, what is stored *)
(* starts a timer early enough, and the timer fires when it is due.        *)
LEMMA RenewedStep == TypeOK /\ Renewed /\ [Next]_vars => Renewed'
<1> SUFFICES ASSUME TypeOK, Renewed, [Next]_vars, Undisturbed' PROVE Renewed'
  BY DEF Renewed
<1>0. Undisturbed BY UndisturbedBefore
<1> USE <1>0, TokenAssumption, ThreadKinds DEF TypeOK, Renewed, Undisturbed, AtTimer, Go
<1>1. CASE Tick BY <1>1 DEF Tick, tokens, timing
<1>2. CASE GetCurrentSasToken BY <1>2 DEF GetCurrentSasToken, BeginToSign, timing
<1>3. ASSUME NEW t \in Generates, Generate(t) PROVE Renewed'
  BY <1>3 DEF Generate, BeginToSign, timing
<1>4. ASSUME NEW t \in Disconnects, Disconnect(t) PROVE Renewed'
  BY <1>4 DEF Disconnect
<1>5. ASSUME NEW k \in Timers, TimerFires(k) PROVE Renewed'
  BY <1>5 DEF TimerFires, BeginToSign
<1>6. ASSUME NEW t \in Generators, StoreToken(t) PROVE Renewed'
  BY <1>6 DEF StoreToken, timing
<1>7. ASSUME NEW t \in Generators, SignFails(t) PROVE Renewed'
  BY <1>7 DEF SignFails
<1>8. ASSUME NEW t \in Generators, StartTimer(t) PROVE Renewed'
  BY <1>8 DEF StartTimer, tokens, SecondsUntilUpdate
<1>9. ASSUME NEW t \in Threads, ReadTimer(t) PROVE Renewed'
  BY <1>9 DEF ReadTimer, tokens
<1>10. ASSUME NEW t \in Threads, ClearTimer(t) PROVE Renewed'
  <2>1. t \in Generators /\ at[t] = "clear" /\ at' = [at EXCEPT ![t] = "start"]
    BY <1>10 DEF ClearTimer, Threads
  <2>2. running' \subseteq running
    BY <1>10 DEF ClearTimer, Cancel
  <2>3. UNCHANGED <<now, since, sasToken, due, faults>>
    BY <1>10 DEF ClearTimer, tokens
  <2>4. now + Validity <= sasToken + MaxSign
    BY <2>1
  <2>5. QED BY <2>1, <2>2, <2>3, <2>4
<1>11. CASE UNCHANGED vars BY <1>11 DEF vars, tokens, timing
<1>12. QED
  BY <1>1, <1>2, <1>3, <1>4, <1>5, <1>6, <1>7, <1>8, <1>9, <1>10, <1>11 DEF Next

-----------------------------------------------------------------------------
(* The invariant of the token and its timer holds in every execution, for  *)
(* any threads, periods and bounds.                                        *)
THEOREM TokenCorrect == Spec => []TokenInv
<1>1. TokenInv /\ [Next]_vars => TokenInv'
  BY TypeStep, AloneStep, RenewedStep DEF TokenInv
<1>2. QED BY InitInv, <1>1, PTL DEF Spec

(* Two threads that were not at the timer at once left one timer at most,  *)
(* the one that disconnect would cancel.                                   *)
THEOREM OneTimerHolds == Spec => []OneTimer
<1>1. TokenInv => OneTimer BY DEF TokenInv
<1>2. QED BY TokenCorrect, <1>1, PTL

(* The token of the provider never expires, if two signatures take less    *)
(* than the renewal margin, none fails and the application does not        *)
(* disconnect: whichever threads renew it, and however they overlap.       *)
THEOREM TokenFreshHolds == Spec => []TokenFresh
<1>1. ASSUME TokenInv, Undisturbed, sasToken # 0 PROVE now < sasToken
  <2> USE <1>1, TokenAssumption, ThreadKinds DEF TokenInv, TypeOK, Renewed, Undisturbed
  <2>1. CASE \E t \in Generators : at[t] \in AtTimer BY <2>1
  <2>2. CASE \E k \in running : due[k] + MaxSign < sasToken BY <2>2
  <2>3. CASE \E t \in Generators : at[t] = "signing" /\ since[t] + MaxSign < sasToken
    BY <2>3
  <2>4. QED BY <2>1, <2>2, <2>3
<1>2. TokenInv => TokenFresh BY <1>1 DEF TokenFresh
<1>3. QED BY TokenCorrect, <1>2, PTL
=============================================================================
