----------------------------- MODULE TokenRenewal -----------------------------
(***************************************************************************)
(* BaseRenewableTokenAuthenticationProvider: the SAS token of a device and *)
(* the timer that renews it, over a discrete time.                         *)
(*                                                                         *)
(* Every thread in generate_new_sas_token signs, stores the token, cancels *)
(* the timer (read it, forget it, cancel it) and starts another, whose     *)
(* thread will do the same.  Signing takes time, the rest takes none, and  *)
(* timers are punctual.  disconnect cancels the timer only: a thread that  *)
(* it started goes on.                                                     *)
(***************************************************************************)
EXTENDS Integers, FiniteSets

CONSTANTS
  Setup,        (* the pipeline thread: SetAuthProviderOperation           *)
  Generates,    (* calls of generate_new_sas_token by the application      *)
  Disconnects,  (* calls of disconnect                                     *)
  Validity,     (* token_validity_period                                   *)
  Margin,       (* token_renewal_margin                                    *)
  MaxSign,      (* the longest time that _sign takes                       *)
  MaxTimers,    (* bound on the timers started                             *)
  MaxTime,      (* bound on the time                                       *)
  MaxFaults,    (* bound on the signatures that fail                       *)
  None

Timers     == 1..MaxTimers
Generators == {Setup} \union Generates \union Timers
Threads    == Generators \union Disconnects

ASSUME TokenAssumption ==
  /\ Validity \in Nat /\ Margin \in 0..Validity /\ MaxSign \in Nat
  /\ MaxTimers \in Nat /\ MaxTime \in Nat /\ MaxFaults \in Nat
  /\ Disconnects \intersect Generators = {}
  /\ ({Setup} \union Generates) \intersect Timers = {}
  /\ None \notin Timers

VARIABLES
  now,         (* the time                                                 *)
  at,          (* how far each thread is                                   *)
  since,       (* when each began to sign                                  *)
  sasToken,    (* sas_token_str: the time it expires, 0 before the first   *)
  timer,       (* _token_update_timer                                      *)
  old,         (* t in _cancel_token_update_timer, of each thread          *)
  due,         (* when each timer fires                                    *)
  running,     (* timers that were started and neither fired nor cancelled *)
  made,        (* timers made so far                                       *)
  overlapped,  (* two threads were at the timer at once                    *)
  faults

tokens == <<since, sasToken>>
timing == <<timer, old, due, running, made>>
vars   == <<now, at, tokens, timing, overlapped, faults>>

AtTimer == {"cancel", "clear", "start"}

TypeOK ==
  /\ now \in Nat /\ sasToken \in Nat
  /\ at \in [Threads -> {"idle", "signing", "done"} \union AtTimer]
  /\ since \in [Generators -> Nat]
  /\ timer \in Timers \union {None}
  /\ old \in [Threads -> Timers \union {None}]
  /\ due \in [Timers -> Nat]
  /\ running \subseteq Timers
  /\ made \in 0..MaxTimers
  /\ overlapped \in BOOLEAN
  /\ faults \in 0..MaxFaults

Init ==
  /\ now = 0 /\ sasToken = 0
  /\ at = [t \in Threads |-> "idle"] /\ since = [t \in Generators |-> 0]
  /\ timer = None /\ old = [t \in Threads |-> None] /\ due = [k \in Timers |-> 0]
  /\ running = {} /\ made = 0
  /\ overlapped = FALSE /\ faults = 0

Go(t, from, to) == at[t] = from /\ at' = [at EXCEPT ![t] = to]

-----------------------------------------------------------------------------
(* generate_new_sas_token.  The expiry is reckoned before the signature.   *)
BeginToSign(t) ==
  /\ Go(t, "idle", "signing")
  /\ since' = [since EXCEPT ![t] = now]

Generate(t) ==
  /\ t \in Generates
  /\ BeginToSign(t)
  /\ UNCHANGED <<now, sasToken, timing, overlapped, faults>>

(* get_current_sas_token makes a token only when there is none.  The       *)
(* pipeline hands what it returns down to the transport stage, once.       *)
GetCurrentSasToken ==
  /\ IF sasToken = 0 THEN BeginToSign(Setup)
                     ELSE Go(Setup, "idle", "done") /\ UNCHANGED since
  /\ UNCHANGED <<now, sasToken, timing, overlapped, faults>>

(* timerfunc.                                                              *)
TimerFires(k) ==
  /\ k \in running /\ due[k] <= now
  /\ BeginToSign(k)
  /\ running' = running \ {k}
  /\ UNCHANGED <<now, sasToken, timer, old, due, made, overlapped, faults>>

(* t joins the threads that work on the timer.                             *)
Enter(t) == overlapped' = (overlapped \/ \E u \in Threads \ {t} : at[u] \in AtTimer)

StoreToken(t) ==
  /\ Go(t, "signing", "cancel")
  /\ sasToken' = since[t] + Validity
  /\ since' = [since EXCEPT ![t] = 0]
  /\ Enter(t)
  /\ UNCHANGED <<now, timing, faults>>

(* _sign raises: the call raises, or the thread of the timer ends, and no  *)
(* other timer is started.                                                 *)
SignFails(t) ==
  /\ faults < MaxFaults
  /\ Go(t, "signing", "done")
  /\ faults' = faults + 1
  /\ UNCHANGED <<now, tokens, timing, overlapped>>

(* _cancel_token_update_timer, in its two steps.                           *)
ReadTimer(t) ==
  /\ Go(t, "cancel", "clear")
  /\ old' = [old EXCEPT ![t] = timer]
  /\ UNCHANGED <<now, tokens, timer, due, running, made, overlapped, faults>>

(* Mutant: the timer is forgotten and goes on.                             *)
Forget(k) == running
Cancel(k) == running \ {k}

ClearTimer(t) ==
  /\ Go(t, "clear", IF t \in Disconnects THEN "done" ELSE "start")
  /\ timer' = None
  /\ running' = Cancel(old[t])
  /\ old' = [old EXCEPT ![t] = None]
  /\ UNCHANGED <<now, tokens, due, made, overlapped, faults>>

(* Mutant: the timer is set for the end of the validity.                   *)
WholePeriod == Validity
SecondsUntilUpdate == Validity - Margin

(* _notify_token_updated has nothing to do: nothing in the repository sets *)
(* token_update_callback.                                                  *)
StartTimer(t) ==
  LET k == made + 1 IN
  /\ k \in Timers
  /\ Go(t, "start", "done")
  /\ made' = k /\ timer' = k
  /\ due' = [due EXCEPT ![k] = now + SecondsUntilUpdate]
  /\ running' = running \union {k}
  /\ UNCHANGED <<now, tokens, old, overlapped, faults>>

Disconnect(t) ==
  /\ t \in Disconnects
  /\ Go(t, "idle", "cancel")
  /\ Enter(t)
  /\ UNCHANGED <<now, tokens, timing, faults>>

-----------------------------------------------------------------------------
(* Time goes on when nothing is to be done now.                            *)
Tick ==
  /\ now < MaxTime
  /\ \A k \in running : due[k] > now
  /\ \A t \in Threads : at[t] \notin AtTimer
  /\ \A t \in Generators : at[t] = "signing" => now < since[t] + MaxSign
  /\ now' = now + 1
  /\ UNCHANGED <<at, tokens, timing, overlapped, faults>>

Next ==
  \/ Tick
  \/ GetCurrentSasToken
  \/ \E t \in Generates : Generate(t)
  \/ \E t \in Disconnects : Disconnect(t)
  \/ \E k \in Timers : TimerFires(k)
  \/ \E t \in Generators : \/ StoreToken(t) \/ SignFails(t)
                           \/ StartTimer(t)
  \/ \E t \in Threads : ReadTimer(t) \/ ClearTimer(t)

Spec == Init /\ [][Next]_vars

-----------------------------------------------------------------------------
(* Two signatures take less than the margin, none failed, and the          *)
(* application did not ask for the renewal to end.                         *)
Undisturbed ==
  /\ 2 * MaxSign < Margin
  /\ faults = 0
  /\ \A d \in Disconnects : at[d] = "idle"

(* The provider always has a token that has not expired: renewal is early  *)
(* enough although the timer starts only when the signature is there, and  *)
(* threads that renew at once do not end it.                               *)
TokenFresh == Undisturbed /\ sasToken # 0 => now < sasToken

(* There is one timer at most, the one that disconnect cancels, unless two *)
(* threads were at it at once.                                             *)
OneTimer == ~overlapped => running \subseteq {timer}

(* A thread that is alone at the timer knows it: the timer it read is the *)
(* current one, and there is none when it starts another.                  *)
AloneAtTimer ==
  ~overlapped => \A t \in Threads : at[t] \in AtTimer =>
    /\ \A u \in Threads \ {t} : at[u] \notin AtTimer
    /\ at[t] = "clear" => old[t] = timer
    /\ at[t] = "start" => timer = None

(* While nothing disturbs the renewal, a token is followed in time: by a   *)
(* thread that is about to start the timer, by a timer that fires early    *)
(* enough for another signature, or by a signature that will be there      *)
(* before it expires.                                                      *)
Renewed ==
  Undisturbed =>
    /\ \A t \in Generators : at[t] = "signing" => since[t] <= now /\ now <= since[t] + MaxSign
    /\ \A k \in running : now <= due[k]
    /\ \A t \in Generators : at[t] \in AtTimer => now + Validity <= sasToken + MaxSign
    /\ \A d \in Disconnects : at[d] \notin AtTimer
    /\ sasToken # 0 =>
         \/ \E t \in Generators : at[t] \in AtTimer
         \/ \E k \in running : due[k] + MaxSign < sasToken
         \/ \E t \in Generators : at[t] = "signing" /\ since[t] + MaxSign < sasToken

(* The inductive invariant.                                                *)
TokenInv == TypeOK /\ OneTimer /\ AloneAtTimer /\ Renewed
=============================================================================
