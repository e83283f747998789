----------------------- MODULE OperationManagerProofs -----------------------
(***************************************************************************)
(* Proofs about OperationManager, for any requests and any number of mids, *)
(* as long as the mids of abandoned requests are not given again.          *)
(***************************************************************************)
EXTENDS OperationManager, TLAPS

LEMMA NextMidType == lastMid \in 0..MaxMid => NextMid \in Mids /\ NextMid \in 0..MaxMid
BY ManagerAssumption DEF NextMid, Mids

LEMMA InitManager == Init => ManagerInv
BY ManagerAssumption DEF Init, ManagerInv, TypeOK, WireInv, PendingInv, SentInv, UnknownInv, AckedInv, CalledInv,
  CallbackAfterAck, CallbackOnce, AckNotLost, Mids

(* A request is given a free mid: nothing that is held has it.             *)
LEMMA TakeMidInv ==
  ASSUME ManagerInv, ~ReuseAbandoned, NEW r \in Reqs, TakeMid(r),
         wire' = wire \union {r} \/ wire' = wire,
         NEW p \in {"sent", "raised"}, phase' = [phase EXCEPT ![r] = p],
         UNCHANGED <<acked, pendingOperationCallbacks, unknownOperationCompletions, early, answering, called>>
  PROVE  ManagerInv'
<1>1. /\ NextMid \in Mids /\ phase[r] = "idle" /\ lastMid' = NextMid
      /\ mid' = [mid EXCEPT ![r] = NextMid]
      /\ \A q \in wire : mid[q] # NextMid
      /\ \A q \in Reqs : mid[q] = NextMid => Settled(q)
      /\ early = NoReq /\ \A q \in Reqs : phase[q] # "sent"
      /\ NextMid \in 0..MaxMid
  BY NextMidType DEF ManagerInv, TypeOK, TakeMid, MidIsFree, PipelineThreadIdle
<1>0. NextMid \notin unknownOperationCompletions /\ pendingOperationCallbacks[NextMid] = NoReq
  BY <1>1 DEF ManagerInv, TypeOK, UnknownInv, PendingInv, Settled
<1>2. r \notin wire /\ r \notin acked /\ \A m \in Mids : pendingOperationCallbacks[m] # r
  BY <1>1, ManagerAssumption DEF ManagerInv, WireInv, AckedInv, PendingInv
<1>3. r \notin {early, answering} /\ called[r] = 0
  BY <1>1, <1>2, ManagerAssumption DEF ManagerInv, CalledInv, TypeOK
<1>4. TypeOK'
  BY <1>1 DEF ManagerInv, TypeOK
<1>5. /\ mid'[r] = NextMid /\ phase'[r] = p
      /\ \A q \in Reqs \ {r} : mid'[q] = mid[q] /\ phase'[q] = phase[q]
  BY <1>1 DEF ManagerInv, TypeOK
<1>6. WireInv'
  BY <1>0, <1>1, <1>2, <1>5 DEF ManagerInv, TypeOK, WireInv
<1>13. UnknownInv'
  BY <1>2, <1>5 DEF ManagerInv, TypeOK, UnknownInv
<1>7. PendingInv'
  BY <1>1, <1>2, <1>5 DEF ManagerInv, TypeOK, PendingInv
<1>8. SentInv'
  BY <1>0, <1>1, <1>2, <1>5 DEF ManagerInv, TypeOK, SentInv
<1>9. AckedInv'
  BY <1>1, <1>2, <1>5 DEF ManagerInv, TypeOK, AckedInv
<1>10. CalledInv'
  BY <1>2, <1>3, <1>5 DEF ManagerInv, TypeOK, CalledInv
<1>11. CallbackAfterAck' /\ CallbackOnce' /\ AckNotLost'
  BY <1>2, <1>5 DEF ManagerInv, TypeOK, CallbackAfterAck, CallbackOnce, AckNotLost
<1>12. QED  BY <1>4, <1>6, <1>7, <1>8, <1>9, <1>10, <1>11, <1>13 DEF ManagerInv

LEMMA EstablishInv ==
  ASSUME ManagerInv, NEW r \in Reqs, EstablishOperation(r)
  PROVE  ManagerInv'
<1>1. /\ phase[r] = "sent" /\ phase' = [phase EXCEPT ![r] = "established"]
      /\ UNCHANGED <<lastMid, mid, wire, acked, answering, called>>
  BY DEF EstablishOperation, DeleteUnknown
<1>2. /\ mid[r] \in Mids /\ pendingOperationCallbacks[mid[r]] = NoReq /\ early = NoReq
      /\ mid[r] \in unknownOperationCompletions <=> r \in acked
      /\ \A q \in wire : mid[q] = mid[r] => q = r
      /\ \A q \in Reqs : phase[q] = "sent" => q = r
      /\ \A m \in Mids : pendingOperationCallbacks[m] # r
  BY <1>1, ManagerAssumption DEF ManagerInv, SentInv, PendingInv
<1>3. called[r] = 0 /\ r # answering
  BY <1>1, ManagerAssumption DEF ManagerInv, TypeOK, CalledInv
<1>4. phase'[r] = "established" /\ \A q \in Reqs \ {r} : phase'[q] = phase[q]
  BY <1>1 DEF ManagerInv, TypeOK
<1>5. SentInv'
  BY <1>2, <1>4 DEF SentInv
<1>6. CallbackAfterAck' /\ CallbackOnce'
  BY <1>1 DEF ManagerInv, CallbackAfterAck, CallbackOnce
<1>7. CASE r \in acked
  <2>1. /\ unknownOperationCompletions' = unknownOperationCompletions \ {mid[r]}
        /\ early' = r
        /\ pendingOperationCallbacks' = pendingOperationCallbacks
    BY <1>2, <1>7 DEF EstablishOperation, DeleteUnknown
  <2>2. TypeOK' /\ WireInv' /\ PendingInv'
    BY <1>1, <1>2, <1>4, <2>1 DEF ManagerInv, TypeOK, WireInv, PendingInv
  <2>3. AckedInv'
    BY <1>1, <1>4, <1>7, <2>1 DEF ManagerInv, TypeOK, WireInv, AckedInv
  <2>4. CalledInv'
    BY <1>1, <1>3, <1>4, <1>7, <2>1 DEF ManagerInv, TypeOK, CalledInv
  <2>5. AckNotLost'
    BY <1>1, <1>2, <1>4, <2>1, ManagerAssumption DEF ManagerInv, AckNotLost
  <2>6. UnknownInv'
    BY <1>1, <1>2, <1>4, <2>1 DEF ManagerInv, TypeOK, UnknownInv
  <2>7. QED  BY <1>5, <1>6, <2>2, <2>3, <2>4, <2>5, <2>6 DEF ManagerInv
<1>8. CASE r \notin acked
  <2>1. /\ pendingOperationCallbacks' = [pendingOperationCallbacks EXCEPT ![mid[r]] = r]
        /\ UNCHANGED <<unknownOperationCompletions, early>>
        /\ mid[r] \notin unknownOperationCompletions
    BY <1>2, <1>8 DEF EstablishOperation, DeleteUnknown
  <2>2. /\ pendingOperationCallbacks'[mid[r]] = r
        /\ \A m \in Mids \ {mid[r]} : pendingOperationCallbacks'[m] = pendingOperationCallbacks[m]
        /\ pendingOperationCallbacks' \in [Mids -> Reqs \union {NoReq}]
    BY <1>2, <2>1 DEF ManagerInv, TypeOK
  <2>3. TypeOK' /\ WireInv'
    BY <1>1, <1>2, <1>4, <2>1, <2>2 DEF ManagerInv, TypeOK, WireInv
  <2>4. PendingInv'
    BY <1>1, <1>2, <1>4, <1>8, <2>1, <2>2 DEF ManagerInv, PendingInv
  <2>5. AckedInv' /\ CalledInv' /\ AckNotLost'
    BY <1>1, <1>2, <1>3, <1>4, <1>8, <2>1, <2>2 DEF ManagerInv, WireInv, AckedInv, CalledInv, AckNotLost
  <2>6. UnknownInv'
    BY <1>1, <1>4, <1>8, <2>1 DEF ManagerInv, TypeOK, UnknownInv
  <2>7. QED  BY <1>5, <1>6, <2>3, <2>4, <2>5, <2>6 DEF ManagerInv
<1>9. QED  BY <1>7, <1>8

LEMMA CompleteInv ==
  ASSUME ManagerInv, NEW r \in Reqs, CompleteOperation(r)
  PROVE  ManagerInv'
<1>1. /\ r \in wire /\ answering = NoReq
      /\ wire' = wire \ {r} /\ acked' = acked \union {r}
      /\ UNCHANGED <<lastMid, mid, phase, early, called>>
  BY DEF CompleteOperation, DeletePending, StoreUnknown
<1>2. /\ mid[r] \in Mids /\ r \notin acked /\ phase[r] # "idle"
      /\ \A q \in wire : mid[q] = mid[r] => q = r
      /\ mid[r] \notin unknownOperationCompletions
      /\ pendingOperationCallbacks[mid[r]] \in {r, NoReq}
      /\ \A m \in Mids : pendingOperationCallbacks[m] = r => m = mid[r]
  BY <1>1, ManagerAssumption DEF ManagerInv, WireInv, PendingInv
<1>3. called[r] = 0 /\ early # r
  BY <1>2, ManagerAssumption DEF ManagerInv, TypeOK, CalledInv
<1>4. CallbackAfterAck' /\ CallbackOnce'
  BY <1>1 DEF ManagerInv, CallbackAfterAck, CallbackOnce
<1>5. CASE pendingOperationCallbacks[mid[r]] = r
  <2>1. /\ answering' = r
        /\ pendingOperationCallbacks' = [pendingOperationCallbacks EXCEPT ![mid[r]] = NoReq]
        /\ UNCHANGED unknownOperationCompletions
    BY <1>5, ManagerAssumption DEF CompleteOperation, DeletePending, StoreUnknown
  <2>2. /\ pendingOperationCallbacks'[mid[r]] = NoReq
        /\ \A m \in Mids \ {mid[r]} : pendingOperationCallbacks'[m] = pendingOperationCallbacks[m]
        /\ pendingOperationCallbacks' \in [Mids -> Reqs \union {NoReq}]
    BY <1>2, <2>1 DEF ManagerInv, TypeOK
  <2>3. phase[r] = "established"
    BY <1>2, <1>5, ManagerAssumption DEF ManagerInv, PendingInv
  <2>4. TypeOK' /\ WireInv'
    BY <1>1, <1>2, <2>1, <2>2 DEF ManagerInv, TypeOK, WireInv
  <2>5. PendingInv'
    BY <1>1, <1>2, <2>1, <2>2 DEF ManagerInv, PendingInv
  <2>6. SentInv'
    BY <1>1, <1>2, <2>1, <2>2, <2>3 DEF ManagerInv, SentInv
  <2>7. AckedInv'
    BY <1>1, <1>2, <2>2, <2>3 DEF ManagerInv, TypeOK, WireInv, AckedInv
  <2>8. CalledInv'
    BY <1>1, <1>3, <2>1, <2>3 DEF ManagerInv, TypeOK, CalledInv
  <2>9. AckNotLost'
    BY <1>1, <2>1, ManagerAssumption DEF ManagerInv, AckNotLost
  <2>10. UnknownInv'
    BY <1>1, <2>1 DEF ManagerInv, UnknownInv
  <2>11. QED  BY <1>4, <2>4, <2>5, <2>6, <2>7, <2>8, <2>9, <2>10 DEF ManagerInv
<1>6. CASE pendingOperationCallbacks[mid[r]] = NoReq
  <2>1. /\ unknownOperationCompletions' = unknownOperationCompletions \union {mid[r]}
        /\ UNCHANGED <<pendingOperationCallbacks, answering>>
    BY <1>6 DEF CompleteOperation, DeletePending, StoreUnknown
  <2>2. phase[r] # "established"
    BY <1>1, <1>6, ManagerAssumption DEF ManagerInv, AckedInv
  <2>3. TypeOK' /\ WireInv'
    BY <1>1, <1>2, <2>1 DEF ManagerInv, TypeOK, WireInv
  <2>4. PendingInv'
    BY <1>1, <1>2, <1>6, <2>1 DEF ManagerInv, PendingInv
  <2>5. SentInv'
    BY <1>1, <1>2, <2>1 DEF ManagerInv, SentInv
  <2>6. AckedInv' /\ CalledInv' /\ AckNotLost'
    BY <1>1, <1>2, <1>3, <2>1, <2>2 DEF ManagerInv, WireInv, AckedInv, CalledInv, AckNotLost
  <2>7. UnknownInv'
    BY <1>1, <2>1, <2>2 DEF ManagerInv, UnknownInv
  <2>8. QED  BY <1>4, <2>3, <2>4, <2>5, <2>6, <2>7 DEF ManagerInv
<1>7. QED  BY <1>2, <1>5, <1>6

(* One of the two threads calls the callback it holds.                     *)
LEMMA CallInv ==
  ASSUME ManagerInv, NEW r \in Reqs, Call(r),
         \/ early = r /\ early' = NoReq /\ answering' = answering
         \/ answering = r /\ answering' = NoReq /\ early' = early,
         UNCHANGED <<lastMid, mid, wire, acked, phase, pendingOperationCallbacks, unknownOperationCompletions>>
  PROVE  ManagerInv'
<1>1. r \in acked /\ phase[r] = "established" /\ called[r] = 0 /\ r # NoReq
  BY ManagerAssumption DEF ManagerInv, CalledInv
<1>2. called'[r] = 1 /\ \A q \in Reqs \ {r} : called'[q] = called[q]
  BY <1>1 DEF ManagerInv, TypeOK, Call
<1>3. TypeOK'
  BY DEF ManagerInv, TypeOK, Call
<1>4. WireInv' /\ PendingInv' /\ UnknownInv' /\ AckedInv'
  BY DEF ManagerInv, WireInv, PendingInv, UnknownInv, AckedInv
<1>5. SentInv'
  BY <1>1 DEF ManagerInv, SentInv
<1>6. CalledInv'
  BY <1>1, <1>2 DEF ManagerInv, TypeOK, CalledInv
<1>7. CallbackAfterAck' /\ CallbackOnce'
  BY <1>1, <1>2 DEF ManagerInv, CallbackAfterAck, CallbackOnce
<1>8. AckNotLost'
  BY <1>1, <1>2 DEF ManagerInv, AckNotLost
<1>9. QED  BY <1>3, <1>4, <1>5, <1>6, <1>7, <1>8 DEF ManagerInv

LEMMA ConnectionLostInv == ManagerInv /\ ConnectionLost => ManagerInv'
BY DEF ConnectionLost, ManagerInv, TypeOK, WireInv, PendingInv, SentInv, UnknownInv, AckedInv, CalledInv,
  CallbackAfterAck, CallbackOnce, AckNotLost

(* Each callback is called at most once, after its own acknowledgement,    *)
(* and no acknowledgement is lost, however the pipeline thread and the     *)
(* network thread interleave.                                              *)
THEOREM ManagerCorrect ==
  ASSUME ~ReuseAbandoned
  PROVE  Spec => []ManagerInv
<1>1. ManagerInv /\ [Next]_vars => ManagerInv'
  <2> SUFFICES ASSUME ManagerInv, [Next]_vars PROVE ManagerInv'
    OBVIOUS
  <2>1. CASE UNCHANGED vars
    BY <2>1 DEF vars, ManagerInv, TypeOK, WireInv, PendingInv, SentInv, UnknownInv, AckedInv, CalledInv,
      CallbackAfterAck, CallbackOnce, AckNotLost
  <2>2. ASSUME NEW r \in Reqs, Send(r) \/ SendRaises(r) PROVE ManagerInv'
    BY <2>2, TakeMidInv DEF Send, SendRaises
  <2>3. CASE CallEarly
    BY <2>3, CallInv DEF CallEarly, ManagerInv, TypeOK
  <2>4. CASE CallAnswering
    BY <2>4, CallInv DEF CallAnswering, ManagerInv, TypeOK
  <2>5. QED
    BY <2>1, <2>2, <2>3, <2>4, EstablishInv, CompleteInv, ConnectionLostInv DEF Next
<1>2. QED  BY InitManager, <1>1, PTL DEF Spec

(* A callback is called only after the acknowledgement of its own request  *)
(* was read, also when the network thread is faster than the pipeline      *)
(* thread or the mids have started again.                                  *)
THEOREM CallbackAfterAckHolds ==
  ASSUME ~ReuseAbandoned
  PROVE  Spec => []CallbackAfterAck
<1>1. ManagerInv => CallbackAfterAck  BY DEF ManagerInv
<1>2. QED  BY ManagerCorrect, <1>1, PTL

(* No callback is called twice, whichever of the two threads comes first.  *)
THEOREM CallbackOnceHolds ==
  ASSUME ~ReuseAbandoned
  PROVE  Spec => []CallbackOnce
<1>1. ManagerInv => CallbackOnce  BY DEF ManagerInv
<1>2. QED  BY ManagerCorrect, <1>1, PTL

(* An acknowledgement that was read is never lost between the two threads. *)
THEOREM AckNotLostHolds ==
  ASSUME ~ReuseAbandoned
  PROVE  Spec => []AckNotLost
<1>1. ManagerInv => AckNotLost  BY DEF ManagerInv
<1>2. QED  BY ManagerCorrect, <1>1, PTL
=============================================================================
