-------------------------- MODULE OperationManager --------------------------
(***************************************************************************)
(* OperationManager: which callback an acknowledgement belongs to.         *)
(*                                                                         *)
(* The pipeline thread asks the MQTT library to send a request and learns  *)
(* its message id (mid); it then establishes the request, with the         *)
(* callback to call.  The library's network thread may read the            *)
(* acknowledgement before that.  Each method decides under the lock, and   *)
(* calls the callback after it has released the lock.  Mids are counted up *)
(* to MaxMid and start again (MaxMid is 65535 in MQTT).                    *)
(***************************************************************************)
EXTENDS Naturals

CONSTANTS
  Reqs,           (* the requests                                          *)
  Publishes,      (* those that are publishes                              *)
  NoReq,          (* no request: None                                      *)
  MaxMid,         (* the largest mid                                       *)
  ReuseAbandoned  (* may the mid of an abandoned request be given again?   *)

ASSUME ManagerAssumption ==
  /\ Publishes \subseteq Reqs
  /\ NoReq \notin Reqs
  /\ MaxMid \in Nat \ {0}
  /\ ReuseAbandoned \in BOOLEAN

VARIABLES
  lastMid,   (* the mid the library gave last                              *)
  mid,       (* the mid of each request, 0 before it has one               *)
  wire,      (* requests the library still expects an acknowledgement of   *)
  acked,     (* requests whose acknowledgement was read                    *)
  phase,     (* how far the pipeline thread is with each request           *)
  pendingOperationCallbacks,    (* mid -> request, NoReq when not a key    *)
  unknownOperationCompletions,  (* mids                                    *)
  early,     (* the callback establish_operation is about to call          *)
  answering, (* the callback complete_operation is about to call           *)
  called     (* how often the callback of each request was called          *)

vars == <<lastMid, mid, wire, acked, phase, pendingOperationCallbacks,
          unknownOperationCompletions, early, answering, called>>

Mids == 1..MaxMid

TypeOK ==
  /\ lastMid \in 0..MaxMid
  /\ mid \in [Reqs -> 0..MaxMid]
  /\ wire \in SUBSET Reqs
  /\ acked \in SUBSET Reqs
  /\ phase \in [Reqs -> {"idle", "sent", "raised", "established"}]
  /\ pendingOperationCallbacks \in [Mids -> Reqs \union {NoReq}]
  /\ unknownOperationCompletions \in SUBSET Mids
  /\ early \in Reqs \union {NoReq}
  /\ answering \in Reqs \union {NoReq}
  /\ called \in [Reqs -> Nat]

Init ==
  /\ lastMid = 0
  /\ mid = [r \in Reqs |-> 0]
  /\ wire = {}
  /\ acked = {}
  /\ phase = [r \in Reqs |-> "idle"]
  /\ pendingOperationCallbacks = [m \in Mids |-> NoReq]
  /\ unknownOperationCompletions = {}
  /\ early = NoReq
  /\ answering = NoReq
  /\ called = [r \in Reqs |-> 0]

-----------------------------------------------------------------------------
(* The library (external).  A mid on the wire is never given out again.    *)
(* A request is settled when it was established and acknowledged; one that *)
(* was raised, or whose acknowledgement got lost, is abandoned.  There are *)
(* so many mids that the mid of an abandoned request comes up again only   *)
(* in very long runs (ReuseAbandoned).                                     *)
NextMid == IF lastMid = MaxMid THEN 1 ELSE lastMid + 1
Settled(r) == phase[r] = "established" /\ r \in acked
MidIsFree(m) ==
  /\ \A r \in wire : mid[r] # m
  /\ ReuseAbandoned \/ \A r \in Reqs : mid[r] = m => Settled(r)

PipelineThreadIdle == early = NoReq /\ \A r \in Reqs : phase[r] # "sent"

TakeMid(r) ==
  /\ phase[r] = "idle" /\ PipelineThreadIdle /\ MidIsFree(NextMid)
  /\ lastMid' = NextMid
  /\ mid' = [mid EXCEPT ![r] = NextMid]

(* The transport's publish, subscribe, unsubscribe: the library's call.    *)
Send(r) ==
  /\ TakeMid(r)
  /\ wire' = wire \union {r}
  /\ phase' = [phase EXCEPT ![r] = "sent"]
  /\ UNCHANGED <<acked, pendingOperationCallbacks, unknownOperationCompletions, early, answering, called>>

(* Without a connection the library returns an error code and the          *)
(* transport raises it; the library still sends the publish later.         *)
SendRaises(r) ==
  /\ TakeMid(r)
  /\ wire' = IF r \in Publishes THEN wire \union {r} ELSE wire
  /\ phase' = [phase EXCEPT ![r] = "raised"]
  /\ UNCHANGED <<acked, pendingOperationCallbacks, unknownOperationCompletions, early, answering, called>>

(* A request other than a publish does not survive the connection.         *)
ConnectionLost ==
  /\ wire' = wire \intersect Publishes
  /\ UNCHANGED <<lastMid, mid, acked, phase, pendingOperationCallbacks, unknownOperationCompletions,
                 early, answering, called>>

-----------------------------------------------------------------------------
(* Mutants: an entry is never deleted, or an early acknowledgement is not  *)
(* kept.                                                                   *)
KeepPending(m)   == UNCHANGED pendingOperationCallbacks
KeepUnknown(m)   == UNCHANGED unknownOperationCompletions
IgnoreUnknown(m) == UNCHANGED unknownOperationCompletions

DeletePending(m) == pendingOperationCallbacks' = [pendingOperationCallbacks EXCEPT ![m] = NoReq]
DeleteUnknown(m) == unknownOperationCompletions' = unknownOperationCompletions \ {m}
StoreUnknown(m)  == unknownOperationCompletions' = unknownOperationCompletions \union {m}

EstablishOperation(r) ==
  /\ phase[r] = "sent"
  /\ phase' = [phase EXCEPT ![r] = "established"]
  /\ IF mid[r] \in unknownOperationCompletions
     THEN /\ DeleteUnknown(mid[r])
          /\ early' = r
          /\ UNCHANGED pendingOperationCallbacks
     ELSE /\ pendingOperationCallbacks' = [pendingOperationCallbacks EXCEPT ![mid[r]] = r]
          /\ UNCHANGED <<unknownOperationCompletions, early>>
  /\ UNCHANGED <<lastMid, mid, wire, acked, answering, called>>

Call(r) == called' = [called EXCEPT ![r] = @ + 1]

(* The rest of establish_operation, with the lock released.                *)
CallEarly ==
  /\ early # NoReq
  /\ Call(early)
  /\ early' = NoReq
  /\ UNCHANGED <<lastMid, mid, wire, acked, phase, pendingOperationCallbacks,
                 unknownOperationCompletions, answering>>

(* The network thread reads the acknowledgement of a request.              *)
CompleteOperation(r) ==
  /\ r \in wire /\ answering = NoReq
  /\ wire' = wire \ {r}
  /\ acked' = acked \union {r}
  /\ IF pendingOperationCallbacks[mid[r]] # NoReq
     THEN /\ answering' = pendingOperationCallbacks[mid[r]]
          /\ DeletePending(mid[r])
          /\ UNCHANGED unknownOperationCompletions
     ELSE /\ StoreUnknown(mid[r])
          /\ UNCHANGED <<pendingOperationCallbacks, answering>>
  /\ UNCHANGED <<lastMid, mid, phase, early, called>>

CallAnswering ==
  /\ answering # NoReq
  /\ Call(answering)
  /\ answering' = NoReq
  /\ UNCHANGED <<lastMid, mid, wire, acked, phase, pendingOperationCallbacks,
                 unknownOperationCompletions, early>>

Next ==
  \/ \E r \in Reqs : Send(r) \/ SendRaises(r) \/ EstablishOperation(r) \/ CompleteOperation(r)
  \/ ConnectionLost \/ CallEarly \/ CallAnswering

Spec == Init /\ [][Next]_vars

(* Both threads go on once they are inside a method.                       *)
FairSpec ==
  /\ Spec
  /\ WF_vars(\E r \in Reqs : EstablishOperation(r))
  /\ WF_vars(CallEarly)
  /\ WF_vars(CallAnswering)

-----------------------------------------------------------------------------
(* establish_operation: "If the operation has already been completed, the  *)
(* callback will be triggered" -- and not otherwise: a callback is called  *)
(* only after the acknowledgement of its own request was read.             *)
CallbackAfterAck == \A r \in Reqs : called[r] > 0 => r \in acked

(* The callback of a request is called once, whichever thread comes first. *)
CallbackOnce == \A r \in Reqs : called[r] <= 1

(* An acknowledgement is never lost between the two threads: once it was   *)
(* read and the request is established, the callback was called or one of  *)
(* the threads is about to call it.                                        *)
AckNotLost ==
  \A r \in Reqs : r \in acked /\ phase[r] = "established" =>
    called[r] > 0 \/ early = r \/ answering = r

(* The callback of a request that was sent and acknowledged is called.     *)
AckedIsCalled ==
  \A r \in Reqs : r \in acked /\ phase[r] # "raised" ~> called[r] > 0

-----------------------------------------------------------------------------
(* Why: as long as the mids of abandoned requests are not given again, an  *)
(* entry of a dictionary stands for one request.                           *)
WireInv ==
  /\ \A r \in wire : mid[r] \in Mids /\ r \notin acked /\ phase[r] # "idle"
  /\ \A r, q \in wire : mid[r] = mid[q] => r = q
  /\ \A r \in wire : mid[r] \notin unknownOperationCompletions
  /\ \A r \in wire : pendingOperationCallbacks[mid[r]] \in {r, NoReq}

PendingInv ==
  \A m \in Mids : LET r == pendingOperationCallbacks[m] IN
    r # NoReq => /\ mid[r] = m /\ phase[r] = "established" /\ r \notin acked
                 /\ m \notin unknownOperationCompletions

SentInv ==
  \A r \in Reqs : phase[r] = "sent" =>
    /\ early = NoReq
    /\ \A q \in Reqs : phase[q] = "sent" => q = r
    /\ mid[r] \in Mids
    /\ pendingOperationCallbacks[mid[r]] = NoReq
    /\ mid[r] \in unknownOperationCompletions <=> r \in acked
    /\ \A q \in wire : mid[q] = mid[r] => q = r

UnknownInv ==
  \A m \in unknownOperationCompletions :
    \E r \in acked : mid[r] = m /\ phase[r] # "established"

AckedInv ==
  /\ \A r \in acked : phase[r] # "idle"
  /\ \A r \in wire : phase[r] = "established" => pendingOperationCallbacks[mid[r]] = r

CalledInv ==
  /\ \A r \in {early, answering} \ {NoReq} :
       r \in acked /\ phase[r] = "established" /\ called[r] = 0
  /\ early # NoReq => early # answering
  /\ \A r \in Reqs : called[r] > 0 => r \in acked /\ phase[r] = "established"

(* The inductive invariant: what the two dictionaries and the callbacks    *)
(* the two threads are about to call say of each request.                  *)
ManagerInv ==
  /\ TypeOK
  /\ WireInv /\ PendingInv /\ SentInv /\ UnknownInv /\ AckedInv /\ CalledInv
  /\ CallbackAfterAck /\ CallbackOnce /\ AckNotLost
=============================================================================
