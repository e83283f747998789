------------------------ MODULE TransportStageAlone ------------------------
(***************************************************************************)
(* MQTTTransportStage without the stages that serialize connection         *)
(* operations, the way its unit tests drive it: a connection operation may *)
(* arrive while another is pending, and cancels it.                        *)
(***************************************************************************)
EXTENDS MQTTTransportStage

aloneVars == <<opVars, transportVars>>

AloneInit == OpsInit /\ TransportInit

(* The operation is handed to the transport stage directly.                *)
RunAtTransport ==
  /\ Starts("run")
  /\ tasks' = Tail(tasks)
  /\ stack' = <<Call("transport", Head(tasks).op)>>
  /\ UNCHANGED <<kind, failed, outcome, connected, transportVars>>

StageThread ==
  \/ RunAtTransport
  \/ At("complete") /\ UserCallback /\ UNCHANGED transportVars
  \/ TransportOps
  \/ EventHandlers

AloneNext ==
  \/ \E o \in UserOps, k \in UserKinds : Submit(o, k) /\ UNCHANGED transportVars
  \/ StageThread
  \/ Library

AloneSpec == AloneInit /\ [][AloneNext]_aloneVars
AloneFairSpec ==
  AloneSpec /\ WF_aloneVars(StageThread)
            /\ WF_aloneVars(Connack) /\ WF_aloneVars(AutoReconnect) /\ WF_aloneVars(Ack)

(* A cancelled operation is completed exactly once and forgotten: an       *)
(* operation is in one place until its callback is called, then in none.   *)
CancelledOnce ==
  \A o \in UserOps :
    Positions(User(o)) = (IF kind[o] # "none" /\ outcome[User(o)] = "none" THEN 1 ELSE 0)

(* Cancelling leaves no operation waiting for ever: each connect and       *)
(* disconnect ends, although the library's answers to cancelled ones keep  *)
(* arriving.                                                               *)
AloneOpsComplete ==
  \A o \in UserOps : kind[o] \in {"connect", "disconnect"} ~> outcome[User(o)] # "none"

-----------------------------------------------------------------------------
(* Why CancelledOnce holds.  A task makes one call at a time, but for the  *)
(* call of an operation that waits for the callback of the one it cancels. *)
OneCallAtATime ==
  /\ Len(stack) <= 2
  /\ \A i \in DOMAIN stack : stack[i].at \in {"transport", "cancelled", "establish", "complete"}
  /\ Len(stack) = 2 => stack[1].at = "complete" /\ stack[2].at = "cancelled"

InOnePlace ==
  \A op \in OpIds :
    Positions(op) = IF ~IsAuto(op) /\ kind[op[1]] # "none" /\ outcome[op] = "none" THEN 1 ELSE 0

(* Why results match the connection: what waits for an acknowledgement is  *)
(* no connection operation, and a connection operation about to succeed    *)
(* finds the connection as it says.                                        *)
AckedInPlace ==
  /\ \A op \in inflight \union established : NeedsConnection(op)
  /\ \A i \in DOMAIN tasks : tasks[i].what = "acked" => NeedsConnection(tasks[i].op)
  /\ \A i \in DOMAIN stack : stack[i].at = "establish" => NeedsConnection(stack[i].op)

CallsAgree ==
  \A i \in DOMAIN stack : stack[i].at = "complete" /\ stack[i].op \notin failed =>
    /\ KindOf(stack[i].op) = "connect" => connected
    /\ KindOf(stack[i].op) = "disconnect" => ~connected

(* The inductive invariant.                                                *)
AloneInv ==
  /\ OpsTypeOK /\ TransportTypeOK
  /\ OneCallAtATime
  /\ InOnePlace
  /\ \A o \in UserOps : kind[o] = "none" => outcome[User(o)] = "none"
  /\ AckedInPlace
  /\ CallsAgree
=============================================================================
