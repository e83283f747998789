------------------------- MODULE ConnectionPipeline -------------------------
(***************************************************************************)
(* The connection half of the pipeline: EnsureConnectionStage,             *)
(* SerializeConnectOpsStage and MQTTTransportStage, the order in which     *)
(* IoTHubPipeline and ProvisioningPipeline append them, under the          *)
(* application's threads and over the MQTT library's network thread.       *)
(***************************************************************************)
EXTENDS EnsureConnectionStage, SerializeConnectOpsStage, MQTTTransportStage, FiniteSets

vars == <<opVars, serializeVars, transportVars>>

Init == OpsInit /\ SerializeInit /\ TransportInit

(* complete_op: which callback the operation has.                          *)
CompleteOp ==
  /\ At("complete")
  /\ \/ This \in wrapped /\ OnOperationComplete
     \/ This \notin wrapped /\ IsAuto(This) /\ OnConnectOpComplete /\ UNCHANGED serializeVars
     \/ This \notin wrapped /\ ~IsAuto(This) /\ UserCallback /\ UNCHANGED serializeVars

Application == \E o \in UserOps, k \in UserKinds : Submit(o, k)

PipelineThread ==
  \/ (StartOp \/ EnsureConnection) /\ UNCHANGED <<serializeVars, transportVars>>
  \/ (QueueOp \/ CompleteEarly \/ Block \/ PassOp) /\ UNCHANGED transportVars
  \/ CompleteOp /\ UNCHANGED transportVars
  \/ (TransportOps \/ EventHandlers) /\ UNCHANGED serializeVars

Next ==
  \/ Application /\ UNCHANGED <<serializeVars, transportVars>>
  \/ PipelineThread
  \/ Library /\ UNCHANGED serializeVars

Spec == Init /\ [][Next]_vars

(* The pipeline thread runs what is queued; the network thread keeps       *)
(* trying and the broker answers what it received.                         *)
Fairness ==
  /\ WF_vars(PipelineThread)
  /\ WF_vars(Connack /\ UNCHANGED serializeVars)
  /\ WF_vars(AutoReconnect /\ UNCHANGED serializeVars)
  /\ WF_vars(Ack /\ UNCHANGED serializeVars)
FairSpec == Spec /\ Fairness

-----------------------------------------------------------------------------
(* The variables of the three stages have their types: in particular the   *)
(* transport's pending operation, the queue and every call still to be     *)
(* made are operations that exist.                                         *)
TypeOK == OpsTypeOK /\ SerializeTypeOK /\ TransportTypeOK

(* Only one connection operation is ever below SerializeConnectOpsStage:   *)
(* the stage is blocked exactly while one is, the transport's pending      *)
(* operation is that one, and no connection operation reaches the          *)
(* transport while another is pending, so that it never cancels one.       *)
OneConnectionOp ==
  /\ blocked <=> wrapped # {}
  /\ \A a, b \in wrapped : a = b
  /\ pending # NoOp => pending \in wrapped
  /\ \A i \in DOMAIN stack :
       stack[i].at = "transport" /\ IsConnectionOp(stack[i].op)
         => stack[i].op \in wrapped /\ pending = NoOp

(* No operation is lost and none is completed twice: an operation that was *)
(* submitted and whose callback was not called is in exactly one place,    *)
(* itself or the ConnectOperation made for it, and one whose callback was  *)
(* called is in none.                                                      *)
HeldAt(op) == Positions(op) + Cardinality({i \in DOMAIN queue : queue[i] = op})
HeldOnce ==
  \A o \in UserOps :
    HeldAt(User(o)) + HeldAt(AutoConnect(o)) =
      (IF kind[o] # "none" /\ outcome[User(o)] = "none" THEN 1 ELSE 0)

(* What no event says any more stays true: a socket that is open, with no  *)
(* event under way, is known to the stages above.                          *)
OpenIsConnected == sock = "open" /\ tasks = <<>> /\ stack = <<>> => connected

(* Every connect and disconnect ends, whatever is queued around it and     *)
(* however the (bounded) faults fall: the pipeline is never left blocked.  *)
ConnectionOpsComplete ==
  \A o \in UserOps : kind[o] \in {"connect", "disconnect"} ~> outcome[User(o)] # "none"

(* A publish the library accepted is confirmed to the application unless   *)
(* the connection is closed: also over the loss of its socket.             *)
PublishConfirmed ==
  \A o \in UserOps :
    kind[o] = "publish" /\ User(o) \in established /\ loop
      ~> outcome[User(o)] # "none" \/ ~loop

(* ConnectionGate, the promise of SerializeConnectOpsStage.                *)
Holder == IF wrapped = {} THEN NoOp ELSE CHOOSE op \in wrapped : TRUE
Gate == INSTANCE ConnectionGate WITH Ops <- OpIds, NoHolder <- NoOp, holder <- Holder,
                                     ended <- {op \in OpIds : outcome[op] # "none"}

(* SerializeConnectOpsStage implements the gate: from the block of one     *)
(* connection operation to its on_operation_complete no other passes, and  *)
(* an operation whose callback was called never blocks the stage again.    *)
ImplementsGate == Gate!Spec

-----------------------------------------------------------------------------
(* Why OneConnectionOp holds: connection operations, the application's and *)
(* those of EnsureConnectionStage, are never in two places at once.        *)
OnStack(op) == \E i \in DOMAIN stack : stack[i].op = op
InQueue(op) == \E i \in DOMAIN queue : queue[i] = op
Below(op)   == OnStack(op) \/ InQueue(op) \/ pending = op \/ op \in wrapped
Untouched(o) ==
  /\ Below(User(o)) => NeedsConnection(User(o))
  /\ ~Below(AutoConnect(o))

(* The kind of the operations in each place.  Nothing is ever cancelled.   *)
KindsInPlace ==
  /\ \A op \in wrapped : IsConnectionOp(op)
  /\ \A op \in inflight \union established : NeedsConnection(op)
  /\ \A i \in DOMAIN tasks : tasks[i].what = "acked" => NeedsConnection(tasks[i].op)
  /\ \A i \in DOMAIN stack : /\ stack[i].at # "cancelled"
                             /\ stack[i].at = "establish" => NeedsConnection(stack[i].op)

(* A connection operation is on the stack once, or in the queue once, or   *)
(* pending.                                                                *)
OnePlace ==
  /\ \A i, j \in DOMAIN stack :
       IsConnectionOp(stack[i].op) /\ stack[i].op = stack[j].op => i = j
  /\ \A i, j \in DOMAIN queue :
       IsConnectionOp(queue[i]) /\ queue[i] = queue[j] => i = j
  /\ \A i \in DOMAIN queue : IsConnectionOp(queue[i]) => ~OnStack(queue[i])
  /\ pending # NoOp => ~OnStack(pending) /\ ~InQueue(pending)

(* An operation that has not reached EnsureConnectionStage is nowhere      *)
(* below it, unless it is one that needs a connection, nor is a            *)
(* ConnectOperation made for it; such an operation is made for operations  *)
(* that need a connection only.                                            *)
NotYetBelow ==
  /\ \A o \in UserOps : kind[o] = "none" => Untouched(o)
  /\ \A i \in DOMAIN tasks : tasks[i].what = "run" =>
       /\ ~IsAuto(tasks[i].op)
       /\ kind[tasks[i].op[1]] # "none"
       /\ Untouched(tasks[i].op[1])
  /\ \A o \in UserOps : Below(AutoConnect(o)) => NeedsConnection(User(o))

(* Each operation is run once.                                             *)
RunOnce ==
  \A i, j \in DOMAIN tasks : tasks[i].what = "run" /\ tasks[i] = tasks[j] => i = j

(* An operation enters EnsureConnectionStage on an otherwise empty stack.  *)
EnsureAlone ==
  \A i \in DOMAIN stack : stack[i].at = "ensure" =>
    /\ Len(stack) = 1
    /\ ~IsAuto(stack[i].op)
    /\ ~Below(AutoConnect(stack[i].op[1]))
    /\ \A j \in DOMAIN tasks : tasks[j].what = "run" => tasks[j].op # stack[i].op

(* OneConnectionOp, and where each connection operation may be between its *)
(* submission and its callback.  These conjuncts are inductive alone.      *)
IInv ==
  /\ TypeOK
  /\ OneConnectionOp
  /\ KindsInPlace
  /\ OnePlace
  /\ NotYetBelow
  /\ RunOnce
  /\ EnsureAlone

-----------------------------------------------------------------------------
(* Why HeldOnce holds, and why no ConnectOperation is made twice for one   *)
(* operation: an operation that was not submitted has no outcome, and one  *)
(* whose ConnectOperation has ended is past EnsureConnectionStage for good.*)
Entering(op) ==
  \/ \E i \in DOMAIN tasks : tasks[i].what = "run" /\ tasks[i].op = op
  \/ \E i \in DOMAIN stack : stack[i].at = "ensure" /\ stack[i].op = op

AutoOnce ==
  \A o \in UserOps : outcome[AutoConnect(o)] # "none" =>
    kind[o] # "none" /\ ~Entering(User(o)) /\ HeldAt(AutoConnect(o)) = 0

HeldInv ==
  /\ HeldOnce
  /\ \A o \in UserOps : kind[o] = "none" => outcome[User(o)] = "none"
  /\ AutoOnce

(* Why OpenIsConnected holds: the report of an open socket is under way or *)
(* was heard, and every report of an earlier loss comes before it.         *)
SocketKnown ==
  sock = "open" =>
    /\ connected \/ \E i \in DOMAIN tasks : tasks[i].what = "connected"
    /\ \A i \in DOMAIN tasks : tasks[i].what \in {"disconnected", "dropped"} =>
         \E j \in DOMAIN tasks : i < j /\ tasks[j].what = "connected"

(* Why ResultMatchesConnected holds.  A connect that is about to succeed   *)
(* finds the pipeline connected, and stays safe from a disconnect that     *)
(* completes inside its call, which needs a socket without network thread. *)
WillSucceed(i, k) ==
  stack[i].at = "complete" /\ stack[i].op \notin failed /\ KindOf(stack[i].op) = k
Sheltered == loop \/ sock = "none" \/ pending # NoOp
Safe(i)   == Sheltered \/ (i = 1 /\ stack[i].op \notin wrapped)
ResultInv ==
  /\ pending # NoOp /\ KindOf(pending) = "connect" => loop
  /\ \A i \in DOMAIN stack : WillSucceed(i, "disconnect") => ~connected
  /\ \A i \in DOMAIN stack : WillSucceed(i, "connect") => connected /\ Safe(i)

(* What the promises to the callers need, beyond IInv.                     *)
CallersInv == HeldInv /\ SocketKnown /\ ResultInv

(* The whole inductive invariant.                                          *)
PipelineInv == IInv /\ CallersInv

-----------------------------------------------------------------------------
(* Claims of the documentation.                                            *)

(* send_message: "this function will open the connection before sending".  *)
(* While network and broker work, no publish or subscribe fails.           *)
SendOpensConnection ==
  \A o \in UserOps : kind[o] \in AckedKinds /\ faults = 0 => outcome[User(o)] # "failed"

(* connect: "will not return until the connection to the service has been  *)
(* completely established".  Even with nothing left to hear from the       *)
(* library there is a connection, or a network thread that reopens it.     *)
ConnectEstablishes ==
  [][\A o \in UserOps :
       kind[o] = "connect" /\ Completes(User(o), "ok") =>
         sock # "none" \/ loop \/ tasks # <<>>]_vars
=============================================================================
