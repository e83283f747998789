------------------------- MODULE MQTTTransportStage -------------------------
(***************************************************************************)
(* MQTTTransportStage and MQTTTransport, over the Paho MQTT client.        *)
(*                                                                         *)
(* The stage remembers the one connection operation that waits for the     *)
(* library (`pending`).  The library is external: `sock` is its socket     *)
(* ("opening" until the CONNACK is read), `loop` says that its network     *)
(* thread runs, `inflight` holds the packets that still wait for an        *)
(* acknowledgement.  Its network thread only adds tasks to the executor of *)
(* the pipeline thread.  `established` and `unknown` are the two           *)
(* dictionaries of OperationManager, with the operation for its mid.       *)
(***************************************************************************)
EXTENDS PipelineOps, FiniteSets

CONSTANT MaxFaults  (* bound on the faults of network and broker           *)

ASSUME FaultsAssumption == MaxFaults \in Nat

VARIABLES pending, sock, loop, inflight, established, unknown, faults
transportVars == <<pending, sock, loop, inflight, established, unknown, faults>>
pahoVars      == <<sock, loop, faults>>
managerVars   == <<inflight, established, unknown>>

TransportTypeOK ==
  /\ pending \in OpIds \union {NoOp}
  /\ sock \in {"none", "opening", "open"}
  /\ loop \in BOOLEAN
  /\ inflight \in SUBSET OpIds
  /\ established \in SUBSET OpIds
  /\ unknown \in SUBSET OpIds
  /\ faults \in 0..MaxFaults

TransportInit ==
  /\ pending = NoOp
  /\ sock = "none"
  /\ loop = FALSE
  /\ inflight = {}
  /\ established = {}
  /\ unknown = {}
  /\ faults = 0

-----------------------------------------------------------------------------
(* Mutant: the library starts a clean session on every connection.         *)
KeptByCleanSession == {}

(* clean_session=False: a publish survives the loss of its socket and      *)
(* is sent again on the next one; a subscribe or unsubscribe is not.       *)
KeptBySession == {op \in inflight : KindOf(op) = "publish"}

Fault == faults < MaxFaults /\ faults' = faults + 1

Connack ==
  /\ loop /\ sock = "opening"
  /\ sock' = "open"
  /\ tasks' = Append(tasks, Event("connected"))
  /\ UNCHANGED <<kind, stack, failed, outcome, connected, pending, loop, faults, managerVars>>

(* A CONNACK with a refusal closes the socket: on_connect, on_disconnect.  *)
Refuse ==
  /\ loop /\ sock = "opening" /\ Fault
  /\ sock' = "none"
  /\ inflight' = KeptBySession
  /\ tasks' = tasks \o <<Event("refused"), Event("dropped")>>
  /\ UNCHANGED <<kind, stack, failed, outcome, connected, pending, loop, established, unknown>>

Drop ==
  /\ loop /\ sock # "none" /\ Fault
  /\ sock' = "none"
  /\ inflight' = KeptBySession
  /\ tasks' = Append(tasks, Event("dropped"))
  /\ UNCHANGED <<kind, stack, failed, outcome, connected, pending, loop, established, unknown>>

(* The network thread opens the socket again after a loss.                 *)
AutoReconnect ==
  /\ loop /\ sock = "none"
  /\ sock' = "opening"
  /\ UNCHANGED <<opVars, pending, loop, faults, managerVars>>

(* An acknowledgement is read: OperationManager.complete_operation.        *)
Ack ==
  /\ loop /\ sock = "open"
  /\ \E op \in inflight :
       /\ inflight' = inflight \ {op}
       /\ IF op \in established
          THEN /\ established' = established \ {op}
               /\ tasks' = Append(tasks, AckTask(op))
               /\ UNCHANGED unknown
          ELSE /\ unknown' = unknown \union {op}
               /\ UNCHANGED <<established, tasks>>
  /\ UNCHANGED <<kind, stack, failed, outcome, connected, pending, pahoVars>>

-----------------------------------------------------------------------------
(* The transport's connection operations.                                  *)
AtTransport(kinds) ==
  /\ At("transport") \/ At("cancelled")
  /\ KindOf(This) \in kinds

(* _cancel_pending_connection_op: the operation that waits fails, then the *)
(* new one goes on.                                                        *)
CancelPending ==
  /\ At("transport") /\ IsConnectionOp(This) /\ pending # NoOp
  /\ failed' = failed \union {pending}
  /\ Replace(<<Call("complete", pending), Call("cancelled", This)>>)
  /\ UNCHANGED <<kind, tasks, outcome, connected, transportVars>>

NothingToCancel == At("cancelled") \/ pending = NoOp

(* Mutant: the operation is not completed.                                 *)
RaiseUnseen ==
  /\ pending' = NoOp
  /\ failed' = failed \union {This}
  /\ Return

(* The library raises an exception: the operation ends with that error.    *)
Raise ==
  /\ pending' = NoOp
  /\ failed' = failed \union {This}
  /\ Replace(<<Call("complete", This)>>)

(* The old socket, if any, is closed without a call of on_disconnect.      *)
Connect ==
  /\ AtTransport(ConnectKinds) /\ NothingToCancel
  /\ sock' = "opening"
  /\ loop' = (loop \/ KindOf(This) = "connect")
  /\ inflight' = KeptBySession
  /\ pending' = This
  /\ Return
  /\ UNCHANGED <<kind, tasks, failed, outcome, connected, established, unknown, faults>>

ConnectRaises ==
  /\ AtTransport(ConnectKinds) /\ NothingToCancel /\ Fault
  /\ sock' = "none"
  /\ inflight' = KeptBySession
  /\ Raise
  /\ UNCHANGED <<kind, tasks, outcome, connected, loop, established, unknown>>

(* The network thread sends the DISCONNECT, reports it and ends before the *)
(* call returns.                                                           *)
Disconnect ==
  /\ AtTransport({"disconnect"}) /\ NothingToCancel
  /\ sock # "none" /\ loop
  /\ sock' = "none"
  /\ loop' = FALSE
  /\ inflight' = KeptBySession
  /\ tasks' = Append(tasks, Event("disconnected"))
  /\ pending' = This
  /\ Return
  /\ UNCHANGED <<kind, failed, outcome, connected, established, unknown, faults>>

(* Without a network thread on_disconnect is called on the pipeline thread,*)
(* inside the call: _on_mqtt_disconnected runs at once.                    *)
DisconnectInline ==
  /\ AtTransport({"disconnect"}) /\ NothingToCancel
  /\ sock # "none" /\ ~loop
  /\ sock' = "none"
  /\ inflight' = KeptBySession
  /\ connected' = FALSE
  /\ pending' = NoOp
  /\ Replace(<<Call("complete", This)>>)
  /\ UNCHANGED <<kind, tasks, failed, outcome, loop, established, unknown, faults>>

DisconnectRaises ==
  /\ AtTransport({"disconnect"}) /\ NothingToCancel
  /\ sock = "none"
  /\ loop' = FALSE
  /\ Raise
  /\ UNCHANGED <<kind, tasks, outcome, connected, sock, faults, managerVars>>

-----------------------------------------------------------------------------
(* Publish, subscribe, unsubscribe.  Without a socket the library returns  *)
(* an error, which the transport raises; the library keeps a publish all   *)
(* the same.                                                               *)
SendRaises ==
  /\ At("transport") /\ NeedsConnection(This) /\ sock = "none"
  /\ inflight' = IF KindOf(This) = "publish" THEN inflight \union {This} ELSE inflight
  /\ failed' = failed \union {This}
  /\ Replace(<<Call("complete", This)>>)
  /\ UNCHANGED <<kind, tasks, outcome, connected, pending, established, unknown, pahoVars>>

Send ==
  /\ At("transport") /\ NeedsConnection(This) /\ sock # "none"
  /\ inflight' = inflight \union {This}
  /\ Replace(<<Call("establish", This)>>)
  /\ UNCHANGED <<kind, tasks, failed, outcome, connected, pending, established, unknown, pahoVars>>

(* OperationManager.establish_operation: the acknowledgement may have been *)
(* read already.  The callback then runs on this thread, at once.          *)
Establish ==
  /\ At("establish")
  /\ IF This \in unknown
     THEN /\ unknown' = unknown \ {This}
          /\ Replace(<<Call("complete", This)>>)
          /\ UNCHANGED established
     ELSE /\ established' = established \union {This}
          /\ Return
          /\ UNCHANGED unknown
  /\ UNCHANGED <<kind, tasks, failed, outcome, connected, pending, inflight, pahoVars>>

(* on_published, on_subscribed, on_unsubscribed on the pipeline thread.    *)
OnAcked ==
  /\ Starts("acked")
  /\ tasks' = Tail(tasks)
  /\ stack' = <<Call("complete", Head(tasks).op)>>
  /\ UNCHANGED <<kind, failed, outcome, connected, transportVars>>

-----------------------------------------------------------------------------
(* The event handlers.  `connected` is set first: the stages above see it  *)
(* before the pending operation completes.                                 *)

(* Mutant: the type of the pending operation is not looked at.             *)
PendingOfAnyKind(kinds) == pending # NoOp

PendingIs(kinds) == pending # NoOp /\ KindOf(pending) \in kinds

(* Mutant: the completed operation stays pending.                          *)
CompletePendingKept ==
  /\ UNCHANGED pending
  /\ stack' = <<Call("complete", pending)>>

CompletePending ==
  /\ pending' = NoOp
  /\ stack' = <<Call("complete", pending)>>

(* Mutant: an unexpected connection is not reported to the stages above.   *)
OnMqttConnectedExpected ==
  /\ Starts("connected")
  /\ tasks' = Tail(tasks)
  /\ IF PendingIs(ConnectKinds) THEN connected' = TRUE /\ CompletePending
                                ELSE UNCHANGED <<connected, pending, stack>>
  /\ UNCHANGED <<kind, failed, outcome, pahoVars, managerVars>>

OnMqttConnected ==
  /\ Starts("connected")
  /\ tasks' = Tail(tasks)
  /\ connected' = TRUE
  /\ IF PendingIs(ConnectKinds) THEN CompletePending ELSE UNCHANGED <<pending, stack>>
  /\ UNCHANGED <<kind, failed, outcome, pahoVars, managerVars>>

OnMqttConnectionFailure ==
  /\ Starts("refused")
  /\ tasks' = Tail(tasks)
  /\ IF PendingIs(ConnectKinds)
     THEN CompletePending /\ failed' = failed \union {pending}
     ELSE UNCHANGED <<pending, stack, failed>>
  /\ UNCHANGED <<kind, outcome, connected, pahoVars, managerVars>>

OnMqttDisconnected ==
  /\ Starts("disconnected") \/ Starts("dropped")
  /\ tasks' = Tail(tasks)
  /\ connected' = FALSE
  /\ IF PendingIs({"disconnect"})
     THEN /\ CompletePending
          /\ failed' = IF Starts("dropped") THEN failed \union {pending} ELSE failed
     ELSE UNCHANGED <<pending, stack, failed>>
  /\ UNCHANGED <<kind, outcome, pahoVars, managerVars>>

Library == Connack \/ Refuse \/ Drop \/ AutoReconnect \/ Ack
TransportOps ==
  \/ CancelPending \/ Connect \/ ConnectRaises
  \/ Disconnect \/ DisconnectInline \/ DisconnectRaises
  \/ SendRaises \/ Send \/ Establish
EventHandlers == OnMqttConnected \/ OnMqttConnectionFailure \/ OnMqttDisconnected \/ OnAcked

-----------------------------------------------------------------------------
(* Where an operation is: in the executor's queue, in a call that is still *)
(* to be made, pending (and not being cancelled), or in the dictionary of  *)
(* OperationManager.                                                       *)
Cancelling == \E i \in DOMAIN stack : stack[i].at = "cancelled"
Positions(op) ==
  Cardinality({i \in DOMAIN tasks : tasks[i].op = op})
  + Cardinality({i \in DOMAIN stack : stack[i].op = op})
  + (IF pending = op /\ ~Cancelling THEN 1 ELSE 0)
  + (IF op \in established THEN 1 ELSE 0)
=============================================================================
