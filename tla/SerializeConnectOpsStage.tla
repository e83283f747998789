---------------------- MODULE SerializeConnectOpsStage ----------------------
(***************************************************************************)
(* SerializeConnectOpsStage: one connect, disconnect or reconnect below    *)
(* this stage at a time.  While one is below, every other operation waits  *)
(* in `queue`.  `wrapped` holds the operations whose callback is replaced  *)
(* by on_operation_complete.                                               *)
(***************************************************************************)
EXTENDS PipelineOps

VARIABLES blocked, queue, wrapped
serializeVars == <<blocked, queue, wrapped>>

SerializeTypeOK ==
  /\ blocked \in BOOLEAN
  /\ queue \in Seq(OpIds)
  /\ wrapped \in SUBSET OpIds

SerializeInit == blocked = FALSE /\ queue = <<>> /\ wrapped = {}

QueueOp ==
  /\ At("serialize") /\ blocked
  /\ queue' = Append(queue, This)
  /\ Return
  /\ UNCHANGED <<kind, tasks, failed, outcome, connected, blocked, wrapped>>

(* Mutant: a connect is taken for done whether connected or not.           *)
CompletesEarlyUnchecked(op) ==
  \/ KindOf(op) = "connect"
  \/ KindOf(op) = "disconnect" /\ ~connected

(* Connect when connected, or disconnect when not: nothing to do.          *)
CompletesEarly(op) ==
  \/ KindOf(op) = "connect" /\ connected
  \/ KindOf(op) = "disconnect" /\ ~connected

CompleteEarly ==
  /\ At("serialize") /\ ~blocked /\ CompletesEarly(This)
  /\ Replace(<<Call("complete", This)>>)
  /\ UNCHANGED <<kind, tasks, failed, outcome, connected, serializeVars>>

(* Mutant: the stage is not blocked.                                       *)
BlockWithoutBlocking ==
  /\ At("serialize") /\ ~blocked /\ ~CompletesEarly(This)
  /\ IsConnectionOp(This)
  /\ wrapped' = wrapped \union {This}
  /\ Replace(<<PassTo("transport", This)>>)
  /\ UNCHANGED <<kind, tasks, failed, outcome, connected, blocked, queue>>

Block ==
  /\ At("serialize") /\ ~blocked /\ ~CompletesEarly(This)
  /\ IsConnectionOp(This)
  /\ blocked' = TRUE
  /\ wrapped' = wrapped \union {This}
  /\ Replace(<<PassTo("transport", This)>>)
  /\ UNCHANGED <<kind, tasks, failed, outcome, connected, queue>>

PassOp ==
  /\ At("serialize") /\ ~blocked /\ ~IsConnectionOp(This)
  /\ Replace(<<PassTo("transport", This)>>)
  /\ UNCHANGED <<kind, tasks, failed, outcome, connected, serializeVars>>

(* Mutant: only the first operation of the queue is released.              *)
ReleaseFirst(at) == [i \in DOMAIN queue \intersect {1} |-> Call(at, queue[i])]

(* The calls _unblock makes for the operations it takes from the queue:    *)
(* each fails with the error of the operation that ended, or is run again  *)
(* from this stage.                                                        *)
Release(at) == [i \in DOMAIN queue |-> Call(at, queue[i])]
Queued == {queue[i] : i \in DOMAIN queue}

(* on_operation_complete: the operation below has ended.  Its own callback *)
(* is called after the queue was released.                                 *)
OnOperationComplete ==
  /\ wrapped' = wrapped \ {This}
  /\ blocked' = FALSE
  /\ queue' = <<>>
  /\ IF This \in failed
     THEN /\ failed' = failed \union Queued
          /\ Replace(Release("complete") \o <<Call("complete", This)>>)
     ELSE /\ Replace(Release("serialize") \o <<Call("complete", This)>>)
          /\ UNCHANGED failed
  /\ UNCHANGED <<kind, tasks, outcome, connected>>
=============================================================================
