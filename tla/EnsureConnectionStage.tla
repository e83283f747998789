----------------------- MODULE EnsureConnectionStage -----------------------
(***************************************************************************)
(* EnsureConnectionStage: an operation that needs a connection when there  *)
(* is none waits while a ConnectOperation of its own goes down first.  The *)
(* stage keeps no state: the waiting operation lives in the callback of    *)
(* that ConnectOperation.                                                  *)
(***************************************************************************)
EXTENDS PipelineOps

EnsureConnection ==
  /\ At("ensure")
  /\ Replace(<<IF NeedsConnection(This) /\ ~connected
               THEN Call("serialize", AutoConnect(This[1]))
               ELSE PassTo("serialize", This)>>)
  /\ UNCHANGED <<kind, tasks, failed, outcome, connected>>

(* on_connect_op_complete: the ConnectOperation has ended.                 *)
OnConnectOpComplete ==
  LET op == User(This[1]) IN
  /\ Record(This)
  /\ IF This \in failed
     THEN /\ failed' = failed \union {op}
          /\ Replace(<<Call("complete", op)>>)
     ELSE /\ Replace(<<PassTo("serialize", op)>>)
          /\ UNCHANGED failed
  /\ UNCHANGED <<kind, tasks, connected>>
=============================================================================
