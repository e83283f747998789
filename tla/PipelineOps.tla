---------------------------- MODULE PipelineOps ----------------------------
(***************************************************************************)
(* Operations and the pipeline thread.                                     *)
(*                                                                         *)
(* Every stage of the pipeline runs on one thread, the worker of a         *)
(* ThreadPoolExecutor with one worker.  `tasks` is the FIFO queue of that  *)
(* executor.  A task calls into a stage, which calls the next stage, or    *)
(* the callback of an operation, and so on: `stack` holds the calls still  *)
(* to be made before the task returns, the next one first.  Between two    *)
(* calls the application threads and the MQTT library run freely.          *)
(***************************************************************************)
EXTENDS Sequences, Naturals

CONSTANTS
  UserOps,    (* operations the application submits                        *)
  UserKinds,  (* the kinds of operation it submits                         *)
  NoOp        (* Python's None where an operation could be                 *)

ConnectKinds    == {"connect", "reconnect"}
ConnectionKinds == ConnectKinds \union {"disconnect"}
AckedKinds      == {"publish", "subscribe", "unsubscribe"}
Kinds           == ConnectionKinds \union AckedKinds

(* An operation is the one the application submitted, or the              *)
(* ConnectOperation that EnsureConnectionStage makes on its behalf.        *)
OpIds   == UserOps \X {"user", "auto"}
User(o) == <<o, "user">>
AutoConnect(o) == <<o, "auto">>
IsAuto(op) == op[2] = "auto"

ASSUME OpsAssumption ==
  /\ UserKinds \subseteq Kinds
  /\ NoOp \notin OpIds

VARIABLES
  kind,       (* kind of each submitted operation, "none" before           *)
  tasks,      (* the executor's queue                                      *)
  stack,      (* calls the running task still has to make                  *)
  failed,     (* operations whose `error` is set                           *)
  outcome,    (* what the callback of each operation was called with       *)
  connected   (* PipelineRootStage.connected                               *)

opVars == <<kind, tasks, stack, failed, outcome, connected>>

KindOf(op) == IF IsAuto(op) THEN "connect" ELSE kind[op[1]]
IsConnectionOp(op)  == KindOf(op) \in ConnectionKinds
NeedsConnection(op) == KindOf(op) \in AckedKinds

Places == {"ensure", "serialize", "transport", "cancelled", "establish", "complete"}
Frame  == [at : Places, op : OpIds]
Call(at, op) == [at |-> at, op |-> op]

Events == {"connected", "refused", "disconnected", "dropped"}
Task   == [what : {"run", "acked"}, op : OpIds] \union [what : Events, op : {NoOp}]
RunTask(op) == [what |-> "run", op |-> op]
AckTask(op) == [what |-> "acked", op |-> op]
Event(e)    == [what |-> e, op |-> NoOp]

OpsTypeOK ==
  /\ kind \in [UserOps -> Kinds \union {"none"}]
  /\ tasks \in Seq(Task)
  /\ stack \in Seq(Frame)
  /\ failed \in SUBSET OpIds
  /\ outcome \in [OpIds -> {"none", "ok", "failed"}]
  /\ connected \in BOOLEAN

OpsInit ==
  /\ kind = [o \in UserOps |-> "none"]
  /\ tasks = <<>>
  /\ stack = <<>>
  /\ failed = {}
  /\ outcome = [op \in OpIds |-> "none"]
  /\ connected = FALSE

-----------------------------------------------------------------------------
(* operation_flow.pass_op_to_next_stage: the call it makes.                *)
PassTo(at, op) == Call(IF op \in failed THEN "complete" ELSE at, op)

(* The next call to make is at a place; it is replaced by other calls.     *)
At(at) == stack # <<>> /\ Head(stack).at = at
This   == Head(stack).op
Return == stack' = Tail(stack)
Replace(calls) == stack' = calls \o Tail(stack)

(* The task at the head of the executor's queue starts on an idle thread.  *)
Starts(what) == stack = <<>> /\ tasks # <<>> /\ Head(tasks).what = what

(* The callback of an operation is called with the error the operation has.*)
Record(op) ==
  outcome' = [outcome EXCEPT ![op] = IF op \in failed THEN "failed" ELSE "ok"]

(* A client method submits an operation: PipelineRootStage.run_op.         *)
Submit(o, k) ==
  /\ kind[o] = "none"
  /\ kind' = [kind EXCEPT ![o] = k]
  /\ tasks' = Append(tasks, RunTask(User(o)))
  /\ UNCHANGED <<stack, failed, outcome, connected>>

(* The root, converter and authentication stages pass the operation on.    *)
StartOp ==
  /\ Starts("run")
  /\ tasks' = Tail(tasks)
  /\ stack' = <<Call("ensure", Head(tasks).op)>>
  /\ UNCHANGED <<kind, failed, outcome, connected>>

(* complete_op of an operation the application submitted: its callback is  *)
(* handed to the callback thread.                                          *)
UserCallback ==
  /\ Record(This)
  /\ Return
  /\ UNCHANGED <<kind, tasks, failed, connected>>
-----------------------------------------------------------------------------
Completes(op, result) == outcome[op] = "none" /\ outcome'[op] = result

(* A connect that succeeds leaves the pipeline connected, a disconnect     *)
(* that succeeds leaves it disconnected, in the very step that calls the   *)
(* callback: everything _unblock released in between included.  (Not so a  *)
(* reconnect, whose success may release a disconnect that ends at once.)   *)
ResultMatchesConnected ==
  [][\A op \in OpIds : Completes(op, "ok") =>
       /\ KindOf(op) = "connect" => connected
       /\ KindOf(op) = "disconnect" => ~connected]_opVars
=============================================================================
