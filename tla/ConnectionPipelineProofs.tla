---------------------- MODULE ConnectionPipelineProofs ----------------------
(***************************************************************************)
(* Proofs about ConnectionPipeline, for any operations and any number of   *)
(* faults.                                                                 *)
(***************************************************************************)
EXTENDS ConnectionPipeline, SequenceTheorems, TLAPS

(* What the calls of a step do to the stack, index by index.               *)
LEMMA TailIndex ==
  ASSUME NEW S, NEW s \in Seq(S), s # <<>>
  PROVE  /\ Tail(s) \in Seq(S)
         /\ Head(s) \in S /\ Head(s) = s[1]
         /\ Len(s) \in Nat \ {0}
         /\ Len(Tail(s)) = Len(s) - 1
         /\ \A i \in 1..Len(Tail(s)) : Tail(s)[i] = s[i + 1]
  OBVIOUS

LEMMA ReplaceIndex ==
  ASSUME NEW S, NEW s \in Seq(S), s # <<>>, NEW c \in S
  PROVE  /\ <<c>> \o Tail(s) \in Seq(S)
         /\ Len(<<c>> \o Tail(s)) = Len(s)
         /\ (<<c>> \o Tail(s))[1] = c
         /\ \A i \in 2..Len(s) : (<<c>> \o Tail(s))[i] = s[i]
  OBVIOUS

LEMMA AppendIndex ==
  ASSUME NEW S, NEW s \in Seq(S), NEW c \in S
  PROVE  /\ Append(s, c) \in Seq(S)
         /\ Len(Append(s, c)) = Len(s) + 1
         /\ DOMAIN Append(s, c) = 1..(Len(s) + 1)
         /\ Append(s, c)[Len(s) + 1] = c
         /\ \A i \in 1..Len(s) : Append(s, c)[i] = s[i]
  OBVIOUS

LEMMA AppendTwoIndex ==
  ASSUME NEW S, NEW s \in Seq(S), NEW c \in S, NEW d \in S
  PROVE  LET t == s \o <<c, d>> IN
         /\ t \in Seq(S)
         /\ DOMAIN t = 1..(Len(s) + 2)
         /\ t[Len(s) + 1] = c /\ t[Len(s) + 2] = d
         /\ \A i \in 1..Len(s) : t[i] = s[i]
  OBVIOUS

LEMMA RangeSplit ==
  \A n \in Nat : /\ \A i \in 1..(n + 1) : i \in 1..n \/ i = n + 1
                /\ \A i \in 1..(n + 2) : i \in 1..n \/ i = n + 1 \/ i = n + 2
OBVIOUS

LEMMA ReleaseIndex ==
  ASSUME NEW S, NEW r \in Seq(S), NEW s \in Seq(S), s # <<>>, NEW c \in S
  PROVE  LET t == (r \o <<c>>) \o Tail(s) IN
         /\ t \in Seq(S)
         /\ Len(t) = Len(r) + Len(s)
         /\ t[Len(r) + 1] = c
         /\ \A i \in 1..Len(r) : t[i] = r[i]
         /\ \A i \in (Len(r) + 2)..Len(t) : t[i] = s[i - Len(r)]
  OBVIOUS

-----------------------------------------------------------------------------
LEMMA CallType ==
  ASSUME NEW at \in Places, NEW op \in OpIds
  PROVE  Call(at, op) \in Frame /\ PassTo(at, op) \in Frame
BY DEF Call, PassTo, Frame, Places

LEMMA OpIdsType ==
  /\ \A o \in UserOps : User(o) \in OpIds /\ AutoConnect(o) \in OpIds
  /\ \A op \in OpIds : op[1] \in UserOps /\ User(op[1]) \in OpIds /\ AutoConnect(op[1]) \in OpIds
  /\ \A op \in OpIds : IF IsAuto(op) THEN op = AutoConnect(op[1]) ELSE op = User(op[1])
  /\ \A o \in UserOps : IsAuto(AutoConnect(o)) /\ ~IsAuto(User(o)) /\ AutoConnect(o)[1] = o /\ User(o)[1] = o
BY DEF OpIds, User, AutoConnect, IsAuto

LEMMA ThisType ==
  ASSUME OpsTypeOK, stack # <<>>
  PROVE  /\ This \in OpIds /\ Tail(stack) \in Seq(Frame)
         /\ \A c \in Frame : <<c>> \o Tail(stack) \in Seq(Frame)
<1>1. Head(stack) \in Frame /\ Tail(stack) \in Seq(Frame)
  BY TailIndex DEF OpsTypeOK
<1>2. \A c \in Frame : <<c>> \o Tail(stack) \in Seq(Frame)
  BY ReplaceIndex DEF OpsTypeOK
<1>3. QED  BY <1>1, <1>2 DEF This, Frame

LEMMA NextTaskType ==
  ASSUME OpsTypeOK, tasks # <<>>
  PROVE  /\ Head(tasks) \in Task /\ Tail(tasks) \in Seq(Task)
         /\ Head(tasks).what \in {"run", "acked"} => Head(tasks).op \in OpIds
<1>1. Head(tasks) \in Task /\ Tail(tasks) \in Seq(Task)
  BY TailIndex DEF OpsTypeOK
<1>2. QED  BY <1>1 DEF Task, Events

LEMMA TaskType ==
  /\ \A op \in OpIds : RunTask(op) \in Task /\ AckTask(op) \in Task
  /\ \A e \in Events : Event(e) \in Task
BY DEF RunTask, AckTask, Event, Task

LEMMA SingleCall == \A c \in Frame : <<c>> \in Seq(Frame)
OBVIOUS

-----------------------------------------------------------------------------
(* Type correctness of the model: every place an operation can be in, and  *)
(* every task of the executor, for any number of operations.               *)
LEMMA InitType == Init => TypeOK
<1> SUFFICES ASSUME Init PROVE TypeOK
  OBVIOUS
<1> USE DEF Init, OpsInit, SerializeInit, TransportInit
<1>1. connected \in BOOLEAN /\ blocked \in BOOLEAN /\ loop \in BOOLEAN
  BY Zenon
<1>2. OpsTypeOK
  BY <1>1 DEF OpsTypeOK
<1>3. SerializeTypeOK
  BY <1>1 DEF SerializeTypeOK
<1>4. TransportTypeOK
  BY <1>1, FaultsAssumption DEF TransportTypeOK
<1>5. QED  BY <1>2, <1>3, <1>4 DEF TypeOK

LEMMA ApplicationType ==
  ASSUME TypeOK, Application, UNCHANGED <<serializeVars, transportVars>>
  PROVE  TypeOK'
<1>1. PICK o \in UserOps, k \in UserKinds : Submit(o, k)
  BY DEF Application
<1>2. RunTask(User(o)) \in Task
  BY OpIdsType, TaskType
<1>3. OpsTypeOK'
  BY <1>1, <1>2, AppendIndex, OpsAssumption DEF Submit, TypeOK, OpsTypeOK
<1>4. QED  BY <1>3 DEF TypeOK, SerializeTypeOK, TransportTypeOK, serializeVars, transportVars

LEMMA UpperStagesType ==
  ASSUME TypeOK,
         \/ (StartOp \/ EnsureConnection) /\ UNCHANGED <<serializeVars, transportVars>>
         \/ (QueueOp \/ CompleteEarly \/ Block \/ PassOp) /\ UNCHANGED transportVars
  PROVE  TypeOK'
<1> USE DEF TypeOK, OpsTypeOK, SerializeTypeOK, TransportTypeOK, serializeVars, transportVars, Return, Replace, At
<1>1. CASE StartOp /\ UNCHANGED <<serializeVars, transportVars>>
  BY <1>1, NextTaskType, CallType, SingleCall DEF StartOp, Starts, Places
<1>2. CASE EnsureConnection /\ UNCHANGED <<serializeVars, transportVars>>
  BY <1>2, ThisType, CallType, OpIdsType DEF EnsureConnection, Places
<1>3. CASE QueueOp /\ UNCHANGED transportVars
  BY <1>3, ThisType, AppendIndex DEF QueueOp
<1>4. CASE CompleteEarly /\ UNCHANGED transportVars
  BY <1>4, ThisType, CallType DEF CompleteEarly, Places
<1>5. CASE Block /\ UNCHANGED transportVars
  BY <1>5, ThisType, CallType DEF Block, Places
<1>6. CASE PassOp /\ UNCHANGED transportVars
  BY <1>6, ThisType, CallType DEF PassOp, Places
<1>7. QED  BY <1>1, <1>2, <1>3, <1>4, <1>5, <1>6

LEMMA ReleaseType ==
  ASSUME SerializeTypeOK
  PROVE  /\ Queued \in SUBSET OpIds
         /\ \A at \in Places : /\ Release(at) \in Seq(Frame)
                             /\ Len(Release(at)) = Len(queue)
                             /\ \A i \in 1..Len(queue) : Release(at)[i] = Call(at, queue[i])
<1>1. /\ DOMAIN queue = 1..Len(queue) /\ Len(queue) \in Nat
      /\ \A i \in 1..Len(queue) : queue[i] \in OpIds
  BY DEF SerializeTypeOK
<1>2. ASSUME NEW at \in Places
      PROVE  /\ Release(at) \in Seq(Frame)
             /\ Len(Release(at)) = Len(queue)
             /\ \A i \in 1..Len(queue) : Release(at)[i] = Call(at, queue[i])
  <2>1. \A i \in 1..Len(queue) : Call(at, queue[i]) \in Frame
    BY <1>1, CallType
  <2>2. Release(at) = [i \in 1..Len(queue) |-> Call(at, queue[i])]
    BY <1>1 DEF Release
  <2>3. QED  BY <1>1, <2>1, <2>2
<1>3. QED  BY <1>1, <1>2 DEF Queued

LEMMA CompleteOpType ==
  ASSUME TypeOK, CompleteOp, UNCHANGED transportVars
  PROVE  TypeOK'
<1> USE DEF TypeOK, OpsTypeOK, SerializeTypeOK, TransportTypeOK, transportVars, serializeVars, Replace, Return, At
<1>1. stack # <<>> /\ This \in OpIds
  BY ThisType DEF CompleteOp
<1>2. outcome' \in [OpIds -> {"none", "ok", "failed"}] \/ outcome' = outcome
  BY <1>1 DEF CompleteOp, OnOperationComplete, OnConnectOpComplete, UserCallback, Record
<1>3. CASE This \in wrapped /\ OnOperationComplete
  <2>1. Call("complete", This) \in Frame
    BY <1>1, CallType DEF Places
  <2>2. ASSUME NEW at \in Places
        PROVE  Release(at) \o <<Call("complete", This)>> \o Tail(stack) \in Seq(Frame)
    <3>1. Release(at) \in Seq(Frame)
      BY ReleaseType
    <3>2. QED  BY <2>1, <3>1, <1>1, ReleaseIndex
  <2>3. stack' \in Seq(Frame)
    BY <1>3, <2>2 DEF OnOperationComplete, Places
  <2>4. failed' \in SUBSET OpIds
    BY <1>3, ReleaseType DEF OnOperationComplete
  <2>5. blocked' \in BOOLEAN
    BY <1>3, Zenon DEF OnOperationComplete
  <2>6. QED  BY <1>2, <1>3, <2>3, <2>4, <2>5 DEF OnOperationComplete
<1>4. CASE OnConnectOpComplete /\ UNCHANGED serializeVars
  <2>1. User(This[1]) \in OpIds
    BY <1>1, OpIdsType
  <2>2. stack' \in Seq(Frame)
    BY <1>1, <1>4, <2>1, CallType, ThisType DEF OnConnectOpComplete, Places
  <2>3. QED  BY <1>1, <1>2, <1>4, <2>1, <2>2 DEF OnConnectOpComplete
<1>5. CASE UserCallback /\ UNCHANGED serializeVars
  BY <1>1, <1>2, <1>5, ThisType DEF UserCallback
<1>6. QED  BY <1>3, <1>4, <1>5 DEF CompleteOp

LEMMA LibraryType ==
  ASSUME OpsTypeOK, TransportTypeOK, Library
  PROVE  OpsTypeOK' /\ TransportTypeOK'
<1> USE DEF OpsTypeOK, TransportTypeOK, opVars, managerVars, pahoVars
<1>1. CASE Connack
  BY <1>1, TaskType, AppendIndex DEF Connack, Events
<1>2. CASE Refuse
  <2>1. Event("refused") \in Task /\ Event("dropped") \in Task
    BY TaskType DEF Events
  <2>2. tasks' \in Seq(Task)
    BY <1>2, <2>1, AppendTwoIndex DEF Refuse
  <2>3. QED  BY <1>2, <2>2, FaultsAssumption DEF Refuse, Fault, KeptBySession
<1>3. CASE Drop
  BY <1>3, TaskType, AppendIndex, FaultsAssumption DEF Drop, Fault, KeptBySession, Events
<1>4. CASE AutoReconnect
  BY <1>4 DEF AutoReconnect
<1>5. CASE Ack
  <2>1. PICK op \in inflight : 
           /\ inflight' = inflight \ {op}
           /\ IF op \in established
              THEN /\ established' = established \ {op}
                   /\ tasks' = Append(tasks, AckTask(op))
                   /\ UNCHANGED unknown
              ELSE /\ unknown' = unknown \union {op}
                   /\ UNCHANGED <<established, tasks>>
    BY <1>5 DEF Ack
  <2>2. Append(tasks, AckTask(op)) \in Seq(Task)
    BY TaskType, AppendIndex
  <2>3. tasks' \in Seq(Task)
    BY <2>1, <2>2
  <2>4. QED  BY <1>5, <2>1, <2>3 DEF Ack
<1>6. QED  BY <1>1, <1>2, <1>3, <1>4, <1>5 DEF Library

LEMMA TransportOpsType ==
  ASSUME OpsTypeOK, TransportTypeOK, TransportOps
  PROVE  OpsTypeOK' /\ TransportTypeOK'
<1> USE DEF OpsTypeOK, TransportTypeOK, transportVars, managerVars, pahoVars, Replace, Return, At, AtTransport, Raise,
        KeptBySession
<1>1. stack # <<>> /\ This \in OpIds /\ Tail(stack) \in Seq(Frame)
  BY ThisType DEF TransportOps, CancelPending, Connect, ConnectRaises, Disconnect, DisconnectInline, DisconnectRaises,
    SendRaises, Send, Establish
<1>2. \A at \in Places : <<Call(at, This)>> \o Tail(stack) \in Seq(Frame)
  BY <1>1, ThisType, CallType
<1>3. CASE CancelPending
  <2>1. Call("complete", pending) \in Frame /\ Call("cancelled", This) \in Frame
    BY <1>1, <1>3, CallType DEF CancelPending, Places
  <2>2. <<Call("complete", pending), Call("cancelled", This)>> \in Seq(Frame)
    BY <2>1
  <2>3. stack' \in Seq(Frame)
    BY <1>1, <1>3, <2>2, ConcatProperties DEF CancelPending
  <2>4. QED  BY <1>1, <1>3, <2>3 DEF CancelPending
<1>4. CASE Connect
  BY <1>1, <1>4 DEF Connect
<1>5. CASE ConnectRaises
  BY <1>1, <1>2, <1>5, FaultsAssumption DEF ConnectRaises, Fault, Places
<1>6. CASE Disconnect
  BY <1>1, <1>6, TaskType, AppendIndex DEF Disconnect, Events
<1>7. CASE DisconnectInline
  BY <1>1, <1>2, <1>7 DEF DisconnectInline, Places
<1>8. CASE DisconnectRaises
  BY <1>1, <1>2, <1>8 DEF DisconnectRaises, Places
<1>9. CASE SendRaises
  BY <1>1, <1>2, <1>9 DEF SendRaises, Places
<1>10. CASE Send
  BY <1>1, <1>2, <1>10 DEF Send, Places
<1>11. CASE Establish
  BY <1>1, <1>2, <1>11 DEF Establish, Places
<1>12. QED
  BY <1>3, <1>4, <1>5, <1>6, <1>7, <1>8, <1>9, <1>10, <1>11 DEF TransportOps

LEMMA EventHandlersType ==
  ASSUME OpsTypeOK, TransportTypeOK, EventHandlers
  PROVE  OpsTypeOK' /\ TransportTypeOK'
<1> USE DEF OpsTypeOK, TransportTypeOK, transportVars, managerVars, pahoVars, Starts, CompletePending, PendingIs
<1>1. tasks # <<>> /\ Tail(tasks) \in Seq(Task)
  BY NextTaskType DEF EventHandlers, OnAcked, OnMqttConnected, OnMqttConnectionFailure, OnMqttDisconnected
<1>2. pending # NoOp => pending \in OpIds /\ <<Call("complete", pending)>> \in Seq(Frame)
  BY CallType, SingleCall DEF Places
<1>3. CASE OnMqttConnected
  BY <1>1, <1>2, <1>3 DEF OnMqttConnected
<1>4. CASE OnMqttConnectionFailure
  BY <1>1, <1>2, <1>4 DEF OnMqttConnectionFailure
<1>5. CASE OnMqttDisconnected
  BY <1>1, <1>2, <1>5 DEF OnMqttDisconnected
<1>6. CASE OnAcked
  BY <1>1, <1>6, NextTaskType, CallType, SingleCall DEF OnAcked, Places
<1>7. QED  BY <1>3, <1>4, <1>5, <1>6 DEF EventHandlers

LEMMA TypeStep == TypeOK /\ [Next]_vars => TypeOK'
<1> SUFFICES ASSUME TypeOK, [Next]_vars PROVE TypeOK'
  OBVIOUS
<1>1. CASE UNCHANGED vars
  BY <1>1 DEF vars, opVars, serializeVars, transportVars, TypeOK, OpsTypeOK, SerializeTypeOK, TransportTypeOK
<1>2. CASE (Library \/ TransportOps \/ EventHandlers) /\ UNCHANGED serializeVars
  <2>1. OpsTypeOK' /\ TransportTypeOK'
    BY <1>2, LibraryType, TransportOpsType, EventHandlersType DEF TypeOK
  <2>2. SerializeTypeOK'
    BY <1>2 DEF TypeOK, SerializeTypeOK, serializeVars
  <2>3. QED  BY <2>1, <2>2 DEF TypeOK
<1>3. CASE Next
  BY <1>2, <1>3, ApplicationType, UpperStagesType, CompleteOpType DEF Next, PipelineThread
<1>4. QED  BY <1>1, <1>3

(* Every place an operation can be in, and every task of the executor, has *)
(* the type the stages expect, for any number of operations and faults.    *)
THEOREM TypeCorrect == Spec => []TypeOK
BY InitType, TypeStep, PTL DEF Spec

-----------------------------------------------------------------------------
(* The inductive invariant.  First what a step does to the places an       *)
(* operation can be in.                                                    *)
LEMMA StackType ==
  ASSUME OpsTypeOK
  PROVE  /\ DOMAIN stack = 1..Len(stack) /\ Len(stack) \in Nat
         /\ \A i \in DOMAIN stack : stack[i].op \in OpIds
         /\ stack # <<>> => 1 \in DOMAIN stack /\ stack[1] = Head(stack) /\ stack[1].op = This
<1>1. DOMAIN stack = 1..Len(stack) /\ Len(stack) \in Nat
  BY DEF OpsTypeOK
<1>2. \A i \in DOMAIN stack : stack[i] \in Frame
  BY DEF OpsTypeOK
<1>3. stack # <<>> => Len(stack) # 0 /\ stack[1] = Head(stack)
  BY TailIndex DEF OpsTypeOK
<1>4. QED  BY <1>1, <1>2, <1>3 DEF Frame, This

LEMMA NoOpType == \A op \in OpIds : op # NoOp
BY OpsAssumption

(* The call at the top of the stack is replaced by another of the same     *)
(* operation.                                                              *)
LEMMA Advance ==
  ASSUME OpsTypeOK, stack # <<>>, NEW at \in Places, stack' = <<Call(at, This)>> \o Tail(stack)
  PROVE  /\ DOMAIN stack' = DOMAIN stack /\ Len(stack') = Len(stack)
         /\ stack'[1].at = at
         /\ \A i \in DOMAIN stack : i # 1 => stack'[i] = stack[i]
         /\ \A i \in DOMAIN stack : stack'[i].op = stack[i].op
         /\ \A op : OnStack(op)' <=> OnStack(op)
<1>1. This \in OpIds /\ Call(at, This) \in Frame
  BY ThisType, CallType
<1>2. /\ stack' \in Seq(Frame) /\ Len(stack') = Len(stack)
      /\ stack'[1] = Call(at, This)
      /\ \A i \in 2..Len(stack) : stack'[i] = stack[i]
  BY <1>1, ReplaceIndex DEF OpsTypeOK
<1>3. DOMAIN stack' = DOMAIN stack
  BY <1>2, StackType
<1>4. \A i \in DOMAIN stack : i # 1 => stack'[i] = stack[i]
  BY <1>2, StackType
<1>5. \A i \in DOMAIN stack : stack'[i].op = stack[i].op
  BY <1>2, <1>4, StackType DEF Call
<1>6. stack'[1].at = at
  BY <1>2 DEF Call
<1>7. \A op : OnStack(op)' <=> OnStack(op)
  BY <1>3, <1>5 DEF OnStack
<1>8. QED  BY <1>2, <1>3, <1>4, <1>5, <1>6, <1>7

(* The call at the top of the stack returns.                               *)
LEMMA Pop ==
  ASSUME OpsTypeOK, stack # <<>>, stack' = Tail(stack)
  PROVE  /\ \A i \in DOMAIN stack' : i + 1 \in DOMAIN stack /\ i + 1 # 1 /\ stack'[i] = stack[i + 1]
         /\ DOMAIN stack' \subseteq Nat
         /\ \A op : OnStack(op)' => OnStack(op)
<1>1. /\ DOMAIN stack' = 1..Len(stack') /\ Len(stack') = Len(stack) - 1
      /\ \A i \in 1..Len(stack') : stack'[i] = stack[i + 1]
  BY TailIndex DEF OpsTypeOK
<1>2. \A i \in DOMAIN stack' : i + 1 \in DOMAIN stack /\ i + 1 # 1 /\ stack'[i] = stack[i + 1]
  BY <1>1, StackType
<1>3. QED  BY <1>1, <1>2, StackType DEF OnStack

(* The executor's queue loses its head, or gains a task that is not the    *)
(* run of an operation.                                                    *)
TasksKept ==
  /\ \A i \in DOMAIN tasks' : tasks'[i].what \in {"run", "acked"} =>
       \/ \E j \in DOMAIN tasks : tasks'[i] = tasks[j]
       \/ tasks'[i].what = "acked" /\ NeedsConnection(tasks'[i].op)
  /\ RunOnce'

LEMMA TasksStep ==
  ASSUME OpsTypeOK, RunOnce,
         \/ tasks' = tasks
         \/ tasks # <<>> /\ tasks' = Tail(tasks)
         \/ \E e \in Events : tasks' = Append(tasks, Event(e))
         \/ \E op \in OpIds : NeedsConnection(op) /\ tasks' = Append(tasks, AckTask(op))
         \/ tasks' = tasks \o <<Event("refused"), Event("dropped")>>
  PROVE  TasksKept
<1> USE DEF TasksKept, RunOnce
<1>0. DOMAIN tasks = 1..Len(tasks) /\ Len(tasks) \in Nat
  BY DEF OpsTypeOK
<1>1. CASE tasks' = tasks
  BY <1>1
<1>2. CASE tasks # <<>> /\ tasks' = Tail(tasks)
  <2>1. /\ DOMAIN tasks' = 1..Len(tasks')
        /\ Len(tasks') = Len(tasks) - 1
        /\ \A i \in DOMAIN tasks' : tasks'[i] = tasks[i + 1]
    BY <1>2, TailIndex DEF OpsTypeOK
  <2>2. \A i \in DOMAIN tasks' : i \in Nat /\ i + 1 \in DOMAIN tasks
    BY <2>1, <1>0
  <2>3. QED  BY <2>1, <2>2
<1>3. ASSUME NEW t \in Task, tasks' = Append(tasks, t), t.what # "run",
             t.what = "acked" => NeedsConnection(t.op)
      PROVE  TasksKept
  <2>1. /\ DOMAIN tasks' = 1..(Len(tasks) + 1)
        /\ tasks'[Len(tasks) + 1] = t
        /\ \A i \in 1..Len(tasks) : tasks'[i] = tasks[i]
    BY <1>3, AppendIndex DEF OpsTypeOK
  <2>2. \A i \in DOMAIN tasks' : (i \in DOMAIN tasks /\ tasks'[i] = tasks[i]) \/ i = Len(tasks) + 1
    BY <2>1, <1>0, RangeSplit
  <2>3. QED  BY <2>1, <2>2, <1>3, <1>0
<1>4. CASE \E e \in Events : tasks' = Append(tasks, Event(e))
  BY <1>3, <1>4, TaskType DEF Event, Events
<1>5. CASE \E op \in OpIds : NeedsConnection(op) /\ tasks' = Append(tasks, AckTask(op))
  BY <1>3, <1>5, TaskType DEF AckTask
<1>6. CASE tasks' = tasks \o <<Event("refused"), Event("dropped")>>
  <2>1. Event("refused") \in Task /\ Event("dropped") \in Task
    BY TaskType DEF Events
  <2>2. /\ DOMAIN tasks' = 1..(Len(tasks) + 2)
        /\ \A i \in 1..Len(tasks) : tasks'[i] = tasks[i]
        /\ tasks'[Len(tasks) + 1] = Event("refused")
        /\ tasks'[Len(tasks) + 2] = Event("dropped")
    BY <1>6, <2>1, AppendTwoIndex DEF OpsTypeOK
  <2>3. \A i \in DOMAIN tasks' :
           \/ i \in DOMAIN tasks
           \/ i = Len(tasks) + 1
           \/ i = Len(tasks) + 2
    BY <2>2, <1>0, RangeSplit
  <2>4. /\ \A i \in DOMAIN tasks : tasks'[i] = tasks[i]
        /\ tasks'[Len(tasks) + 1].what = "refused"
        /\ tasks'[Len(tasks) + 2].what = "dropped"
    <3>1. \A e : Event(e).what = e
      BY DEF Event
    <3>2. QED  BY <2>2, <1>0, <3>1
  <2>5. QED  BY <2>3, <2>4
<1>7. QED  BY <1>1, <1>2, <1>4, <1>5, <1>6

(* Steps after which a connection operation is below EnsureConnectionStage *)
(* only if it was before: most of the invariant carries over.              *)
BelowKept == \A op \in OpIds : Below(op)' => Below(op) \/ NeedsConnection(op)

LEMMA AutoKind ==
  /\ \A o \in UserOps : IsConnectionOp(AutoConnect(o)) /\ ~NeedsConnection(AutoConnect(o))
  /\ \A op : ~(IsConnectionOp(op) /\ NeedsConnection(op))
  /\ \A op : KindOf(op) = "none" => ~IsConnectionOp(op) /\ ~NeedsConnection(op)
<1> USE DEF IsConnectionOp, NeedsConnection, ConnectionKinds, ConnectKinds, AckedKinds
<1>1. \A o \in UserOps : KindOf(AutoConnect(o)) = "connect"
  BY OpIdsType DEF KindOf
<1>2. QED  BY <1>1

LEMMA KeptStep ==
  ASSUME IInv, kind' = kind, BelowKept, TasksKept
  PROVE  /\ NotYetBelow'
         /\ \A i \in DOMAIN tasks' : tasks'[i].what = "acked" => NeedsConnection(tasks'[i].op)
         /\ RunOnce'
         /\ \A op : KindOf(op)' = KindOf(op)
<1>1. \A op : KindOf(op)' = KindOf(op)
  BY DEF KindOf
<1>2. \A o \in UserOps : Untouched(o) => Untouched(o)'
  <2>1. \A o \in UserOps : ~NeedsConnection(AutoConnect(o))
    BY AutoKind
  <2>2. \A op : NeedsConnection(op)' = NeedsConnection(op)
    BY <1>1 DEF NeedsConnection
  <2>3. QED  BY <2>1, <2>2, OpIdsType DEF BelowKept, Untouched
<1>3. \A o \in UserOps : kind'[o] = "none" => Untouched(o)'
  BY <1>2 DEF IInv, NotYetBelow
<1>4. ASSUME NEW i \in DOMAIN tasks', tasks'[i].what = "run"
      PROVE  /\ ~IsAuto(tasks'[i].op)
             /\ kind'[tasks'[i].op[1]] # "none"
             /\ \A o : o = tasks'[i].op[1] => Untouched(o)'
  <2>1. PICK j \in DOMAIN tasks : tasks'[i] = tasks[j]
    BY <1>4 DEF TasksKept
  <2>2. tasks[j] \in Task
    BY DEF IInv, TypeOK, OpsTypeOK
  <2>3. tasks[j].op[1] \in UserOps
    BY <2>1, <2>2, <1>4, OpIdsType DEF Task, Events
  <2>4. /\ ~IsAuto(tasks[j].op)
        /\ kind[tasks[j].op[1]] # "none"
        /\ Untouched(tasks[j].op[1])
    BY <2>1, <1>4 DEF IInv, NotYetBelow
  <2>5. QED  BY <2>1, <2>3, <2>4, <1>2
<1>5. \A o \in UserOps : Below(AutoConnect(o))' => NeedsConnection(User(o))'
  <2>1. \A o \in UserOps : ~NeedsConnection(AutoConnect(o))
    BY AutoKind
  <2>2. \A op : NeedsConnection(op)' = NeedsConnection(op)
    BY <1>1 DEF NeedsConnection
  <2>3. QED  BY <2>1, <2>2, OpIdsType DEF BelowKept, IInv, NotYetBelow
<1>6. \A i \in DOMAIN tasks' : tasks'[i].what = "acked" => NeedsConnection(tasks'[i].op)
  BY DEF TasksKept, IInv, KindsInPlace
<1>7. QED  BY <1>1, <1>3, <1>4, <1>5, <1>6 DEF NotYetBelow, TasksKept

(* The calls fit their operations: a part of KindsInPlace.                 *)
CallsFit ==
  \A i \in DOMAIN stack : /\ stack[i].at # "cancelled"
                          /\ stack[i].at = "establish" => NeedsConnection(stack[i].op)

LEMMA CallsFitNext ==
  ASSUME kind' = kind,
         \A i \in DOMAIN stack' : /\ stack'[i].at # "cancelled"
                                  /\ stack'[i].at = "establish" => NeedsConnection(stack'[i].op)
  PROVE  CallsFit'
BY DEF CallsFit, NeedsConnection, KindOf, IsAuto

(* The operation at the top of the stack moves on, in place.               *)
LEMMA AdvancePlaces ==
  ASSUME IInv, stack # <<>>, kind' = kind, queue' = queue, pending' = pending,
         NEW at \in Places \ {"ensure", "cancelled"}, stack' = <<Call(at, This)>> \o Tail(stack),
         at = "establish" => NeedsConnection(This),
         wrapped' = wrapped \/ wrapped' = wrapped \union {This}
  PROVE  BelowKept /\ OnePlace' /\ EnsureAlone' /\ CallsFit'
<1>1. /\ DOMAIN stack' = DOMAIN stack
      /\ stack'[1].at = at
      /\ \A i \in DOMAIN stack : i # 1 => stack'[i] = stack[i]
      /\ \A i \in DOMAIN stack : stack'[i].op = stack[i].op
      /\ \A op : OnStack(op)' <=> OnStack(op)
  BY Advance DEF IInv, TypeOK
<1>2. \A op : IsConnectionOp(op)' = IsConnectionOp(op)
  BY DEF IsConnectionOp, KindOf
<1>3. OnStack(This)
  BY StackType DEF IInv, TypeOK, OnStack
<1>4. BelowKept
  BY <1>1, <1>3 DEF BelowKept, Below, InQueue
<1>5. OnePlace'
  BY <1>1, <1>2 DEF IInv, OnePlace, InQueue
<1>6. \A i \in DOMAIN stack : stack[i].at = "ensure" => i = 1
  BY StackType DEF IInv, TypeOK, EnsureAlone
<1>7. EnsureAlone'
  BY <1>1, <1>6 DEF EnsureAlone
<1>8. CallsFit'
  <2>1. stack[1].op = This
    BY StackType DEF IInv, TypeOK
  <2>2. \A i \in DOMAIN stack' : /\ stack'[i].at # "cancelled"
                                 /\ stack'[i].at = "establish" => NeedsConnection(stack'[i].op)
    BY <1>1, <2>1 DEF IInv, KindsInPlace
  <2>3. QED  BY <2>2, CallsFitNext
<1>9. QED  BY <1>4, <1>5, <1>7, <1>8

(* The operation at the top of the stack leaves it, to be held in the      *)
(* queue, as the pending operation, or nowhere in the pipeline.            *)
LEMMA PopPlaces ==
  ASSUME IInv, stack # <<>>, kind' = kind, stack' = Tail(stack), wrapped' = wrapped,
         \/ queue' = queue /\ pending' = pending
         \/ queue' = Append(queue, This) /\ pending' = pending
         \/ queue' = queue /\ pending = NoOp /\ pending' = This /\ IsConnectionOp(This)
  PROVE  BelowKept /\ OnePlace' /\ EnsureAlone' /\ CallsFit'
<1>1. /\ \A i \in DOMAIN stack' : i + 1 \in DOMAIN stack /\ i + 1 # 1 /\ stack'[i] = stack[i + 1]
      /\ DOMAIN stack' \subseteq Nat
      /\ \A op : OnStack(op)' => OnStack(op)
  BY Pop DEF IInv, TypeOK
<1>2. \A op : IsConnectionOp(op)' = IsConnectionOp(op)
  BY DEF IsConnectionOp, KindOf
<1>3. OnStack(This) /\ 1 \in DOMAIN stack /\ stack[1].op = This /\ This # NoOp
  BY StackType, NoOpType DEF IInv, TypeOK, OnStack
<1>4. IsConnectionOp(This) => \A op : op = This => ~OnStack(op)'
  <2>1. \A j \in DOMAIN stack : IsConnectionOp(This) /\ stack[j].op = This => j = 1
    BY <1>3 DEF IInv, OnePlace
  <2>2. ASSUME NEW j \in DOMAIN stack', IsConnectionOp(This), stack'[j].op = This
        PROVE  FALSE
    BY <1>1, <2>1, <2>2
  <2>3. \A op : op = This => (OnStack(op)' <=> \E j \in DOMAIN stack' : stack'[j].op = op)
    BY DEF OnStack
  <2>4. QED  BY <2>2, <2>3
<1>5. /\ DOMAIN queue = 1..Len(queue)
      /\ Len(queue) \in Nat
      /\ \/ queue' = queue
         \/ /\ DOMAIN queue' = 1..(Len(queue) + 1)
            /\ queue'[Len(queue) + 1] = This
            /\ \A i \in DOMAIN queue : queue'[i] = queue[i]
            /\ \A i \in DOMAIN queue' : i \in DOMAIN queue \/ i = Len(queue) + 1
  <2>1. DOMAIN queue = 1..Len(queue) /\ Len(queue) \in Nat
    BY DEF IInv, TypeOK, SerializeTypeOK
  <2>2. This \in OpIds
    BY ThisType DEF IInv, TypeOK
  <2>3. CASE queue' = queue
    BY <2>1, <2>3
  <2>4. CASE queue' = Append(queue, This)
    <3>1. /\ DOMAIN queue' = 1..(Len(queue) + 1)
          /\ queue'[Len(queue) + 1] = This
          /\ \A i \in 1..Len(queue) : queue'[i] = queue[i]
      BY <2>2, <2>4, AppendIndex DEF IInv, TypeOK, SerializeTypeOK
    <3>2. \A i \in DOMAIN queue' : i \in DOMAIN queue \/ i = Len(queue) + 1
      BY <2>1, <3>1, RangeSplit
    <3>3. QED  BY <2>1, <3>1, <3>2
  <2>5. QED  BY <2>3, <2>4
<1>6. \A op : InQueue(op)' => InQueue(op) \/ op = This
  BY <1>5 DEF InQueue
<1>7. BelowKept
  BY <1>1, <1>3, <1>6 DEF BelowKept, Below
<1>8. OnePlace'
  <2>1. \A i, j \in DOMAIN stack' :
          IsConnectionOp(stack'[i].op) /\ stack'[i].op = stack'[j].op => i = j
    BY <1>1 DEF IInv, OnePlace
  <2>2. IsConnectionOp(This) => ~InQueue(This) /\ pending # This
    BY <1>3 DEF IInv, OnePlace, InQueue
  <2>3. \A i, j \in DOMAIN queue' :
          IsConnectionOp(queue'[i]) /\ queue'[i] = queue'[j] => i = j
    <3>1. \A i, j \in DOMAIN queue : IsConnectionOp(queue[i]) /\ queue[i] = queue[j] => i = j
      BY DEF IInv, OnePlace
    <3>2. \A i \in DOMAIN queue : IsConnectionOp(This) => queue[i] # This
      BY <2>2 DEF InQueue
    <3>3. QED  BY <1>5, <3>1, <3>2
  <2>4. \A i \in DOMAIN queue' : \A op : op = queue'[i] /\ IsConnectionOp(op) => ~OnStack(op)'
    <3>1. \A i \in DOMAIN queue : IsConnectionOp(queue[i]) => ~OnStack(queue[i])
      BY DEF IInv, OnePlace
    <3>2. \A i \in DOMAIN queue' : queue'[i] = This \/ (i \in DOMAIN queue /\ queue'[i] = queue[i])
      BY <1>5
    <3>3. QED  BY <1>1, <1>4, <3>1, <3>2
  <2>5. pending' # NoOp => ~OnStack(pending)' /\ ~InQueue(pending)'
    <3>1. pending # NoOp => ~OnStack(pending) /\ ~InQueue(pending) /\ pending # This
      BY <1>3 DEF IInv, OnePlace
    <3>2. CASE pending' = pending
      BY <1>1, <1>6, <3>1, <3>2
    <3>3. CASE queue' = queue /\ pending' = This /\ IsConnectionOp(This)
      <4>1. ~InQueue(This)
        BY <3>3, <2>2
      <4>2. QED  BY <1>4, <3>3, <4>1 DEF InQueue
    <3>4. QED  BY <3>2, <3>3
  <2>6. QED  BY <1>2, <2>1, <2>3, <2>4, <2>5 DEF OnePlace
<1>9. EnsureAlone'
  <2>1. \A i \in DOMAIN stack : stack[i].at = "ensure" => DOMAIN stack = {1}
    BY StackType DEF IInv, TypeOK, EnsureAlone
  <2>2. QED  BY <1>1, <2>1 DEF EnsureAlone
<1>10. CallsFit'
  <2>1. \A i \in DOMAIN stack' : /\ stack'[i].at # "cancelled"
                                 /\ stack'[i].at = "establish" => NeedsConnection(stack'[i].op)
    BY <1>1 DEF IInv, KindsInPlace
  <2>2. QED  BY <2>1, CallsFitNext
<1>11. QED  BY <1>7, <1>8, <1>9, <1>10

(* A task starts by completing an operation.                               *)
LEMMA StartPlaces ==
  ASSUME IInv, stack = <<>>, kind' = kind, queue' = queue, wrapped' = wrapped,
         NEW op \in OpIds, stack' = <<Call("complete", op)>>,
         \/ pending' = pending /\ NeedsConnection(op)
         \/ pending = op /\ pending' = NoOp
  PROVE  BelowKept /\ OnePlace' /\ EnsureAlone' /\ CallsFit'
<1>1. DOMAIN stack' = {1} /\ stack'[1].op = op /\ stack'[1].at = "complete"
  BY DEF Call
<1>2. \A op2 : OnStack(op2)' <=> op2 = op
  BY <1>1 DEF OnStack
<1>3. \A op2 : IsConnectionOp(op2)' = IsConnectionOp(op2)
  BY DEF IsConnectionOp, KindOf
<1>4. BelowKept
  BY <1>2, NoOpType DEF BelowKept, Below, InQueue
<1>5. OnePlace'
  <2>1. pending # NoOp => IsConnectionOp(pending)
    BY DEF IInv, OneConnectionOp, KindsInPlace
  <2>2. IsConnectionOp(op) => pending = op
    BY AutoKind
  <2>3. \A i \in DOMAIN queue : IsConnectionOp(queue[i]) => ~OnStack(queue[i])'
    BY <1>2, <2>2, NoOpType DEF IInv, OnePlace, InQueue
  <2>4. pending' # NoOp => ~OnStack(pending)' /\ ~InQueue(pending)'
    BY <1>2, <2>1, AutoKind DEF IInv, OnePlace, InQueue
  <2>5. QED  BY <1>1, <1>3, <2>3, <2>4 DEF IInv, OnePlace
<1>6. EnsureAlone' /\ CallsFit'
  BY <1>1 DEF EnsureAlone, CallsFit
<1>7. QED  BY <1>4, <1>5, <1>6

LEMMA Conclude ==
  ASSUME IInv, TypeOK', kind' = kind, BelowKept, TasksKept,
         OnePlace', EnsureAlone', CallsFit', OneConnectionOp',
         \A op \in wrapped' : op \in wrapped \/ IsConnectionOp(op),
         \A op \in inflight' \union established' : op \in inflight \union established \/ NeedsConnection(op)
  PROVE  IInv'
<1>1. /\ NotYetBelow' /\ RunOnce'
      /\ \A i \in DOMAIN tasks' : tasks'[i].what = "acked" => NeedsConnection(tasks'[i].op)
      /\ \A op : KindOf(op)' = KindOf(op)
  BY KeptStep
<1>2. \A op : /\ IsConnectionOp(op)' = IsConnectionOp(op)
              /\ NeedsConnection(op)' = NeedsConnection(op)
  BY <1>1 DEF IsConnectionOp, NeedsConnection
<1>3. \A op \in wrapped' : IsConnectionOp(op)'
  BY <1>2 DEF IInv, KindsInPlace
<1>4. \A op \in inflight' \union established' : NeedsConnection(op)'
  BY <1>2 DEF IInv, KindsInPlace
<1>5. \A i \in DOMAIN tasks' : tasks'[i].what = "acked" => \A op : op = tasks'[i].op => NeedsConnection(op)'
  BY <1>1, <1>2
<1>6. KindsInPlace'
  BY <1>3, <1>4, <1>5 DEF KindsInPlace, CallsFit
<1>7. QED  BY <1>1, <1>6 DEF IInv

LEMMA AdvanceOneOp ==
  ASSUME IInv, stack # <<>>, kind' = kind, pending' = pending, blocked' = blocked, wrapped' = wrapped,
         NEW at \in Places, stack' = <<Call(at, This)>> \o Tail(stack),
         at # "transport" \/ ~IsConnectionOp(This)
  PROVE  OneConnectionOp'
<1>1. /\ DOMAIN stack' = DOMAIN stack
      /\ stack'[1].at = at /\ 1 \in DOMAIN stack /\ stack[1].op = This
      /\ \A i \in DOMAIN stack : i # 1 => stack'[i] = stack[i]
      /\ \A i \in DOMAIN stack : stack'[i].op = stack[i].op
  BY Advance, StackType DEF IInv, TypeOK
<1>2. \A op : IsConnectionOp(op)' = IsConnectionOp(op)
  BY DEF IsConnectionOp, KindOf
<1>3. \A i \in DOMAIN stack' : stack'[i].at = "transport" /\ IsConnectionOp(stack'[i].op) =>
        stack'[i] = stack[i] /\ i \in DOMAIN stack
  BY <1>1
<1>4. \A i \in DOMAIN stack : stack[i].at = "transport" /\ IsConnectionOp(stack[i].op) =>
        stack[i].op \in wrapped /\ pending = NoOp
  BY DEF IInv, OneConnectionOp
<1>5. \A i \in DOMAIN stack' : stack'[i].at = "transport" =>
         \A op : op = stack'[i].op /\ IsConnectionOp(op)' => op \in wrapped' /\ pending' = NoOp
  BY <1>2, <1>3, <1>4
<1>6. QED  BY <1>5 DEF IInv, OneConnectionOp

LEMMA PopOneOp ==
  ASSUME IInv, stack # <<>>, kind' = kind, blocked' = blocked, wrapped' = wrapped, stack' = Tail(stack),
         \/ pending' = pending
         \/ At("transport") /\ IsConnectionOp(This) /\ pending' = This
  PROVE  OneConnectionOp'
<1>1. /\ \A i \in DOMAIN stack' : i + 1 \in DOMAIN stack /\ i + 1 # 1 /\ stack'[i] = stack[i + 1]
      /\ DOMAIN stack' \subseteq Nat
      /\ 1 \in DOMAIN stack /\ stack[1] = Head(stack) /\ stack[1].op = This
  BY Pop, StackType DEF IInv, TypeOK
<1>2. \A op : IsConnectionOp(op)' = IsConnectionOp(op)
  BY DEF IsConnectionOp, KindOf
<1>3. \A i \in DOMAIN stack : stack[i].at = "transport" /\ IsConnectionOp(stack[i].op) =>
        stack[i].op \in wrapped /\ pending = NoOp
  BY DEF IInv, OneConnectionOp
<1>4. CASE pending' = pending
  <2>1. \A i \in DOMAIN stack' : stack'[i].at = "transport" =>
           \A op : op = stack'[i].op /\ IsConnectionOp(op)' => op \in wrapped' /\ pending' = NoOp
    BY <1>1, <1>2, <1>3, <1>4
  <2>2. QED  BY <1>4, <2>1 DEF IInv, OneConnectionOp
<1>5. CASE At("transport") /\ IsConnectionOp(This) /\ pending' = This
  <2>1. This \in wrapped
    BY <1>1, <1>3, <1>5 DEF At
  <2>2. \A i \in DOMAIN stack' : ~(stack'[i].at = "transport" /\ IsConnectionOp(stack'[i].op))
    <3>1. SUFFICES ASSUME NEW i \in DOMAIN stack', stack'[i].at = "transport", IsConnectionOp(stack'[i].op)
                   PROVE  FALSE
      OBVIOUS
    <3>2. i + 1 \in DOMAIN stack /\ i + 1 # 1 /\ stack'[i] = stack[i + 1]
      BY <1>1
    <3>3. stack[i + 1].op \in wrapped
      BY <1>3, <3>1, <3>2
    <3>4. stack[i + 1].op = stack[1].op
      BY <1>1, <2>1, <3>3 DEF IInv, OneConnectionOp
    <3>5. QED  BY <1>1, <3>1, <3>2, <3>4 DEF IInv, OnePlace
  <2>3. \A i \in DOMAIN stack' : stack'[i].at = "transport" =>
           \A op : op = stack'[i].op /\ IsConnectionOp(op)' => op \in wrapped' /\ pending' = NoOp
    BY <1>2, <2>2
  <2>4. QED  BY <1>5, <2>1, <2>3 DEF IInv, OneConnectionOp
<1>6. QED  BY <1>4, <1>5

-----------------------------------------------------------------------------
(* The three shapes of a step of a stage keep the invariant: the operation *)
(* at the top of the stack moves on, leaves the stack, or starts a task.   *)
ManagerKept ==
  \A op \in inflight' \union established' : op \in inflight \union established \/ NeedsConnection(op)

LEMMA AdvanceStep ==
  ASSUME IInv, TypeOK', stack # <<>>, ManagerKept,
         UNCHANGED <<kind, tasks, queue, pending, blocked, wrapped>>,
         NEW at \in Places \ {"ensure", "cancelled"}, stack' = <<Call(at, This)>> \o Tail(stack),
         at = "establish" => NeedsConnection(This),
         at # "transport" \/ ~IsConnectionOp(This)
  PROVE  IInv'
<1>1. TasksKept
  BY TasksStep DEF IInv, TypeOK
<1>2. BelowKept /\ OnePlace' /\ EnsureAlone' /\ CallsFit'
  BY AdvancePlaces
<1>3. OneConnectionOp'
  BY AdvanceOneOp
<1>4. QED  BY <1>1, <1>2, <1>3, Conclude DEF ManagerKept

LEMMA PopStep ==
  ASSUME IInv, TypeOK', stack # <<>>, ManagerKept, stack' = Tail(stack),
         UNCHANGED <<kind, blocked, wrapped>>,
         tasks' = tasks \/ \E e \in Events : tasks' = Append(tasks, Event(e)),
         \/ queue' = queue /\ pending' = pending
         \/ queue' = Append(queue, This) /\ pending' = pending
         \/ queue' = queue /\ pending' = This /\ At("transport") /\ IsConnectionOp(This)
  PROVE  IInv'
<1>1. TasksKept
  BY TasksStep DEF IInv, TypeOK
<1>2. At("transport") /\ IsConnectionOp(This) => pending = NoOp
  <2>1. stack # <<>> => 1 \in DOMAIN stack /\ stack[1] = Head(stack) /\ stack[1].op = This
    BY StackType DEF IInv, TypeOK
  <2>2. QED  BY <2>1 DEF IInv, OneConnectionOp, At
<1>3. BelowKept /\ OnePlace' /\ EnsureAlone' /\ CallsFit'
  BY <1>2, PopPlaces
<1>4. OneConnectionOp'
  BY PopOneOp
<1>5. QED  BY <1>1, <1>3, <1>4, Conclude DEF ManagerKept

LEMMA StartStep ==
  ASSUME IInv, TypeOK', ManagerKept, stack = <<>>, tasks # <<>>, tasks' = Tail(tasks),
         UNCHANGED <<kind, queue, blocked, wrapped>>,
         NEW op \in OpIds, stack' = <<Call("complete", op)>>,
         \/ pending' = pending /\ NeedsConnection(op)
         \/ pending = op /\ pending' = NoOp
  PROVE  IInv'
<1>1. TasksKept
  BY TasksStep DEF IInv, TypeOK
<1>2. BelowKept /\ OnePlace' /\ EnsureAlone' /\ CallsFit'
  BY StartPlaces
<1>3. DOMAIN stack' = {1} /\ stack'[1].at = "complete"
  BY DEF Call
<1>4. OneConnectionOp'
  BY <1>3 DEF IInv, OneConnectionOp
<1>5. QED  BY <1>1, <1>2, <1>4, Conclude DEF ManagerKept

(* A step that leaves the stack and the stages alone.                      *)
LEMMA QuietStep ==
  ASSUME IInv, TypeOK', ManagerKept, UNCHANGED <<kind, stack, queue, blocked, wrapped, pending>>,
         \/ tasks' = tasks
         \/ tasks # <<>> /\ tasks' = Tail(tasks)
         \/ \E e \in Events : tasks' = Append(tasks, Event(e))
         \/ \E op \in OpIds : NeedsConnection(op) /\ tasks' = Append(tasks, AckTask(op))
         \/ tasks' = tasks \o <<Event("refused"), Event("dropped")>>
  PROVE  IInv'
<1>1. TasksKept
  BY TasksStep DEF IInv, TypeOK
<1>2. \A op : /\ IsConnectionOp(op)' = IsConnectionOp(op)
              /\ OnStack(op)' = OnStack(op) /\ InQueue(op)' = InQueue(op) /\ Below(op)' = Below(op)
  BY DEF IsConnectionOp, KindOf, OnStack, InQueue, Below
<1>3. BelowKept /\ OnePlace' /\ OneConnectionOp'
  BY <1>2 DEF BelowKept, OnePlace, OneConnectionOp, IInv
<1>6. CallsFit'
  BY DEF CallsFit, NeedsConnection, KindOf, IInv, KindsInPlace
<1>4. EnsureAlone'
  <2>1. \A i \in DOMAIN tasks' : tasks'[i].what = "run" => \E j \in DOMAIN tasks : tasks'[i] = tasks[j]
    BY <1>1 DEF TasksKept
  <2>2. SUFFICES ASSUME NEW i \in DOMAIN stack, stack[i].at = "ensure"
                 PROVE  /\ Len(stack) = 1
                        /\ ~IsAuto(stack[i].op)
                        /\ \A op : op = AutoConnect(stack[i].op[1]) => ~Below(op)'
                        /\ \A j \in DOMAIN tasks' : tasks'[j].what = "run" => tasks'[j].op # stack[i].op
    BY DEF EnsureAlone
  <2>3. QED  BY <1>2, <2>1, <2>2 DEF IInv, EnsureAlone
<1>5. QED  BY <1>1, <1>3, <1>4, <1>6, Conclude DEF ManagerKept

LEMMA AtTransportFacts ==
  ASSUME IInv, stack # <<>>
  PROVE  /\ This \in OpIds
         /\ ~At("cancelled")
         /\ At("transport") /\ IsConnectionOp(This) => This \in wrapped /\ pending = NoOp
         /\ \A kinds \in SUBSET ConnectionKinds :
              AtTransport(kinds) => At("transport") /\ IsConnectionOp(This)
<1>1. 1 \in DOMAIN stack /\ stack[1] = Head(stack) /\ stack[1].op = This
  BY StackType DEF IInv, TypeOK
<1>2. This \in OpIds
  BY ThisType DEF IInv, TypeOK
<1>3. ~At("cancelled")
  BY <1>1 DEF IInv, KindsInPlace, At
<1>4. At("transport") /\ IsConnectionOp(This) => This \in wrapped /\ pending = NoOp
  BY <1>1 DEF IInv, OneConnectionOp, At
<1>5. QED  BY <1>2, <1>3, <1>4 DEF AtTransport, IsConnectionOp

LEMMA TransportOpsInv ==
  ASSUME IInv, TypeOK', TransportOps, UNCHANGED serializeVars
  PROVE  IInv'
<1> USE DEF serializeVars, transportVars, managerVars, pahoVars, Raise, Replace, Return
<1>1. stack # <<>>
  BY DEF TransportOps, CancelPending, Connect, ConnectRaises, Disconnect, DisconnectInline, DisconnectRaises,
    SendRaises, Send, Establish, At, AtTransport
<1>2. /\ This \in OpIds /\ ~At("cancelled")
      /\ At("transport") /\ IsConnectionOp(This) => This \in wrapped /\ pending = NoOp
      /\ AtTransport(ConnectKinds) => At("transport") /\ IsConnectionOp(This)
      /\ AtTransport({"disconnect"}) => At("transport") /\ IsConnectionOp(This)
  BY <1>1, AtTransportFacts DEF ConnectionKinds
<1>3. KeptBySession \subseteq inflight
  BY DEF KeptBySession
<1>4. CASE CancelPending
  BY <1>2, <1>4 DEF CancelPending
<1>5. CASE Connect
  BY <1>1, <1>2, <1>3, <1>5, PopStep DEF Connect, ManagerKept
<1>6. CASE ConnectRaises
  BY <1>1, <1>2, <1>3, <1>6, AdvanceStep DEF ConnectRaises, ManagerKept, Places
<1>7. CASE Disconnect
  BY <1>1, <1>2, <1>3, <1>7, PopStep DEF Disconnect, ManagerKept, Events
<1>8. CASE DisconnectInline
  BY <1>1, <1>2, <1>3, <1>8, AdvanceStep DEF DisconnectInline, ManagerKept, Places
<1>9. CASE DisconnectRaises
  BY <1>1, <1>2, <1>9, AdvanceStep DEF DisconnectRaises, ManagerKept, Places
<1>10. CASE SendRaises
  <2>1. ManagerKept
    BY <1>10 DEF SendRaises, ManagerKept
  <2>2. QED  BY <1>1, <1>2, <1>10, <2>1, AdvanceStep DEF SendRaises, Places
<1>11. CASE Send
  <2>1. ManagerKept
    BY <1>11 DEF Send, ManagerKept
  <2>2. QED  BY <1>1, <1>2, <1>11, <2>1, AdvanceStep DEF Send, Places
<1>12. CASE Establish
  <2>1. NeedsConnection(This)
    <3>1. 1 \in DOMAIN stack /\ stack[1] = Head(stack) /\ stack[1].op = This
      BY <1>1, StackType DEF IInv, TypeOK
    <3>2. QED  BY <1>12, <3>1 DEF Establish, At, IInv, KindsInPlace
  <2>2. ManagerKept
    BY <1>12, <2>1 DEF Establish, ManagerKept
  <2>3. CASE This \in unknown
    BY <1>1, <1>2, <1>12, <2>2, <2>3, AdvanceStep DEF Establish, Places
  <2>4. CASE This \notin unknown
    BY <1>1, <1>2, <1>12, <2>2, <2>4, PopStep DEF Establish
  <2>5. QED  BY <2>3, <2>4
<1>13. QED
  BY <1>4, <1>5, <1>6, <1>7, <1>8, <1>9, <1>10, <1>11, <1>12 DEF TransportOps

LEMMA LibraryInv ==
  ASSUME IInv, TypeOK', Library, UNCHANGED serializeVars
  PROVE  IInv'
<1> USE DEF serializeVars, transportVars, managerVars, pahoVars, opVars
<1>1. KeptBySession \subseteq inflight
  BY DEF KeptBySession
<1>2. CASE Connack
  BY <1>2, QuietStep DEF Connack, ManagerKept, Events
<1>3. CASE Refuse
  BY <1>1, <1>3, QuietStep DEF Refuse, ManagerKept
<1>4. CASE Drop
  BY <1>1, <1>4, QuietStep DEF Drop, ManagerKept, Events
<1>5. CASE AutoReconnect
  BY <1>5, QuietStep DEF AutoReconnect, ManagerKept
<1>6. CASE Ack
  <2>1. PICK op \in inflight :
           /\ inflight' = inflight \ {op}
           /\ IF op \in established
              THEN /\ established' = established \ {op}
                   /\ tasks' = Append(tasks, AckTask(op))
              ELSE UNCHANGED <<established, tasks>>
    BY <1>6 DEF Ack
  <2>2. op \in OpIds /\ NeedsConnection(op)
    BY DEF IInv, TypeOK, TransportTypeOK, KindsInPlace
  <2>3. ManagerKept
    BY <2>1 DEF ManagerKept
  <2>4. QED  BY <1>6, <2>1, <2>2, <2>3, QuietStep DEF Ack
<1>7. QED  BY <1>2, <1>3, <1>4, <1>5, <1>6 DEF Library

LEMMA EventHandlersInv ==
  ASSUME IInv, TypeOK', EventHandlers, UNCHANGED serializeVars
  PROVE  IInv'
<1> USE DEF serializeVars, transportVars, managerVars, pahoVars, CompletePending
<1>1. stack = <<>> /\ tasks # <<>> /\ tasks' = Tail(tasks)
  BY DEF EventHandlers, OnAcked, OnMqttConnected, OnMqttConnectionFailure, OnMqttDisconnected, Starts
<1>2. pending # NoOp => pending \in OpIds
  BY DEF IInv, TypeOK, TransportTypeOK
<1>3. CASE OnAcked
  <2>1. Head(tasks).what = "acked" /\ Head(tasks) = tasks[1] /\ 1 \in DOMAIN tasks
    BY <1>1, <1>3, TailIndex DEF OnAcked, Starts, IInv, TypeOK, OpsTypeOK
  <2>2. Head(tasks).op \in OpIds
    BY <1>1, <2>1, NextTaskType DEF IInv, TypeOK
  <2>3. NeedsConnection(Head(tasks).op)
    BY <2>1 DEF IInv, KindsInPlace
  <2>4. QED  BY <1>1, <1>3, <2>2, <2>3, StartStep DEF OnAcked, ManagerKept
<1>4. ASSUME kind' = kind, ManagerKept,
             \/ PendingIs(ConnectionKinds) /\ CompletePending
             \/ UNCHANGED <<pending, stack>>
      PROVE  IInv'
  <2>1. CASE PendingIs(ConnectionKinds) /\ CompletePending
    BY <1>1, <1>2, <1>4, <2>1, StartStep DEF PendingIs
  <2>2. CASE UNCHANGED <<pending, stack>>
    BY <1>1, <1>4, <2>2, QuietStep
  <2>3. QED  BY <1>4, <2>1, <2>2
<1>5. \A kinds : PendingIs(kinds) /\ kinds \subseteq ConnectionKinds => PendingIs(ConnectionKinds)
  BY DEF PendingIs
<1>6. ConnectKinds \subseteq ConnectionKinds /\ {"disconnect"} \subseteq ConnectionKinds
  BY DEF ConnectionKinds
<1>7. CASE OnMqttConnected
  BY <1>4, <1>5, <1>6, <1>7 DEF OnMqttConnected, ManagerKept
<1>8. CASE OnMqttConnectionFailure
  BY <1>4, <1>5, <1>6, <1>8 DEF OnMqttConnectionFailure, ManagerKept
<1>9. CASE OnMqttDisconnected
  BY <1>4, <1>5, <1>6, <1>9 DEF OnMqttDisconnected, ManagerKept
<1>10. QED  BY <1>3, <1>7, <1>8, <1>9 DEF EventHandlers

-----------------------------------------------------------------------------
(* The stages above the transport.                                         *)
LEMMA PassToAt ==
  \A at, op : \E place \in {at, "complete"} : PassTo(at, op) = Call(place, op)
BY DEF PassTo

LEMMA SerializeInv ==
  ASSUME IInv, TypeOK', QueueOp \/ CompleteEarly \/ Block \/ PassOp, UNCHANGED transportVars
  PROVE  IInv'
<1> USE DEF serializeVars, transportVars, Replace, Return
<1>1. stack # <<>> /\ ManagerKept
  BY DEF QueueOp, CompleteEarly, Block, PassOp, At, ManagerKept
<1>2. CASE QueueOp
  BY <1>1, <1>2, PopStep DEF QueueOp
<1>3. CASE CompleteEarly
  BY <1>1, <1>3, AdvanceStep DEF CompleteEarly, Places
<1>4. CASE PassOp
  <2>1. PICK place \in {"transport", "complete"} : PassTo("transport", This) = Call(place, This)
    BY PassToAt
  <2>2. QED  BY <1>1, <1>4, <2>1, AdvanceStep DEF PassOp, Places
<1>5. CASE Block
  <2>1. PICK place \in {"transport", "complete"} : PassTo("transport", This) = Call(place, This)
    BY PassToAt
  <2>2. /\ stack' = <<Call(place, This)>> \o Tail(stack)
        /\ wrapped' = wrapped \union {This} /\ blocked' = TRUE /\ ~blocked
        /\ UNCHANGED <<kind, tasks, queue, pending>>
        /\ IsConnectionOp(This)
    BY <1>5, <2>1 DEF Block
  <2>3. place \in Places \ {"ensure", "cancelled"} /\ place # "establish"
    BY DEF Places
  <2>4. BelowKept /\ OnePlace' /\ EnsureAlone' /\ CallsFit'
    BY <1>1, <2>2, <2>3, AdvancePlaces
  <2>5. wrapped = {} /\ pending = NoOp
    BY <2>2 DEF IInv, OneConnectionOp
  <2>6. OneConnectionOp'
    <3>1. /\ DOMAIN stack' = DOMAIN stack
          /\ stack'[1].op = This
          /\ \A i \in DOMAIN stack : i # 1 => stack'[i] = stack[i]
      BY <1>1, <2>2, <2>3, Advance, StackType DEF IInv, TypeOK
    <3>2. \A i \in DOMAIN stack : ~(stack[i].at = "transport" /\ IsConnectionOp(stack[i].op))
      BY <2>5 DEF IInv, OneConnectionOp
    <3>3. \A op : IsConnectionOp(op)' = IsConnectionOp(op)
      BY <2>2 DEF IsConnectionOp, KindOf
    <3>4. \A i \in DOMAIN stack' : stack'[i].at = "transport" =>
             \A op : op = stack'[i].op /\ IsConnectionOp(op)' => op \in wrapped' /\ pending' = NoOp
      BY <2>2, <2>5, <3>1, <3>2, <3>3
    <3>5. QED  BY <2>2, <2>5, <3>4 DEF OneConnectionOp
  <2>7. TasksKept
    BY <2>2, TasksStep DEF IInv, TypeOK
  <2>8. QED  BY <1>1, <2>2, <2>4, <2>6, <2>7, Conclude DEF ManagerKept
<1>6. QED  BY <1>2, <1>3, <1>4, <1>5

LEMMA CallbackInv ==
  ASSUME IInv, TypeOK', At("complete"), UserCallback, UNCHANGED <<serializeVars, transportVars>>
  PROVE  IInv'
BY PopStep DEF UserCallback, At, Return, ManagerKept, serializeVars, transportVars

(* The waiting operation takes the place of the ConnectOperation that was  *)
(* made for it.                                                            *)
LEMMA OnConnectOpCompleteInv ==
  ASSUME IInv, TypeOK', At("complete"), IsAuto(This), OnConnectOpComplete,
         UNCHANGED <<serializeVars, transportVars>>
  PROVE  IInv'
<1> DEFINE op == User(This[1])
<1>1. /\ stack # <<>> /\ 1 \in DOMAIN stack /\ stack[1].op = This /\ This \in OpIds
      /\ DOMAIN stack = 1..Len(stack) /\ Len(stack) \in Nat
  BY StackType, ThisType DEF IInv, TypeOK, At
<1>2. op \in OpIds /\ This[1] \in UserOps /\ This = AutoConnect(This[1])
  BY <1>1, OpIdsType
<1>3. NeedsConnection(op) /\ ~IsConnectionOp(op)
  <2>1. Below(This)
    BY <1>1 DEF Below, OnStack
  <2>2. NeedsConnection(op)
    BY <1>2, <2>1 DEF IInv, NotYetBelow
  <2>3. QED  BY <2>2, AutoKind
<1>4. PICK place \in {"serialize", "complete"} : stack' = <<Call(place, op)>> \o Tail(stack)
  BY PassToAt DEF OnConnectOpComplete, Replace
<1>5. /\ DOMAIN stack' = DOMAIN stack
      /\ stack'[1].op = op /\ stack'[1].at = place
      /\ \A i \in DOMAIN stack : i # 1 => stack'[i] = stack[i]
  <2>1. Call(place, op) \in Frame
    BY <1>2, CallType DEF Places
  <2>2. /\ stack' \in Seq(Frame) /\ Len(stack') = Len(stack)
        /\ stack'[1] = Call(place, op)
        /\ \A i \in 2..Len(stack) : stack'[i] = stack[i]
    BY <1>1, <1>4, <2>1, ReplaceIndex DEF IInv, TypeOK, OpsTypeOK
  <2>3. QED  BY <1>1, <2>2 DEF Call
<1>6. kind' = kind /\ tasks' = tasks /\ UNCHANGED <<serializeVars, transportVars>>
  BY DEF OnConnectOpComplete
<1> HIDE DEF op
<1>7. \A op2 : IsConnectionOp(op2)' = IsConnectionOp(op2)
  BY <1>6 DEF IsConnectionOp, KindOf
<1>8. \A op2 : OnStack(op2)' => OnStack(op2) \/ op2 = op
  BY <1>5 DEF OnStack
<1>9. BelowKept
  BY <1>3, <1>6, <1>8 DEF BelowKept, Below, InQueue, serializeVars, transportVars
<1>10. OnePlace'
  <2>1. \A i, j \in DOMAIN stack' :
          IsConnectionOp(stack'[i].op) /\ stack'[i].op = stack'[j].op => i = j
    BY <1>3, <1>5 DEF IInv, OnePlace
  <2>2. \A i \in DOMAIN queue : \A op2 : op2 = queue[i] /\ IsConnectionOp(op2) => ~OnStack(op2)'
    BY <1>3, <1>8 DEF IInv, OnePlace
  <2>3. \A op2 : op2 = pending /\ op2 # NoOp => ~OnStack(op2)'
    <3>1. pending # NoOp => IsConnectionOp(pending)
      BY DEF IInv, OneConnectionOp, KindsInPlace
    <3>2. QED  BY <1>3, <1>8, <3>1 DEF IInv, OnePlace
  <2>4. QED
    BY <1>6, <1>7, <2>1, <2>2, <2>3 DEF IInv, OnePlace, InQueue, serializeVars, transportVars
<1>11. EnsureAlone' /\ CallsFit'
  <2>1. \A i \in DOMAIN stack' : stack'[i].at # "ensure"
    BY <1>1, <1>5 DEF IInv, EnsureAlone
  <2>2. \A i \in DOMAIN stack' : /\ stack'[i].at # "cancelled"
                                 /\ stack'[i].at = "establish" => NeedsConnection(stack'[i].op)
    BY <1>5 DEF IInv, KindsInPlace
  <2>3. QED  BY <1>6, <2>1, <2>2, CallsFitNext DEF EnsureAlone
<1>12. OneConnectionOp'
  <2>1. \A i \in DOMAIN stack' : stack'[i].at = "transport" =>
          \A op2 : op2 = stack'[i].op /\ IsConnectionOp(op2)' => op2 \in wrapped /\ pending = NoOp
    BY <1>5, <1>7 DEF IInv, OneConnectionOp
  <2>2. QED  BY <1>6, <2>1 DEF IInv, OneConnectionOp, serializeVars, transportVars
<1>13. TasksKept
  BY <1>6, TasksStep DEF IInv, TypeOK
<1>14. QED
  BY <1>6, <1>9, <1>10, <1>11, <1>12, <1>13, Conclude DEF serializeVars, transportVars

(* The queue is released on top of the operation that ended.               *)
LEMMA ReleasedStack ==
  ASSUME IInv, stack # <<>>, NEW at \in {"serialize", "complete"},
         stack' = (Release(at) \o <<Call("complete", This)>>) \o Tail(stack)
  PROVE  LET n == Len(queue) IN
         /\ n \in Nat /\ DOMAIN queue = 1..n
         /\ \A i \in DOMAIN stack' :
              \/ i \in 1..n /\ stack'[i].op = queue[i] /\ stack'[i].at = at
              \/ i = n + 1 /\ stack'[i].op = This /\ stack'[i].at = "complete"
              \/ /\ i \notin 1..(n + 1) /\ i - n # 1 /\ i - n \in DOMAIN stack
                 /\ stack'[i] = stack[i - n]
<1>1. /\ DOMAIN stack = 1..Len(stack) /\ Len(stack) \in Nat \ {0}
      /\ Call("complete", This) \in Frame /\ stack \in Seq(Frame)
  BY StackType, TailIndex, ThisType, CallType DEF IInv, TypeOK, OpsTypeOK, Places
<1>2. /\ Len(queue) \in Nat /\ DOMAIN queue = 1..Len(queue)
      /\ Release(at) \in Seq(Frame) /\ Len(Release(at)) = Len(queue)
      /\ \A i \in 1..Len(queue) : Release(at)[i] = Call(at, queue[i])
  BY ReleaseType DEF IInv, TypeOK, SerializeTypeOK, Places
<1>3. /\ stack' \in Seq(Frame)
      /\ Len(stack') = Len(queue) + Len(stack)
      /\ stack'[Len(queue) + 1] = Call("complete", This)
      /\ \A i \in 1..Len(queue) : stack'[i] = Call(at, queue[i])
      /\ \A i \in (Len(queue) + 2)..Len(stack') : stack'[i] = stack[i - Len(queue)]
  BY <1>1, <1>2, ReleaseIndex
<1>4. DOMAIN stack' = 1..(Len(queue) + Len(stack))
  BY <1>3
<1>5. ASSUME NEW i \in DOMAIN stack'
      PROVE  \/ i \in 1..Len(queue) /\ stack'[i].op = queue[i] /\ stack'[i].at = at
             \/ i = Len(queue) + 1 /\ stack'[i].op = This /\ stack'[i].at = "complete"
             \/ /\ i \notin 1..(Len(queue) + 1) /\ i - Len(queue) # 1
                /\ i - Len(queue) \in DOMAIN stack
                /\ stack'[i] = stack[i - Len(queue)]
  <2>1. CASE i \in 1..Len(queue)
    <3>1. stack'[i] = Call(at, queue[i])
      BY <1>3, <2>1
    <3>2. stack'[i].op = queue[i] /\ stack'[i].at = at
      BY <3>1 DEF Call
    <3>3. QED  BY <2>1, <3>2
  <2>2. CASE i = Len(queue) + 1
    BY <1>3, <2>2 DEF Call
  <2>3. CASE i \notin 1..(Len(queue) + 1)
    <3>1. i \in (Len(queue) + 2)..(Len(queue) + Len(stack))
      BY <1>1, <1>2, <1>4, <2>3
    <3>2. i - Len(queue) # 1 /\ i - Len(queue) \in DOMAIN stack
      BY <1>1, <1>2, <3>1
    <3>3. QED  BY <1>3, <2>3, <3>1, <3>2
  <2>4. QED  BY <1>2, <2>1, <2>2, <2>3
<1>6. QED  BY <1>2, <1>5

LEMMA OnOperationCompleteInv ==
  ASSUME IInv, TypeOK', At("complete"), This \in wrapped, OnOperationComplete, UNCHANGED transportVars
  PROVE  IInv'
<1> DEFINE n == Len(queue)
<1>1. stack # <<>> /\ 1 \in DOMAIN stack /\ stack[1].op = This /\ IsConnectionOp(This) /\ OnStack(This)
  BY StackType DEF IInv, TypeOK, At, KindsInPlace, OnStack
<1>2. PICK at \in {"serialize", "complete"} :
        stack' = (Release(at) \o <<Call("complete", This)>>) \o Tail(stack)
  BY DEF OnOperationComplete, Replace
<1>3. /\ n \in Nat /\ DOMAIN queue = 1..n
      /\ \A i \in DOMAIN stack' :
           \/ i \in 1..n /\ stack'[i].op = queue[i] /\ stack'[i].at = at
           \/ i = n + 1 /\ stack'[i].op = This /\ stack'[i].at = "complete"
           \/ /\ i \notin 1..(n + 1) /\ i - n # 1 /\ i - n \in DOMAIN stack
              /\ stack'[i] = stack[i - n]
  BY <1>1, <1>2, ReleasedStack
<1>4. /\ kind' = kind /\ tasks' = tasks /\ queue' = <<>> /\ blocked' = FALSE /\ pending' = pending
      /\ inflight' = inflight /\ established' = established
      /\ wrapped' = wrapped \ {This}
  BY DEF OnOperationComplete, transportVars
<1>5. wrapped' = {} /\ pending = NoOp
  BY <1>1, <1>4 DEF IInv, OneConnectionOp, OnePlace
<1> HIDE DEF n
<1>6. \A op : IsConnectionOp(op)' = IsConnectionOp(op)
  BY <1>4 DEF IsConnectionOp, KindOf
<1>7. \A op : OnStack(op)' => OnStack(op) \/ InQueue(op)
  BY <1>1, <1>3 DEF OnStack, InQueue
<1>8. BelowKept
  BY <1>4, <1>5, <1>7 DEF BelowKept, Below, InQueue
<1>9. OnePlace'
  <2>1. /\ \A i, j \in DOMAIN stack : IsConnectionOp(stack[i].op) /\ stack[i].op = stack[j].op => i = j
        /\ \A i, j \in DOMAIN queue : IsConnectionOp(queue[i]) /\ queue[i] = queue[j] => i = j
        /\ \A i \in DOMAIN queue, j \in DOMAIN stack : IsConnectionOp(queue[i]) => queue[i] # stack[j].op
    BY DEF IInv, OnePlace, OnStack
  <2>2. ASSUME NEW i \in DOMAIN stack', NEW j \in DOMAIN stack',
               IsConnectionOp(stack'[i].op), stack'[i].op = stack'[j].op
        PROVE  i = j
    <3>1. CASE i \in 1..n /\ stack'[i].op = queue[i]
      <4>1. ~(j - n \in DOMAIN stack /\ stack'[j] = stack[j - n])
        BY <1>3, <2>1, <2>2, <3>1
      <4>2. ~(stack'[j].op = This)
        BY <1>1, <1>3, <2>1, <2>2, <3>1
      <4>3. j \in 1..n /\ stack'[j].op = queue[j]
        BY <1>3, <4>1, <4>2
      <4>4. QED  BY <1>3, <2>1, <2>2, <3>1, <4>3
    <3>2. CASE i = n + 1 /\ stack'[i].op = This
      BY <1>1, <1>3, <2>1, <2>2, <3>2
    <3>3. CASE i - n # 1 /\ i - n \in DOMAIN stack /\ stack'[i] = stack[i - n]
      <4>1. ~(j \in 1..n /\ stack'[j].op = queue[j])
        BY <1>3, <2>1, <2>2, <3>3
      <4>2. ~(j = n + 1 /\ stack'[j].op = This)
        BY <1>1, <2>1, <2>2, <3>3
      <4>3. j - n \in DOMAIN stack /\ stack'[j] = stack[j - n]
        BY <1>3, <4>1, <4>2
      <4>4. i - n = j - n
        BY <2>1, <2>2, <3>3, <4>3
      <4>5. i \in Nat /\ j \in Nat
        BY StackType DEF TypeOK, OpsTypeOK
      <4>6. QED  BY <1>3, <4>4, <4>5
    <3>4. QED  BY <1>3, <3>1, <3>2, <3>3
  <2>3. QED  BY <1>4, <1>5, <1>6, <2>2 DEF OnePlace
<1>10. \A i \in DOMAIN stack : stack[i].at = "ensure" => i = 1
  BY StackType DEF IInv, TypeOK, EnsureAlone
<1>11. EnsureAlone' /\ CallsFit'
  <2>1. \A i \in DOMAIN stack' : stack'[i].at # "ensure"
    BY <1>3, <1>10
  <2>2. \A i \in DOMAIN stack' : /\ stack'[i].at # "cancelled"
                                 /\ stack'[i].at = "establish" => NeedsConnection(stack'[i].op)
    BY <1>3 DEF IInv, KindsInPlace
  <2>3. CallsFit'
    BY <1>4, <2>2, CallsFitNext
  <2>4. QED  BY <2>1, <2>3 DEF EnsureAlone
<1>12. OneConnectionOp'
  <2>1. \A i \in DOMAIN stack : stack[i].at = "transport" /\ IsConnectionOp(stack[i].op) => i = 1
    <3>1. \A i \in DOMAIN stack : stack[i].at = "transport" /\ IsConnectionOp(stack[i].op) => stack[i].op = This
      BY DEF IInv, OneConnectionOp
    <3>2. QED  BY <1>1, <3>1 DEF IInv, OnePlace
  <2>2. \A i \in DOMAIN stack' : stack'[i].at = "transport" => ~IsConnectionOp(stack'[i].op)
    BY <1>3, <2>1
  <2>3. \A i \in DOMAIN stack' : stack'[i].at = "transport" =>
          \A op : op = stack'[i].op => ~IsConnectionOp(op)'
    BY <1>6, <2>2
  <2>4. QED  BY <1>4, <1>5, <2>3 DEF OneConnectionOp
<1>13. TasksKept
  BY <1>4, TasksStep DEF IInv, TypeOK
<1>14. QED
  BY <1>4, <1>8, <1>9, <1>11, <1>12, <1>13, Conclude

-----------------------------------------------------------------------------
(* An operation enters the stages.                                         *)
LEMMA RunTaskOnce ==
  ASSUME IInv, NEW i \in DOMAIN tasks, NEW j \in DOMAIN tasks,
         tasks[i].what = "run", tasks[j].what = "run", tasks[i].op[1] = tasks[j].op[1]
  PROVE  i = j
<1>1. tasks[i] \in Task /\ tasks[j] \in Task
  BY DEF IInv, TypeOK, OpsTypeOK
<1>2. /\ tasks[i] \in [what : {"run", "acked"}, op : OpIds]
      /\ tasks[j] \in [what : {"run", "acked"}, op : OpIds]
  BY <1>1 DEF Task, Events
<1>3. ~IsAuto(tasks[i].op) /\ ~IsAuto(tasks[j].op)
  BY DEF IInv, NotYetBelow
<1>4. tasks[i].op = User(tasks[i].op[1]) /\ tasks[j].op = User(tasks[j].op[1])
  BY <1>2, <1>3, OpIdsType
<1>5. tasks[i] = tasks[j]
  BY <1>2, <1>4
<1>6. QED  BY <1>5 DEF IInv, RunOnce

LEMMA StartOpInv ==
  ASSUME IInv, TypeOK', StartOp, UNCHANGED <<serializeVars, transportVars>>
  PROVE  IInv'
<1> DEFINE op == Head(tasks).op
           o == op[1]
<1>1. /\ stack = <<>> /\ tasks # <<>> /\ tasks' = Tail(tasks) /\ stack' = <<Call("ensure", op)>>
      /\ UNCHANGED <<kind, blocked, queue, wrapped, pending, inflight, established>>
  BY DEF StartOp, Starts, serializeVars, transportVars
<1>2. /\ 1 \in DOMAIN tasks /\ tasks[1].what = "run" /\ tasks[1].op = op
      /\ \A i \in DOMAIN tasks' : i + 1 \in DOMAIN tasks /\ i + 1 # 1 /\ tasks'[i] = tasks[i + 1]
      /\ DOMAIN tasks' \subseteq Nat
  <2>1. /\ tasks[1] = Head(tasks) /\ Len(tasks) \in Nat \ {0}
        /\ Len(tasks') = Len(tasks) - 1
        /\ \A i \in 1..Len(tasks') : tasks'[i] = tasks[i + 1]
        /\ DOMAIN tasks = 1..Len(tasks) /\ DOMAIN tasks' = 1..Len(tasks')
    BY <1>1, TailIndex DEF IInv, TypeOK, OpsTypeOK
  <2>2. \A i \in DOMAIN tasks' : i \in Nat /\ i + 1 \in DOMAIN tasks /\ i + 1 # 1
    BY <2>1
  <2>3. QED  BY <2>1, <2>2 DEF StartOp, Starts
<1>3. op \in OpIds /\ ~IsAuto(op) /\ op = User(o) /\ o \in UserOps /\ kind[o] # "none" /\ Untouched(o)
  <2>1. op \in OpIds
    BY <1>1, <1>2, NextTaskType DEF IInv, TypeOK, StartOp, Starts
  <2>2. ~IsAuto(op) /\ kind[o] # "none" /\ Untouched(o)
    BY <1>2 DEF IInv, NotYetBelow
  <2>3. QED  BY <2>1, <2>2, OpIdsType
<1>4. \A i \in DOMAIN tasks' : tasks'[i].what = "run" => tasks'[i].op[1] # o
  BY <1>2, RunTaskOnce
<1> HIDE DEF op, o
<1>5. DOMAIN stack' = {1} /\ stack'[1].op = op /\ stack'[1].at = "ensure" /\ Len(stack') = 1
  BY <1>1 DEF Call
<1>6. /\ \A x : IsConnectionOp(x)' = IsConnectionOp(x) /\ NeedsConnection(x)' = NeedsConnection(x)
      /\ \A x : InQueue(x)' = InQueue(x)
      /\ \A x : OnStack(x)' <=> x = op
      /\ \A x : x # op => (Below(x)' => Below(x))
  <2>1. \A x : OnStack(x)' <=> x = op
    BY <1>5 DEF OnStack
  <2>2. \A x : IsConnectionOp(x)' = IsConnectionOp(x) /\ NeedsConnection(x)' = NeedsConnection(x)
    BY <1>1 DEF IsConnectionOp, NeedsConnection, KindOf
  <2>3. \A x : InQueue(x)' = InQueue(x)
    BY <1>1 DEF InQueue
  <2>4. QED  BY <1>1, <2>1, <2>2, <2>3 DEF Below
<1>7. \A p \in UserOps : p # o => User(p) # op /\ AutoConnect(p) # op
  BY <1>3, OpIdsType
<1>8. /\ \A p \in UserOps : p # o /\ Untouched(p) => Untouched(p)'
      /\ \A p \in UserOps : AutoConnect(p) # op
  BY <1>3, <1>6, <1>7, OpIdsType DEF Untouched
<1>9. NotYetBelow'
  <2>1. \A p \in UserOps : kind[p] = "none" => Untouched(p)'
    BY <1>3, <1>8 DEF IInv, NotYetBelow
  <2>2. ASSUME NEW i \in DOMAIN tasks', tasks'[i].what = "run"
        PROVE  /\ ~IsAuto(tasks'[i].op) /\ kind[tasks'[i].op[1]] # "none"
               /\ \A p : p = tasks'[i].op[1] => Untouched(p)'
    <3>1. PICK j \in DOMAIN tasks : tasks'[i] = tasks[j]
      BY <1>2
    <3>2. tasks[j] \in Task /\ tasks[j].what = "run"
      BY <3>1, <2>2 DEF IInv, TypeOK, OpsTypeOK
    <3>3. tasks[j].op \in OpIds
      BY <3>2 DEF Task, Events
    <3>4. tasks[j].op[1] \in UserOps
      BY <3>3, OpIdsType
    <3>5. ~IsAuto(tasks[j].op) /\ kind[tasks[j].op[1]] # "none" /\ Untouched(tasks[j].op[1])
      BY <3>2 DEF IInv, NotYetBelow
    <3>6. QED  BY <1>4, <1>8, <2>2, <3>1, <3>4, <3>5
  <2>3. \A p \in UserOps : Below(AutoConnect(p))' => NeedsConnection(User(p))'
    BY <1>6, <1>8 DEF IInv, NotYetBelow
  <2>4. QED  BY <1>1, <2>1, <2>2, <2>3 DEF NotYetBelow
<1>10. OnePlace'
  <2>1. Below(op) => ~IsConnectionOp(op)
    BY <1>3, AutoKind DEF Untouched
  <2>2. \A i \in DOMAIN queue : IsConnectionOp(queue[i]) => queue[i] # op
    BY <2>1 DEF Below, InQueue
  <2>3. pending # NoOp => pending # op
    BY <2>1 DEF IInv, OneConnectionOp, KindsInPlace, Below
  <2>4. \A i \in DOMAIN queue : \A x : x = queue[i] /\ IsConnectionOp(x) => ~OnStack(x)'
    BY <1>6, <2>2
  <2>5. \A x : x = pending /\ x # NoOp => ~OnStack(x)' /\ ~InQueue(x)'
    BY <1>6, <2>3 DEF IInv, OnePlace
  <2>6. QED  BY <1>1, <1>5, <1>6, <2>4, <2>5 DEF IInv, OnePlace
<1>11. EnsureAlone'
  <2>1. \A x : x = AutoConnect(o) => ~Below(x)'
    BY <1>3, <1>6, <1>8 DEF Untouched
  <2>2. \A j \in DOMAIN tasks' : tasks'[j].what = "run" => tasks'[j].op # op
    BY <1>4 DEF o
  <2>3. \A i \in DOMAIN stack' : /\ Len(stack') = 1
                                 /\ ~IsAuto(stack'[i].op)
                                 /\ \A x : x = AutoConnect(stack'[i].op[1]) => ~Below(x)'
                                 /\ \A j \in DOMAIN tasks' : tasks'[j].what = "run" => tasks'[j].op # stack'[i].op
    BY <1>3, <1>5, <2>1, <2>2 DEF o
  <2>4. QED  BY <2>3 DEF EnsureAlone
<1>12. KindsInPlace'
  <2>1. \A i \in DOMAIN tasks' : tasks'[i].what = "acked" => \A x : x = tasks'[i].op => NeedsConnection(x)'
    BY <1>2, <1>6 DEF IInv, KindsInPlace
  <2>2. \A x \in wrapped : IsConnectionOp(x)'
    BY <1>6 DEF IInv, KindsInPlace
  <2>3. \A x \in inflight \union established : NeedsConnection(x)'
    BY <1>6 DEF IInv, KindsInPlace
  <2>4. QED  BY <1>1, <1>5, <2>1, <2>2, <2>3 DEF KindsInPlace
<1>13. OneConnectionOp'
  BY <1>1, <1>5 DEF IInv, OneConnectionOp
<1>14. RunOnce'
  <2>1. TasksKept
    BY <1>1, TasksStep DEF IInv, TypeOK
  <2>2. QED  BY <2>1 DEF TasksKept
<1>15. QED  BY <1>9, <1>10, <1>11, <1>12, <1>13, <1>14 DEF IInv

LEMMA EnsureConnectionInv ==
  ASSUME IInv, TypeOK', EnsureConnection, UNCHANGED <<serializeVars, transportVars>>
  PROVE  IInv'
<1> DEFINE op == This
           o == This[1]
           auto == AutoConnect(o)
<1>1. /\ stack # <<>> /\ At("ensure") /\ 1 \in DOMAIN stack /\ stack[1].op = op /\ stack[1].at = "ensure"
      /\ op \in OpIds /\ stack \in Seq(Frame)
      /\ UNCHANGED <<kind, tasks, blocked, queue, wrapped, pending, inflight, established>>
  BY StackType, ThisType DEF EnsureConnection, At, IInv, TypeOK, OpsTypeOK, serializeVars, transportVars
<1>2. CASE stack' = <<PassTo("serialize", op)>> \o Tail(stack)
  <2>1. PICK place \in {"serialize", "complete"} : PassTo("serialize", This) = Call(place, This)
    BY PassToAt
  <2>2. QED  BY <1>1, <1>2, <2>1, AdvanceStep DEF Places, ManagerKept
<1>3. CASE NeedsConnection(op) /\ stack' = <<Call("serialize", auto)>> \o Tail(stack)
  <2>1. /\ Len(stack) = 1 /\ ~IsAuto(op) /\ ~Below(auto)
        /\ \A j \in DOMAIN tasks : tasks[j].what = "run" => tasks[j].op # op
    BY <1>1 DEF IInv, EnsureAlone
  <2>2. o \in UserOps /\ op = User(o) /\ auto \in OpIds
    BY <1>1, <2>1, OpIdsType
  <2>3. kind[o] # "none"
    BY <1>3, <2>1, AutoKind DEF KindOf
  <2> HIDE DEF op, o, auto
  <2>4. DOMAIN stack' = {1} /\ stack'[1].op = auto /\ stack'[1].at = "serialize"
    <3>1. Call("serialize", auto) \in Frame
      BY <2>2, CallType DEF Places
    <3>2. stack' \in Seq(Frame) /\ Len(stack') = 1 /\ stack'[1] = Call("serialize", auto)
      BY <1>1, <1>3, <2>1, <3>1, ReplaceIndex
    <3>3. QED  BY <3>2 DEF Call
  <2>5. /\ \A x : IsConnectionOp(x)' = IsConnectionOp(x) /\ NeedsConnection(x)' = NeedsConnection(x)
        /\ \A x : InQueue(x)' = InQueue(x)
        /\ \A x : OnStack(x)' <=> x = auto
        /\ \A x : x # auto => (Below(x)' => Below(x))
    <3>1. \A x : OnStack(x)' <=> x = auto
      BY <2>4 DEF OnStack
    <3>2. \A x : IsConnectionOp(x)' = IsConnectionOp(x) /\ NeedsConnection(x)' = NeedsConnection(x)
      BY <1>1 DEF IsConnectionOp, NeedsConnection, KindOf
    <3>3. \A x : InQueue(x)' = InQueue(x)
      BY <1>1 DEF InQueue
    <3>4. QED  BY <1>1, <3>1, <3>2, <3>3 DEF Below
  <2>6. /\ \A p \in UserOps : User(p) # auto /\ (p # o => AutoConnect(p) # auto)
        /\ \A p \in UserOps : p # o /\ Untouched(p) => Untouched(p)'
    <3>1. \A p \in UserOps : User(p) # auto /\ (p # o => AutoConnect(p) # auto)
      BY <2>2, OpIdsType DEF auto
    <3>2. QED  BY <2>5, <3>1, OpIdsType DEF Untouched
  <2>7. NotYetBelow'
    <3>1. \A p \in UserOps : kind[p] = "none" => Untouched(p)'
      BY <2>3, <2>6 DEF IInv, NotYetBelow
    <3>2. ASSUME NEW i \in DOMAIN tasks, tasks[i].what = "run"
          PROVE  /\ ~IsAuto(tasks[i].op) /\ kind[tasks[i].op[1]] # "none"
                 /\ \A p : p = tasks[i].op[1] => Untouched(p)'
      <4>1. tasks[i] \in Task
        BY DEF IInv, TypeOK, OpsTypeOK
      <4>2. tasks[i].op \in OpIds
        BY <3>2, <4>1 DEF Task, Events
      <4>3. ~IsAuto(tasks[i].op) /\ kind[tasks[i].op[1]] # "none" /\ Untouched(tasks[i].op[1])
        BY <3>2 DEF IInv, NotYetBelow
      <4>4. tasks[i].op[1] \in UserOps /\ tasks[i].op = User(tasks[i].op[1])
        BY <4>2, <4>3, OpIdsType
      <4>5. tasks[i].op[1] # o
        BY <2>1, <2>2, <3>2, <4>4
      <4>6. QED  BY <2>6, <4>3, <4>4, <4>5
    <3>3. \A p \in UserOps : Below(AutoConnect(p))' => NeedsConnection(User(p))'
      <4>1. NeedsConnection(User(o))
        BY <1>3, <2>2
      <4>2. QED  BY <2>5, <2>6, <4>1 DEF IInv, NotYetBelow
    <3>4. QED  BY <1>1, <3>1, <3>2, <3>3 DEF NotYetBelow
  <2>8. OnePlace'
    <3>1. \A i \in DOMAIN queue : \A x : x = queue[i] /\ IsConnectionOp(x) => ~OnStack(x)'
      BY <2>1, <2>5 DEF Below, InQueue
    <3>2. \A x : x = pending /\ x # NoOp => ~OnStack(x)' /\ ~InQueue(x)'
      BY <2>1, <2>5 DEF IInv, OnePlace, Below
    <3>3. QED  BY <1>1, <2>4, <2>5, <3>1, <3>2 DEF IInv, OnePlace
  <2>9. KindsInPlace'
    <3>1. \A i \in DOMAIN tasks : tasks[i].what = "acked" => \A x : x = tasks[i].op => NeedsConnection(x)'
      BY <2>5 DEF IInv, KindsInPlace
    <3>2. \A x \in wrapped : IsConnectionOp(x)'
      BY <2>5 DEF IInv, KindsInPlace
    <3>3. \A x \in inflight \union established : NeedsConnection(x)'
      BY <2>5 DEF IInv, KindsInPlace
    <3>4. QED  BY <1>1, <2>4, <3>1, <3>2, <3>3 DEF KindsInPlace
  <2>10. OneConnectionOp' /\ EnsureAlone' /\ RunOnce'
    BY <1>1, <2>4 DEF IInv, OneConnectionOp, EnsureAlone, RunOnce
  <2>11. QED  BY <2>7, <2>8, <2>9, <2>10 DEF IInv
<1>4. QED  BY <1>2, <1>3 DEF EnsureConnection, Replace

LEMMA SubmitInv ==
  ASSUME IInv, TypeOK', Application, UNCHANGED <<serializeVars, transportVars>>
  PROVE  IInv'
<1>1. PICK o \in UserOps, k \in UserKinds : Submit(o, k)
  BY DEF Application
<1> DEFINE op == User(o)
<1>2. /\ kind[o] = "none" /\ kind'[o] # "none" /\ \A p \in UserOps : p # o => kind'[p] = kind[p]
      /\ UNCHANGED <<stack, blocked, queue, wrapped, pending, inflight, established>>
      /\ op \in OpIds /\ ~IsAuto(op) /\ op[1] = o
  BY <1>1, OpsAssumption, OpIdsType
     DEF Submit, IInv, TypeOK, OpsTypeOK, Kinds, ConnectionKinds, ConnectKinds, AckedKinds,
         serializeVars, transportVars
<1>3. /\ DOMAIN tasks = 1..Len(tasks) /\ Len(tasks) \in Nat
      /\ DOMAIN tasks' = 1..(Len(tasks) + 1)
      /\ tasks'[Len(tasks) + 1] = RunTask(op)
      /\ \A i \in 1..Len(tasks) : tasks'[i] = tasks[i]
      /\ \A i \in DOMAIN tasks' : i \in DOMAIN tasks \/ i = Len(tasks) + 1
  <2>1. RunTask(op) \in Task /\ tasks \in Seq(Task)
    BY <1>2, TaskType DEF IInv, TypeOK, OpsTypeOK
  <2>2. /\ DOMAIN tasks' = 1..(Len(tasks) + 1)
        /\ tasks'[Len(tasks) + 1] = RunTask(op)
        /\ \A i \in 1..Len(tasks) : tasks'[i] = tasks[i]
    BY <1>1, <2>1, AppendIndex DEF Submit
  <2>3. DOMAIN tasks = 1..Len(tasks) /\ Len(tasks) \in Nat
    BY <2>1
  <2>4. QED  BY <2>2, <2>3, RangeSplit
<1>4. ~IsConnectionOp(op) /\ ~NeedsConnection(op) /\ ~Below(op) /\ ~Below(AutoConnect(o))
  <2>1. KindOf(op) = "none"
    BY <1>2 DEF KindOf
  <2>2. ~IsConnectionOp(op) /\ ~NeedsConnection(op)
    BY <2>1, AutoKind
  <2>3. QED  BY <1>2, <2>2 DEF IInv, NotYetBelow, Untouched
<1>5. \A x \in OpIds : x # op => /\ IsConnectionOp(x)' = IsConnectionOp(x)
                                /\ NeedsConnection(x)' = NeedsConnection(x)
  <2>1. \A x \in OpIds : x # op => x[1] \in UserOps /\ (IsAuto(x) \/ x[1] # o)
    BY OpIdsType
  <2>2. \A x \in OpIds : x # op => KindOf(x)' = KindOf(x)
    BY <1>2, <2>1 DEF KindOf
  <2>3. QED  BY <2>2 DEF IsConnectionOp, NeedsConnection
<1>6. RunTask(op).what = "run" /\ RunTask(op).op = op
  BY DEF RunTask
<1> HIDE DEF op
<1>7. \A x : OnStack(x)' = OnStack(x) /\ InQueue(x)' = InQueue(x) /\ Below(x)' = Below(x)
  BY <1>2 DEF OnStack, InQueue, Below
<1>8. /\ \A i \in DOMAIN stack : stack[i].op \in OpIds /\ stack[i].op # op
      /\ \A i \in DOMAIN queue : queue[i] \in OpIds /\ queue[i] # op
      /\ wrapped \subseteq OpIds /\ op \notin wrapped
      /\ inflight \union established \subseteq OpIds /\ op \notin inflight \union established
  <2>1. /\ \A i \in DOMAIN stack : stack[i].op # op
        /\ \A i \in DOMAIN queue : queue[i] # op
        /\ op \notin wrapped /\ op \notin inflight \union established
    BY <1>4 DEF Below, OnStack, InQueue, IInv, KindsInPlace
  <2>2. QED  BY <2>1, StackType DEF IInv, TypeOK, OpsTypeOK, SerializeTypeOK, TransportTypeOK
<1>9. \A i \in DOMAIN tasks : tasks[i].what \in {"run", "acked"} =>
        /\ tasks[i].op \in OpIds /\ tasks[i].op # op /\ tasks[i].op[1] \in UserOps
        /\ tasks[i].what = "run" => tasks[i].op[1] # o
  <2>1. \A i \in DOMAIN tasks : tasks[i].what \in {"run", "acked"} => tasks[i].op \in OpIds
    <3>1. \A i \in DOMAIN tasks : tasks[i] \in Task
      BY DEF IInv, TypeOK, OpsTypeOK
    <3>2. QED  BY <3>1 DEF Task, Events
  <2>2. \A i \in DOMAIN tasks : tasks[i].what = "run" => tasks[i].op[1] # o
    BY <1>2 DEF IInv, NotYetBelow
  <2>3. \A i \in DOMAIN tasks : tasks[i].what = "acked" => tasks[i].op # op
    BY <1>4 DEF IInv, KindsInPlace
  <2>4. QED  BY <1>2, <2>1, <2>2, <2>3, OpIdsType
<1>10. OneConnectionOp'
  <2>1. \A i \in DOMAIN stack : \A x : x = stack[i].op => IsConnectionOp(x)' = IsConnectionOp(x)
    BY <1>5, <1>8
  <2>2. QED  BY <1>2, <2>1 DEF IInv, OneConnectionOp
<1>11. KindsInPlace'
  <2>1. \A x \in wrapped : IsConnectionOp(x)'
    BY <1>5, <1>8 DEF IInv, KindsInPlace
  <2>2. \A x \in inflight \union established : NeedsConnection(x)'
    BY <1>5, <1>8 DEF IInv, KindsInPlace
  <2>3. \A i \in DOMAIN tasks' : tasks'[i].what = "acked" => \A x : x = tasks'[i].op => NeedsConnection(x)'
    BY <1>3, <1>5, <1>6, <1>9 DEF IInv, KindsInPlace
  <2>4. \A i \in DOMAIN stack : /\ stack[i].at # "cancelled"
                                /\ stack[i].at = "establish" => \A x : x = stack[i].op => NeedsConnection(x)'
    BY <1>5, <1>8 DEF IInv, KindsInPlace
  <2>5. QED  BY <1>2, <2>1, <2>2, <2>3, <2>4 DEF KindsInPlace
<1>12. OnePlace'
  <2>1. \A i \in DOMAIN stack : \A x : x = stack[i].op => IsConnectionOp(x)' = IsConnectionOp(x)
    BY <1>5, <1>8
  <2>2. \A i \in DOMAIN queue : \A x : x = queue[i] => IsConnectionOp(x)' = IsConnectionOp(x)
    BY <1>5, <1>8
  <2>3. QED  BY <1>2, <1>7, <2>1, <2>2 DEF IInv, OnePlace
<1>13. NotYetBelow'
  <2>1. \A p \in UserOps : p # o /\ Untouched(p) => Untouched(p)'
    BY <1>2, <1>5, <1>7, OpIdsType DEF Untouched, op
  <2>2. Untouched(o)'
    BY <1>4, <1>7 DEF Untouched, op
  <2>3. \A p \in UserOps : kind'[p] = "none" => Untouched(p)'
    BY <1>2, <2>1 DEF IInv, NotYetBelow
  <2>4. ASSUME NEW i \in DOMAIN tasks', tasks'[i].what = "run"
        PROVE  /\ ~IsAuto(tasks'[i].op) /\ kind'[tasks'[i].op[1]] # "none"
               /\ \A p : p = tasks'[i].op[1] => Untouched(p)'
    <3>1. CASE i \in DOMAIN tasks
      <4>1. /\ tasks'[i] = tasks[i] /\ tasks[i].op[1] \in UserOps /\ tasks[i].op[1] # o
        BY <1>3, <1>9, <2>4, <3>1
      <4>2. ~IsAuto(tasks[i].op) /\ kind[tasks[i].op[1]] # "none" /\ Untouched(tasks[i].op[1])
        BY <2>4, <3>1, <4>1 DEF IInv, NotYetBelow
      <4>3. QED  BY <1>2, <2>1, <4>1, <4>2
    <3>2. CASE i = Len(tasks) + 1
      BY <1>2, <1>3, <1>6, <2>2, <3>2
    <3>3. QED  BY <1>3, <3>1, <3>2
  <2>5. \A p \in UserOps : Below(AutoConnect(p))' => NeedsConnection(User(p))'
    <3>1. \A p \in UserOps : p # o => User(p) # op /\ User(p) \in OpIds
      BY OpIdsType DEF op
    <3>2. QED  BY <1>4, <1>5, <1>7, <3>1 DEF IInv, NotYetBelow
  <2>6. QED  BY <2>3, <2>4, <2>5 DEF NotYetBelow
<1>14. RunOnce'
  <2>1. ASSUME NEW i \in DOMAIN tasks', NEW j \in DOMAIN tasks', tasks'[i].what = "run", tasks'[i] = tasks'[j]
        PROVE  i = j
    <3>1. CASE i \in DOMAIN tasks /\ j \in DOMAIN tasks
      BY <1>3, <2>1, <3>1 DEF IInv, RunOnce
    <3>2. CASE i = Len(tasks) + 1 \/ j = Len(tasks) + 1
      <4>1. \A m \in DOMAIN tasks : tasks[m] # RunTask(op)
        BY <1>6, <1>9
      <4>2. QED  BY <1>3, <2>1, <3>2, <4>1
    <3>3. QED  BY <1>3, <3>1, <3>2
  <2>2. QED  BY <2>1 DEF RunOnce
<1>15. EnsureAlone'
  <2>1. \A i \in DOMAIN stack : stack[i].at = "ensure" =>
          /\ Len(stack) = 1 /\ ~IsAuto(stack[i].op)
          /\ \A x : x = AutoConnect(stack[i].op[1]) => ~Below(x)'
          /\ \A j \in DOMAIN tasks' : tasks'[j].what = "run" => tasks'[j].op # stack[i].op
    BY <1>3, <1>6, <1>7, <1>8 DEF IInv, EnsureAlone
  <2>2. QED  BY <1>2, <2>1 DEF EnsureAlone
<1>16. QED  BY <1>10, <1>11, <1>12, <1>13, <1>14, <1>15 DEF IInv

LEMMA InitInv == Init => IInv
<1> SUFFICES ASSUME Init PROVE IInv
  OBVIOUS
<1>1. TypeOK
  BY InitType
<1> USE DEF Init, OpsInit, SerializeInit, TransportInit
<1>2. \A op : ~OnStack(op) /\ ~InQueue(op)
  BY DEF OnStack, InQueue
<1>3. OneConnectionOp /\ KindsInPlace /\ RunOnce /\ EnsureAlone
  BY DEF OneConnectionOp, KindsInPlace, RunOnce, EnsureAlone
<1>4. OnePlace
  BY DEF OnePlace
<1>5. NotYetBelow
  <2>1. \A op \in OpIds : ~Below(op)
    BY <1>2, NoOpType DEF Below
  <2>2. \A o \in UserOps : Untouched(o)
    BY <2>1, OpIdsType DEF Untouched
  <2>3. QED  BY <2>1, <2>2, OpIdsType DEF NotYetBelow
<1>6. QED  BY <1>1, <1>3, <1>4, <1>5 DEF IInv

LEMMA StutterInv == IInv /\ UNCHANGED vars => IInv'
BY DEF vars, opVars, serializeVars, transportVars, IInv, TypeOK, OpsTypeOK, SerializeTypeOK, TransportTypeOK,
  OneConnectionOp, KindsInPlace, OnePlace, NotYetBelow, RunOnce, EnsureAlone, Untouched, Below, OnStack, InQueue,
  IsConnectionOp, NeedsConnection, KindOf

(* IInv is inductive: whatever the application, the network and the broker *)
(* do, no connection operation is ever in two places.                      *)
THEOREM Inductive == Spec => []IInv
<1>1. IInv /\ [Next]_vars => IInv'
  <2> SUFFICES ASSUME IInv, [Next]_vars PROVE IInv'
    OBVIOUS
  <2>1. TypeOK /\ [Next]_vars => TypeOK'
    BY TypeStep
  <2>2. TypeOK'
    BY <2>1 DEF IInv
  <2>3. CASE UNCHANGED vars
    BY <2>3, StutterInv
  <2>4. CASE Application /\ UNCHANGED <<serializeVars, transportVars>>
    BY <2>2, <2>4, SubmitInv
  <2>5. CASE PipelineThread
    <3>1. CASE CompleteOp /\ UNCHANGED transportVars
      BY <2>2, <3>1, OnOperationCompleteInv, OnConnectOpCompleteInv, CallbackInv DEF CompleteOp
    <3>2. QED
      BY <2>2, <2>5, <3>1, StartOpInv, EnsureConnectionInv, SerializeInv, TransportOpsInv, EventHandlersInv
         DEF PipelineThread
  <2>6. CASE Library /\ UNCHANGED serializeVars
    BY <2>2, <2>6, LibraryInv
  <2>7. QED  BY <2>3, <2>4, <2>5, <2>6 DEF Next
<1>2. QED  BY InitInv, <1>1, PTL DEF Spec

(* At most one connection operation is below SerializeConnectOpsStage, and *)
(* the transport never receives one while another is pending: the          *)
(* cancellation in MQTTTransportStage cannot happen in these pipelines.    *)
THEOREM OneConnectionOpHolds == Spec => []OneConnectionOp
<1>1. IInv => OneConnectionOp
  BY DEF IInv
<1>2. QED  BY Inductive, <1>1, PTL

=============================================================================
