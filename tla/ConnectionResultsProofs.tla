---------------------- MODULE ConnectionResultsProofs ----------------------
(***************************************************************************)
(* What the callers of the connection half of the pipeline are promised,   *)
(* for any operations and any number of faults: no operation is lost, none *)
(* is called back twice, a result agrees with the connection, and the      *)
(* stage that serializes keeps the promise of ConnectionGate.  The         *)
(* transport stage on its own, where operations are cancelled, completes   *)
(* each once, with a result that agrees with the connection, too.          *)
(***************************************************************************)
EXTENDS ConnectionPipelineProofs, TransportStageAlone, FiniteSetTheorems

-----------------------------------------------------------------------------
(* Counting the elements of a sequence that are in a set.                  *)
Count(s, T) == Cardinality({i \in DOMAIN s : s[i] \in T})

LEMMA CountType ==
  ASSUME NEW S, NEW s \in Seq(S), NEW T
  PROVE  /\ IsFiniteSet({i \in DOMAIN s : s[i] \in T})
         /\ Count(s, T) \in Nat
<1>1. DOMAIN s = 1..Len(s) /\ Len(s) \in Nat
  OBVIOUS
<1>2. IsFiniteSet(1..Len(s))
  BY <1>1, FS_Interval
<1>3. {i \in DOMAIN s : s[i] \in T} \in SUBSET (1..Len(s))
  BY <1>1
<1>4. IsFiniteSet({i \in DOMAIN s : s[i] \in T})
  BY <1>2, <1>3, FS_Subset
<1>5. QED  BY <1>4, FS_CardinalityType DEF Count

(* A sequence that reads n places further on what another one reads.       *)
LEMMA CountShift ==
  ASSUME NEW I \in SUBSET Nat, IsFiniteSet(I), NEW n \in Nat
  PROVE  LET J == {i + n : i \in I} IN IsFiniteSet(J) /\ Cardinality(J) = Cardinality(I)
<1> DEFINE J == {i + n : i \in I}
           shift == [i \in I |-> i + n]
<1>1. shift \in [I -> J]
  OBVIOUS
<1>2. \A i, k \in I : shift[i] = shift[k] => i = k
  OBVIOUS
<1>3. \A j \in J : \E i \in I : shift[i] = j
  OBVIOUS
<1>4. shift \in Bijection(I, J)
  BY <1>1, <1>2, <1>3 DEF Bijection, Injection, Surjection, IsInjective
<1>5. ExistsBijection(I, J)
  BY <1>4 DEF ExistsBijection
<1>6. QED  BY <1>5, FS_Bijection

LEMMA CountConcat ==
  ASSUME NEW S, NEW s \in Seq(S), NEW t \in Seq(S), NEW T
  PROVE  Count(s \o t, T) = Count(s, T) + Count(t, T)
<1> DEFINE I == {i \in DOMAIN s : s[i] \in T}
           J == {i \in DOMAIN t : t[i] \in T}
           K == {j + Len(s) : j \in J}
           U == {i \in DOMAIN (s \o t) : (s \o t)[i] \in T}
<1>1. /\ DOMAIN s = 1..Len(s) /\ DOMAIN t = 1..Len(t) /\ Len(s) \in Nat /\ Len(t) \in Nat
      /\ DOMAIN (s \o t) = 1..(Len(s) + Len(t))
      /\ \A i \in 1..Len(s) : (s \o t)[i] = s[i]
      /\ \A j \in 1..Len(t) : (s \o t)[j + Len(s)] = t[j]
  BY ConcatProperties
<1>2. IsFiniteSet(I) /\ IsFiniteSet(J) /\ I \in SUBSET Nat /\ J \in SUBSET Nat
  <2>1. IsFiniteSet(I)
    BY CountType
  <2>2. IsFiniteSet(J)
    BY CountType
  <2>3. QED  BY <1>1, <2>1, <2>2
<1>3. IsFiniteSet(K) /\ Cardinality(K) = Cardinality(J)
  BY <1>1, <1>2, CountShift
<1>4. I \cap K = {}
  BY <1>1
<1>5. U = I \cup K
  <2>1. ASSUME NEW i \in U PROVE i \in I \cup K
    <3>1. CASE i \in 1..Len(s)
      BY <1>1, <2>1, <3>1
    <3>2. CASE i \notin 1..Len(s)
      <4>1. i - Len(s) \in 1..Len(t) /\ i = (i - Len(s)) + Len(s)
        BY <1>1, <2>1, <3>2
      <4>2. (s \o t)[i] = t[i - Len(s)]
        BY <1>1, <4>1
      <4>3. i - Len(s) \in J
        BY <1>1, <2>1, <4>1, <4>2
      <4>4. QED  BY <4>1, <4>3
    <3>3. QED  BY <3>1, <3>2
  <2>2. I \subseteq U
    BY <1>1
  <2>3. K \subseteq U
    BY <1>1
  <2>4. QED  BY <2>1, <2>2, <2>3
<1>6. Cardinality(U) = Cardinality(I) + Cardinality(K) - Cardinality({})
  BY <1>2, <1>3, <1>4, <1>5, FS_Union
<1>7. Cardinality({}) = 0 /\ Cardinality(I) \in Nat /\ Cardinality(K) \in Nat
  BY <1>2, <1>3, FS_EmptySet, FS_CardinalityType
<1>8. Cardinality(U) = Cardinality(I) + Cardinality(J)
  <2> HIDE DEF I, J, K, U
  <2>1. QED  BY <1>3, <1>6, <1>7
<1>9. QED  BY <1>8 DEF Count

LEMMA CountSmall ==
  ASSUME NEW S, NEW c \in S, NEW T
  PROVE  /\ Count(<<>>, T) = 0
         /\ Count(<<c>>, T) = IF c \in T THEN 1 ELSE 0
<1>1. {i \in DOMAIN <<>> : <<>>[i] \in T} = {}
  OBVIOUS
<1>2. {i \in DOMAIN <<c>> : <<c>>[i] \in T} = IF c \in T THEN {1} ELSE {}
  OBVIOUS
<1>3. Cardinality({}) = 0 /\ Cardinality({1}) = 1
  BY FS_EmptySet, FS_Singleton
<1>4. Count(<<>>, T) = 0
  BY <1>1, <1>3 DEF Count
<1>5. CASE c \in T
  BY <1>2, <1>3, <1>4, <1>5 DEF Count
<1>6. CASE c \notin T
  BY <1>2, <1>3, <1>4, <1>6 DEF Count
<1>7. QED  BY <1>5, <1>6

LEMMA CountAppend ==
  ASSUME NEW S, NEW s \in Seq(S), NEW c \in S, NEW T
  PROVE  Count(Append(s, c), T) = Count(s, T) + (IF c \in T THEN 1 ELSE 0)
<1> DEFINE one == <<c>>
<1>1. Append(s, c) = s \o one /\ one \in Seq(S)
  OBVIOUS
<1>2. Count(one, T) = IF c \in T THEN 1 ELSE 0
  BY CountSmall
<1> HIDE DEF one
<1>3. Count(s \o one, T) = Count(s, T) + Count(one, T)
  BY <1>1, CountConcat
<1>4. QED  BY <1>1, <1>2, <1>3

LEMMA CountTail ==
  ASSUME NEW S, NEW s \in Seq(S), s # <<>>, NEW T
  PROVE  Count(Tail(s), T) = Count(s, T) - (IF Head(s) \in T THEN 1 ELSE 0)
<1> DEFINE one  == <<Head(s)>>
           rest == Tail(s)
<1>1. s = one \o rest /\ one \in Seq(S) /\ rest \in Seq(S) /\ Head(s) \in S
  BY TailIndex, HeadTailProperties
<1>2. Count(one, T) = IF Head(s) \in T THEN 1 ELSE 0
  BY <1>1, CountSmall
<1> HIDE DEF one, rest
<1>3. Count(one \o rest, T) = Count(one, T) + Count(rest, T)
  BY <1>1, CountConcat
<1>4. Count(rest, T) \in Nat
  BY <1>1, CountType
<1>5. Count(rest, T) = Count(s, T) - (IF Head(s) \in T THEN 1 ELSE 0)
  BY <1>1, <1>2, <1>3, <1>4
<1>6. QED  BY <1>5 DEF rest

-----------------------------------------------------------------------------
(* The places of an operation, counted one kind of place at a time.        *)
CallsOf(op) == {call \in Frame : call.op = op}
TasksOf(op) == {task \in Task : task.op = op}

InTasks(op)     == Count(tasks, TasksOf(op))
InStack(op)     == Count(stack, CallsOf(op))
InLine(op)      == Count(queue, {op})
IsPending(op)   == IF pending = op THEN 1 ELSE 0
AtManager(op)   == IF op \in established THEN 1 ELSE 0
PlacesAdd ==
  \A op \in OpIds :
    /\ HeldAt(op) = InTasks(op) + InStack(op) + InLine(op) + IsPending(op) + AtManager(op)
    /\ InTasks(op) \in Nat /\ InStack(op) \in Nat /\ InLine(op) \in Nat

LEMMA PlacesAddUp == IInv => PlacesAdd
<1> SUFFICES ASSUME IInv, NEW op \in OpIds
             PROVE  /\ HeldAt(op) = InTasks(op) + InStack(op) + InLine(op) + IsPending(op) + AtManager(op)
                    /\ InTasks(op) \in Nat /\ InStack(op) \in Nat /\ InLine(op) \in Nat
  BY DEF PlacesAdd
<1>1. tasks \in Seq(Task) /\ stack \in Seq(Frame) /\ queue \in Seq(OpIds)
  BY DEF IInv, TypeOK, OpsTypeOK, SerializeTypeOK
<1>2. \A i \in DOMAIN tasks : tasks[i] \in Task
  BY <1>1
<1>3. \A i \in DOMAIN stack : stack[i] \in Frame
  BY <1>1
<1>4. {i \in DOMAIN tasks : tasks[i].op = op} = {i \in DOMAIN tasks : tasks[i] \in TasksOf(op)}
  BY <1>2 DEF TasksOf
<1>5. {i \in DOMAIN stack : stack[i].op = op} = {i \in DOMAIN stack : stack[i] \in CallsOf(op)}
  BY <1>3 DEF CallsOf
<1>6. {i \in DOMAIN queue : queue[i] = op} = {i \in DOMAIN queue : queue[i] \in {op}}
  OBVIOUS
<1>7. ~Cancelling
  BY DEF Cancelling, IInv, KindsInPlace
<1>8. InTasks(op) \in Nat /\ InStack(op) \in Nat /\ InLine(op) \in Nat
  BY <1>1, CountType DEF InTasks, InStack, InLine
<1>9. HeldAt(op) = (InTasks(op) + InStack(op) + IsPending(op) + AtManager(op)) + InLine(op)
  BY <1>4, <1>5, <1>6, <1>7 DEF HeldAt, Positions, InTasks, InStack, InLine, IsPending, AtManager, Count
<1>10. IsPending(op) \in Nat /\ AtManager(op) \in Nat
  BY DEF IsPending, AtManager
<1>11. QED  BY <1>8, <1>9, <1>10

LEMMA PlacesAddUpNext == IInv' => PlacesAdd'
BY PlacesAddUp, PTL

(* What the calls of a step do to the count of an operation's calls.       *)
LEMMA StackMoves ==
  ASSUME OpsTypeOK, stack # <<>>, NEW calls \in Seq(Frame), stack' = calls \o Tail(stack)
  PROVE  \A op \in OpIds :
           InStack(op)' = InStack(op) - (IF This = op THEN 1 ELSE 0) + Count(calls, CallsOf(op))
<1> TAKE op \in OpIds
<1>1. stack \in Seq(Frame) /\ Head(stack) \in Frame /\ Tail(stack) \in Seq(Frame)
  BY TailIndex DEF OpsTypeOK
<1>2. Count(stack', CallsOf(op)) = Count(calls, CallsOf(op)) + Count(Tail(stack), CallsOf(op))
  BY <1>1, CountConcat
<1>3. Count(Tail(stack), CallsOf(op)) = Count(stack, CallsOf(op)) - (IF Head(stack) \in CallsOf(op) THEN 1 ELSE 0)
  BY <1>1, CountTail
<1>4. Head(stack) \in CallsOf(op) <=> This = op
  BY <1>1 DEF CallsOf, This
<1>5. Count(calls, CallsOf(op)) \in Nat /\ Count(stack, CallsOf(op)) \in Nat
  BY <1>1, CountType
<1>6. QED  BY <1>2, <1>3, <1>4, <1>5 DEF InStack

LEMMA StackPops ==
  ASSUME OpsTypeOK, stack # <<>>, stack' = Tail(stack)
  PROVE  \A op \in OpIds : InStack(op)' = InStack(op) - (IF This = op THEN 1 ELSE 0)
<1> TAKE op \in OpIds
<1>1. stack \in Seq(Frame) /\ Head(stack) \in Frame
  BY TailIndex DEF OpsTypeOK
<1>2. Count(stack', CallsOf(op)) = Count(stack, CallsOf(op)) - (IF Head(stack) \in CallsOf(op) THEN 1 ELSE 0)
  BY <1>1, CountTail
<1>3. Head(stack) \in CallsOf(op) <=> This = op
  BY <1>1 DEF CallsOf, This
<1>4. QED  BY <1>2, <1>3 DEF InStack

LEMMA OneCall ==
  ASSUME NEW at \in Places, NEW x \in OpIds
  PROVE  /\ <<Call(at, x)>> \in Seq(Frame)
         /\ \A op \in OpIds : Count(<<Call(at, x)>>, CallsOf(op)) = IF x = op THEN 1 ELSE 0
<1>1. Call(at, x) \in Frame
  BY CallType
<1>2. \A op \in OpIds : Call(at, x) \in CallsOf(op) <=> x = op
  BY <1>1 DEF CallsOf, Call
<1>3. QED  BY <1>1, <1>2, CountSmall

(* The call at the top is replaced by one of an operation.                 *)
LEMMA StackReplaces ==
  ASSUME OpsTypeOK, stack # <<>>, NEW at \in Places, NEW x \in OpIds, stack' = <<Call(at, x)>> \o Tail(stack)
  PROVE  \A op \in OpIds :
           InStack(op)' = InStack(op) - (IF This = op THEN 1 ELSE 0) + (IF x = op THEN 1 ELSE 0)
<1>1. <<Call(at, x)>> \in Seq(Frame)
  BY OneCall
<1>2. \A op \in OpIds :
        InStack(op)' = InStack(op) - (IF This = op THEN 1 ELSE 0) + Count(<<Call(at, x)>>, CallsOf(op))
  BY <1>1, StackMoves
<1>3. QED  BY <1>2, OneCall

(* A task starts with one call on the empty stack.                         *)
LEMMA StackStarts ==
  ASSUME stack = <<>>, NEW at \in Places, NEW x \in OpIds, stack' = <<Call(at, x)>>
  PROVE  \A op \in OpIds : InStack(op) = 0 /\ InStack(op)' = IF x = op THEN 1 ELSE 0
<1>1. \A op \in OpIds : InStack(op) = 0
  BY CountSmall DEF InStack
<1>2. \A op \in OpIds : Count(stack', CallsOf(op)) = IF x = op THEN 1 ELSE 0
  BY OneCall
<1>3. QED  BY <1>1, <1>2 DEF InStack

(* What a step does to the count of an operation's tasks.                  *)
LEMMA TasksPop ==
  ASSUME OpsTypeOK, tasks # <<>>, tasks' = Tail(tasks)
  PROVE  \A op \in OpIds : InTasks(op)' = InTasks(op) - (IF Head(tasks).op = op THEN 1 ELSE 0)
<1> TAKE op \in OpIds
<1>1. tasks \in Seq(Task) /\ Head(tasks) \in Task
  BY NextTaskType DEF OpsTypeOK
<1>2. Count(tasks', TasksOf(op)) = Count(tasks, TasksOf(op)) - (IF Head(tasks) \in TasksOf(op) THEN 1 ELSE 0)
  BY <1>1, CountTail
<1>3. Head(tasks) \in TasksOf(op) <=> Head(tasks).op = op
  BY <1>1 DEF TasksOf
<1>4. QED  BY <1>2, <1>3 DEF InTasks

LEMMA TasksAppend ==
  ASSUME OpsTypeOK, NEW task \in Task, tasks' = Append(tasks, task)
  PROVE  \A op \in OpIds : InTasks(op)' = InTasks(op) + (IF task.op = op THEN 1 ELSE 0)
<1> TAKE op \in OpIds
<1>1. tasks \in Seq(Task)
  BY DEF OpsTypeOK
<1>2. Count(tasks', TasksOf(op)) = Count(tasks, TasksOf(op)) + (IF task \in TasksOf(op) THEN 1 ELSE 0)
  BY <1>1, CountAppend
<1>3. task \in TasksOf(op) <=> task.op = op
  BY DEF TasksOf
<1>4. QED  BY <1>2, <1>3 DEF InTasks

(* An event is no operation's task.                                        *)
LEMMA TasksAppendEvent ==
  ASSUME OpsTypeOK, NEW e \in Events, tasks' = Append(tasks, Event(e))
  PROVE  \A op \in OpIds : InTasks(op)' = InTasks(op)
<1>1. Event(e) \in Task /\ Event(e).op = NoOp
  BY TaskType DEF Event
<1>2. \A op \in OpIds : InTasks(op)' = InTasks(op) + (IF Event(e).op = op THEN 1 ELSE 0)
  BY <1>1, TasksAppend
<1>3. \A op \in OpIds : InTasks(op) \in Nat
  BY CountType DEF InTasks, OpsTypeOK
<1>4. QED  BY <1>1, <1>2, <1>3, NoOpType

LEMMA TasksAppendTwo ==
  ASSUME OpsTypeOK, tasks' = tasks \o <<Event("refused"), Event("dropped")>>
  PROVE  \A op \in OpIds : InTasks(op)' = InTasks(op)
<1> DEFINE two == <<Event("refused"), Event("dropped")>>
<1> TAKE op \in OpIds
<1>1. Event("refused") \in Task /\ Event("dropped") \in Task
  BY TaskType DEF Events
<1>2. two \in Seq(Task) /\ \A i \in DOMAIN two : two[i].op = NoOp
  BY <1>1 DEF Event
<1>3. {i \in DOMAIN two : two[i] \in TasksOf(op)} = {}
  BY <1>2, NoOpType DEF TasksOf
<1>4. Count(two, TasksOf(op)) = 0
  BY <1>3, FS_EmptySet DEF Count
<1>5. tasks \in Seq(Task) /\ tasks' = tasks \o two
  BY DEF OpsTypeOK
<1> HIDE DEF two
<1>6. Count(tasks \o two, TasksOf(op)) = Count(tasks, TasksOf(op)) + Count(two, TasksOf(op))
  BY <1>2, <1>5, CountConcat
<1>7. Count(tasks, TasksOf(op)) \in Nat
  BY <1>5, CountType
<1>8. Count(tasks \o two, TasksOf(op)) = Count(tasks, TasksOf(op))
  BY <1>4, <1>6, <1>7
<1>9. Count(tasks', TasksOf(op)) = Count(tasks \o two, TasksOf(op))
  BY <1>5, Zenon
<1>10. QED  BY <1>8, <1>9 DEF InTasks

-----------------------------------------------------------------------------
(* Most steps move each operation from one place to another, and bring     *)
(* none back to EnsureConnectionStage.                                     *)
Steady   == \A op \in OpIds : HeldAt(op)' = HeldAt(op)
NoReturn == \A op \in OpIds : Entering(op)' => Entering(op)

LEMMA SamePlaces ==
  ASSUME NEW op
  PROVE  /\ tasks' = tasks => InTasks(op)' = InTasks(op)
         /\ stack' = stack => InStack(op)' = InStack(op)
         /\ queue' = queue => InLine(op)' = InLine(op)
         /\ pending' = pending => IsPending(op)' = IsPending(op)
         /\ established' = established => AtManager(op)' = AtManager(op)
BY DEF InTasks, InStack, InLine, IsPending, AtManager

LEMMA NoReturnStep ==
  ASSUME TasksKept,
         \A i \in DOMAIN stack' : stack'[i].at = "ensure" => \E j \in DOMAIN stack : stack'[i] = stack[j]
  PROVE  NoReturn
<1> SUFFICES ASSUME NEW op \in OpIds, Entering(op)' PROVE Entering(op)
  BY DEF NoReturn
<1>1. CASE \E i \in DOMAIN tasks' : tasks'[i].what = "run" /\ tasks'[i].op = op
  <2>1. PICK i \in DOMAIN tasks' : tasks'[i].what = "run" /\ tasks'[i].op = op
    BY <1>1
  <2>2. \E j \in DOMAIN tasks : tasks'[i] = tasks[j]
    BY <2>1 DEF TasksKept
  <2>3. QED  BY <2>1, <2>2 DEF Entering
<1>2. CASE \E i \in DOMAIN stack' : stack'[i].at = "ensure" /\ stack'[i].op = op
  BY <1>2 DEF Entering
<1>3. QED  BY <1>1, <1>2 DEF Entering

LEMMA NoReturnReplace ==
  ASSUME IInv, TasksKept, stack # <<>>, NEW call \in Frame, call.at # "ensure", stack' = <<call>> \o Tail(stack)
  PROVE  NoReturn
<1>1. /\ stack \in Seq(Frame) /\ DOMAIN stack = 1..Len(stack) /\ Len(stack) \in Nat \ {0}
      /\ stack' \in Seq(Frame) /\ Len(stack') = Len(stack) /\ stack'[1] = call
      /\ \A i \in 2..Len(stack) : stack'[i] = stack[i]
  BY StackType, TailIndex, ReplaceIndex DEF IInv, TypeOK, OpsTypeOK
<1>2. \A i \in DOMAIN stack' : i = 1 \/ i \in 2..Len(stack)
  BY <1>1
<1>3. \A i \in 2..Len(stack) : i \in DOMAIN stack
  BY <1>1
<1>4. QED  BY <1>1, <1>2, <1>3, NoReturnStep

LEMMA NoReturnAdvance ==
  ASSUME IInv, TasksKept, stack # <<>>, NEW at \in Places \ {"ensure"}, NEW x \in OpIds,
         stack' = <<Call(at, x)>> \o Tail(stack)
  PROVE  NoReturn
<1>1. Call(at, x) \in Frame /\ Call(at, x).at # "ensure"
  BY CallType DEF Call
<1>2. QED  BY <1>1, NoReturnReplace

LEMMA NoReturnPop ==
  ASSUME IInv, TasksKept, stack # <<>>, stack' = Tail(stack)
  PROVE  NoReturn
<1>1. \A i \in DOMAIN stack' : i + 1 \in DOMAIN stack /\ stack'[i] = stack[i + 1]
  BY Pop DEF IInv, TypeOK
<1>2. QED  BY <1>1, NoReturnStep

LEMMA NoReturnStart ==
  ASSUME TasksKept, stack' = stack \/ \E at \in Places \ {"ensure"}, x \in OpIds : stack' = <<Call(at, x)>>
  PROVE  NoReturn
<1>1. CASE stack' = stack
  BY <1>1, NoReturnStep
<1>2. CASE \E at \in Places \ {"ensure"}, x \in OpIds : stack' = <<Call(at, x)>>
  <2>1. \A i \in DOMAIN stack' : stack'[i].at # "ensure"
    BY <1>2 DEF Call
  <2>2. QED  BY <2>1, NoReturnStep
<1>3. QED  BY <1>1, <1>2

-----------------------------------------------------------------------------
(* The stage that serializes: an operation moves on, or into the queue.    *)
LEMMA AdvanceSteady ==
  ASSUME IInv, IInv', stack # <<>>, UNCHANGED <<tasks, queue, pending, established>>,
         NEW at \in Places, stack' = <<Call(at, This)>> \o Tail(stack)
  PROVE  Steady
<1>1. This \in OpIds /\ OpsTypeOK
  BY ThisType DEF IInv, TypeOK
<1>2. \A op \in OpIds : InStack(op)' = InStack(op) - (IF This = op THEN 1 ELSE 0) + (IF This = op THEN 1 ELSE 0)
  BY <1>1, StackReplaces
<1>3. PlacesAdd /\ PlacesAdd'
  BY PlacesAddUp, PlacesAddUpNext
<1>4. ASSUME NEW op \in OpIds PROVE HeldAt(op)' = HeldAt(op)
  <2>1. InStack(op)' = InStack(op)
    BY <1>2, <1>3 DEF PlacesAdd
  <2>2. QED  BY <1>3, <2>1, SamePlaces DEF PlacesAdd
<1>5. QED  BY <1>4 DEF Steady

LEMMA SerializeSteady ==
  ASSUME IInv, IInv', QueueOp \/ CompleteEarly \/ Block \/ PassOp, UNCHANGED transportVars
  PROVE  Steady /\ NoReturn
<1> USE DEF transportVars, serializeVars, Return, Replace
<1>1. stack # <<>> /\ This \in OpIds /\ OpsTypeOK
  BY ThisType DEF IInv, TypeOK, QueueOp, CompleteEarly, Block, PassOp, At
<1>2. TasksKept
  <2>1. tasks' = tasks
    BY DEF QueueOp, CompleteEarly, Block, PassOp
  <2>2. QED  BY <1>1, <2>1, TasksStep DEF IInv
<1>3. CASE QueueOp
  <2>1. stack' = Tail(stack) /\ queue' = Append(queue, This) /\ queue \in Seq(OpIds)
        /\ UNCHANGED <<tasks, pending, established>>
    BY <1>3 DEF QueueOp, IInv, TypeOK, SerializeTypeOK
  <2>2. PlacesAdd /\ PlacesAdd'
    BY PlacesAddUp, PlacesAddUpNext
  <2>3. \A op \in OpIds : InLine(op)' = InLine(op) + (IF This = op THEN 1 ELSE 0)
    <3>1. ASSUME NEW op \in OpIds PROVE InLine(op)' = InLine(op) + (IF This = op THEN 1 ELSE 0)
      <4>1. Count(queue', {op}) = Count(queue, {op}) + (IF This \in {op} THEN 1 ELSE 0)
        BY <1>1, <2>1, CountAppend
      <4>2. QED  BY <4>1 DEF InLine
    <3>2. QED  BY <3>1
  <2>4. \A op \in OpIds : InStack(op)' = InStack(op) - (IF This = op THEN 1 ELSE 0)
    BY <1>1, <2>1, StackPops
  <2>5. ASSUME NEW op \in OpIds PROVE HeldAt(op)' = HeldAt(op)
    <3>1. InStack(op)' + InLine(op)' = InStack(op) + InLine(op)
      BY <2>2, <2>3, <2>4 DEF PlacesAdd
    <3>2. InTasks(op)' = InTasks(op) /\ IsPending(op)' = IsPending(op) /\ AtManager(op)' = AtManager(op)
      BY <2>1, SamePlaces
    <3>3. IsPending(op) \in Nat /\ AtManager(op) \in Nat
      BY DEF IsPending, AtManager
    <3>4. QED  BY <2>2, <3>1, <3>2, <3>3 DEF PlacesAdd
  <2>6. NoReturn
    BY <1>1, <1>2, <2>1, NoReturnPop
  <2>7. QED  BY <2>5, <2>6 DEF Steady
<1>4. ASSUME NEW at \in Places \ {"ensure"}, stack' = <<Call(at, This)>> \o Tail(stack),
             UNCHANGED <<tasks, queue, pending, established>>
      PROVE  Steady /\ NoReturn
  BY <1>1, <1>2, <1>4, AdvanceSteady, NoReturnAdvance
<1>5. CASE CompleteEarly
  BY <1>4, <1>5 DEF CompleteEarly, Places
<1>6. CASE Block \/ PassOp
  <2>1. PICK place \in {"transport", "complete"} : PassTo("transport", This) = Call(place, This)
    BY PassToAt
  <2>2. stack' = <<Call(place, This)>> \o Tail(stack) /\ UNCHANGED <<tasks, queue, pending, established>>
    BY <1>6, <2>1 DEF Block, PassOp
  <2>3. QED  BY <1>4, <2>2 DEF Places
<1>7. QED  BY <1>3, <1>5, <1>6

(* on_operation_complete: what was in the queue is called.                 *)
LEMMA ReleaseCount ==
  ASSUME SerializeTypeOK, NEW at \in Places
  PROVE  /\ Release(at) \in Seq(Frame)
         /\ \A op \in OpIds : Count(Release(at), CallsOf(op)) = Count(queue, {op})
<1>1. /\ Release(at) \in Seq(Frame) /\ Len(Release(at)) = Len(queue)
      /\ \A i \in 1..Len(queue) : Release(at)[i] = Call(at, queue[i])
  BY ReleaseType
<1>2. DOMAIN Release(at) = 1..Len(queue) /\ DOMAIN queue = 1..Len(queue)
  BY <1>1 DEF SerializeTypeOK
<1>3. ASSUME NEW op \in OpIds
      PROVE  Count(Release(at), CallsOf(op)) = Count(queue, {op})
  <2>1. \A i \in 1..Len(queue) : Release(at)[i] \in Frame /\ Release(at)[i].op = queue[i]
    BY <1>1, <1>2 DEF Call
  <2>2. \A i \in 1..Len(queue) : Release(at)[i] \in CallsOf(op) <=> queue[i] \in {op}
    BY <2>1 DEF CallsOf
  <2>3. {i \in DOMAIN Release(at) : Release(at)[i] \in CallsOf(op)} = {i \in DOMAIN queue : queue[i] \in {op}}
    BY <1>2, <2>2
  <2>4. QED  BY <2>3, Zenon DEF Count
<1>4. QED  BY <1>1, <1>3

LEMMA OnOperationCompleteSteady ==
  ASSUME IInv, IInv', At("complete"), OnOperationComplete, UNCHANGED transportVars
  PROVE  Steady /\ NoReturn
<1>1. /\ stack # <<>> /\ This \in OpIds /\ OpsTypeOK /\ SerializeTypeOK /\ Tail(stack) \in Seq(Frame)
      /\ queue' = <<>> /\ UNCHANGED <<tasks, pending, established>>
  BY ThisType DEF IInv, TypeOK, At, OnOperationComplete, transportVars
<1>2. PICK at \in {"serialize", "complete"} :
        stack' = (Release(at) \o <<Call("complete", This)>>) \o Tail(stack)
  BY DEF OnOperationComplete, Replace
<1>3. /\ Release(at) \in Seq(Frame) /\ <<Call("complete", This)>> \in Seq(Frame)
      /\ \A op \in OpIds : Count(Release(at), CallsOf(op)) = Count(queue, {op})
      /\ \A op \in OpIds : Count(<<Call("complete", This)>>, CallsOf(op)) = IF This = op THEN 1 ELSE 0
  BY <1>1, ReleaseCount, OneCall DEF Places
<1> DEFINE released == Release(at)
           last == <<Call("complete", This)>>
<1> HIDE DEF released, last
<1>4. /\ released \in Seq(Frame) /\ last \in Seq(Frame) /\ released \o last \in Seq(Frame)
      /\ stack' = (released \o last) \o Tail(stack)
  <2>1. released \in Seq(Frame) /\ last \in Seq(Frame) /\ stack' = (released \o last) \o Tail(stack)
    BY <1>2, <1>3 DEF released, last
  <2>2. QED  BY <2>1, ConcatProperties
<1>5. PlacesAdd /\ PlacesAdd'
  BY PlacesAddUp, PlacesAddUpNext
<1>6. ASSUME NEW op \in OpIds PROVE HeldAt(op)' = HeldAt(op)
  <2>1. InStack(op)' = InStack(op) - (IF This = op THEN 1 ELSE 0) + Count(released \o last, CallsOf(op))
    BY <1>1, <1>4, StackMoves
  <2>2. Count(released \o last, CallsOf(op)) = Count(released, CallsOf(op)) + Count(last, CallsOf(op))
    BY <1>4, CountConcat
  <2>3. Count(released, CallsOf(op)) = InLine(op) /\ Count(last, CallsOf(op)) = IF This = op THEN 1 ELSE 0
    BY <1>3 DEF released, last, InLine
  <2>4. InLine(op)' = 0
    BY <1>1, CountSmall DEF InLine
  <2>5. InStack(op)' + InLine(op)' = InStack(op) + InLine(op)
    BY <1>5, <2>1, <2>2, <2>3, <2>4 DEF PlacesAdd
  <2>6. InTasks(op)' = InTasks(op) /\ IsPending(op)' = IsPending(op) /\ AtManager(op)' = AtManager(op)
    BY <1>1, SamePlaces
  <2>7. IsPending(op) \in Nat /\ AtManager(op) \in Nat
    BY DEF IsPending, AtManager
  <2>8. QED  BY <1>5, <2>5, <2>6, <2>7 DEF PlacesAdd
<1>7. NoReturn
  <2>1. TasksKept
    BY <1>1, TasksStep DEF IInv
  <2>2. \A i \in DOMAIN stack' : stack'[i].at = "ensure" => \E j \in DOMAIN stack : stack'[i] = stack[j]
    BY <1>1, <1>2, ReleasedStack
  <2>3. QED  BY <2>1, <2>2, NoReturnStep
<1>8. QED  BY <1>6, <1>7 DEF Steady

-----------------------------------------------------------------------------
(* The transport.  A connection operation finds no other one pending, and  *)
(* an operation that is established was not established before.            *)
LEMMA PendSteady ==
  ASSUME IInv, IInv', stack # <<>>, stack' = Tail(stack), pending = NoOp, pending' = This,
         UNCHANGED <<queue, established>>,
         tasks' = tasks \/ \E e \in Events : tasks' = Append(tasks, Event(e))
  PROVE  Steady
<1>1. This \in OpIds /\ OpsTypeOK
  BY ThisType DEF IInv, TypeOK
<1>2. PlacesAdd /\ PlacesAdd'
  BY PlacesAddUp, PlacesAddUpNext
<1>3. ASSUME NEW op \in OpIds PROVE HeldAt(op)' = HeldAt(op)
  <2>1. InStack(op)' = InStack(op) - (IF This = op THEN 1 ELSE 0)
    BY <1>1, StackPops
  <2>2. IsPending(op)' = (IF This = op THEN 1 ELSE 0) /\ IsPending(op) = 0
    BY <1>1, NoOpType DEF IsPending
  <2>3. InTasks(op)' = InTasks(op)
    BY <1>1, TasksAppendEvent, SamePlaces
  <2>4. InLine(op)' = InLine(op) /\ AtManager(op)' = AtManager(op) /\ AtManager(op) \in Nat
    BY SamePlaces DEF AtManager
  <2>5. QED  BY <1>2, <2>1, <2>2, <2>3, <2>4 DEF PlacesAdd
<1>4. QED  BY <1>3 DEF Steady

LEMMA EstablishSteady ==
  ASSUME IInv, IInv', HeldOnce, Establish, This \notin unknown, UNCHANGED serializeVars
  PROVE  Steady
<1>1. /\ stack # <<>> /\ This \in OpIds /\ OpsTypeOK /\ stack' = Tail(stack)
      /\ established' = established \union {This}
      /\ UNCHANGED <<tasks, queue, pending>>
  BY ThisType DEF IInv, TypeOK, Establish, At, Return, serializeVars
<1>2. PlacesAdd /\ PlacesAdd'
  BY PlacesAddUp, PlacesAddUpNext
<1>3. \A op \in OpIds : InStack(op)' = InStack(op) - (IF This = op THEN 1 ELSE 0)
  BY <1>1, StackPops
<1>4. \A op \in OpIds : IsPending(op) \in Nat /\ AtManager(op) \in Nat
  BY DEF IsPending, AtManager
<1>5. \A op \in OpIds : HeldAt(op) \in Nat
  BY <1>2, <1>4 DEF PlacesAdd
<1>6. HeldAt(This) <= 1
  <2>1. PICK o \in UserOps : This = User(o) \/ This = AutoConnect(o)
    BY <1>1, OpIdsType
  <2>2. HeldAt(User(o)) \in Nat /\ HeldAt(AutoConnect(o)) \in Nat
    BY <1>5, OpIdsType
  <2>3. HeldAt(User(o)) + HeldAt(AutoConnect(o)) <= 1
    BY DEF HeldOnce
  <2>4. QED  BY <2>1, <2>2, <2>3
<1>7. This \notin established
  <2>1. InStack(This) >= 1
    BY <1>1, <1>2, <1>3 DEF PlacesAdd
  <2>2. This \in established => AtManager(This) = 1
    BY DEF AtManager
  <2>3. This \in established => HeldAt(This) >= 2
    BY <1>1, <1>2, <1>4, <2>1, <2>2 DEF PlacesAdd
  <2>4. QED  BY <1>1, <1>5, <1>6, <2>3
<1>8. ASSUME NEW op \in OpIds PROVE HeldAt(op)' = HeldAt(op)
  <2>1. AtManager(op)' = AtManager(op) + (IF This = op THEN 1 ELSE 0)
    BY <1>1, <1>7 DEF AtManager
  <2>2. InTasks(op)' = InTasks(op) /\ InLine(op)' = InLine(op) /\ IsPending(op)' = IsPending(op)
    BY <1>1, SamePlaces
  <2>3. QED  BY <1>2, <1>3, <1>4, <2>1, <2>2 DEF PlacesAdd
<1>9. QED  BY <1>8 DEF Steady

LEMMA TransportSteady ==
  ASSUME IInv, IInv', HeldOnce, TransportOps, UNCHANGED serializeVars
  PROVE  Steady /\ NoReturn
<1> USE DEF serializeVars, transportVars, managerVars, pahoVars, Raise, Replace, Return
<1>1. stack # <<>> /\ OpsTypeOK
  BY DEF TransportOps, CancelPending, Connect, ConnectRaises, Disconnect, DisconnectInline, DisconnectRaises,
    SendRaises, Send, Establish, At, AtTransport, IInv, TypeOK
<1>2. /\ This \in OpIds /\ ~At("cancelled")
      /\ At("transport") /\ IsConnectionOp(This) => This \in wrapped /\ pending = NoOp
      /\ AtTransport(ConnectKinds) => At("transport") /\ IsConnectionOp(This)
      /\ AtTransport({"disconnect"}) => At("transport") /\ IsConnectionOp(This)
  BY <1>1, AtTransportFacts DEF ConnectionKinds
<1>3. ASSUME NEW at \in Places \ {"ensure"}, stack' = <<Call(at, This)>> \o Tail(stack),
             UNCHANGED <<tasks, pending, established>>
      PROVE  Steady /\ NoReturn
  <2>1. TasksKept
    BY <1>1, <1>3, TasksStep DEF IInv
  <2>2. QED  BY <1>1, <1>2, <1>3, <2>1, AdvanceSteady, NoReturnAdvance
<1>4. ASSUME stack' = Tail(stack), tasks' = tasks \/ \E e \in Events : tasks' = Append(tasks, Event(e))
      PROVE  NoReturn
  <2>1. TasksKept
    BY <1>1, <1>4, TasksStep DEF IInv
  <2>2. QED  BY <1>1, <1>4, <2>1, NoReturnPop
<1>5. CASE CancelPending
  BY <1>2, <1>5 DEF CancelPending
<1>6. CASE Connect
  <2>1. stack' = Tail(stack) /\ pending = NoOp /\ pending' = This /\ UNCHANGED <<tasks, established>>
    BY <1>2, <1>6 DEF Connect
  <2>2. QED  BY <1>1, <1>4, <2>1, PendSteady
<1>7. CASE Disconnect
  <2>1. /\ stack' = Tail(stack) /\ pending = NoOp /\ pending' = This /\ UNCHANGED established
        /\ \E e \in Events : tasks' = Append(tasks, Event(e))
    BY <1>2, <1>7 DEF Disconnect, Events
  <2>2. QED  BY <1>1, <1>4, <2>1, PendSteady
<1>8. CASE ConnectRaises
  BY <1>2, <1>3, <1>8 DEF ConnectRaises, Places
<1>9. CASE DisconnectInline
  BY <1>2, <1>3, <1>9 DEF DisconnectInline, Places
<1>10. CASE DisconnectRaises
  BY <1>2, <1>3, <1>10 DEF DisconnectRaises, Places
<1>11. CASE SendRaises
  BY <1>3, <1>11 DEF SendRaises, Places
<1>12. CASE Send
  BY <1>3, <1>12 DEF Send, Places
<1>13. CASE Establish
  <2>1. CASE This \in unknown
    BY <1>3, <1>13, <2>1 DEF Establish, Places
  <2>2. CASE This \notin unknown
    BY <1>4, <1>13, <2>2, EstablishSteady DEF Establish
  <2>3. QED  BY <2>1, <2>2
<1>14. QED
  BY <1>5, <1>6, <1>7, <1>8, <1>9, <1>10, <1>11, <1>12, <1>13 DEF TransportOps

(* The library: an acknowledgement moves an operation into a task.         *)
LEMMA TasksSteady ==
  ASSUME IInv, IInv', TasksKept, UNCHANGED <<stack, queue, pending, established>>,
         \A op \in OpIds : InTasks(op)' = InTasks(op)
  PROVE  Steady /\ NoReturn
<1>1. PlacesAdd /\ PlacesAdd'
  BY PlacesAddUp, PlacesAddUpNext
<1>2. ASSUME NEW op \in OpIds PROVE HeldAt(op)' = HeldAt(op)
  BY <1>1, SamePlaces DEF PlacesAdd
<1>3. NoReturn
  BY NoReturnStart
<1>4. QED  BY <1>2, <1>3 DEF Steady

LEMMA AckSteady ==
  ASSUME IInv, IInv', UNCHANGED <<stack, queue, pending>>, NEW op \in established,
         established' = established \ {op}, tasks' = Append(tasks, AckTask(op))
  PROVE  Steady /\ NoReturn
<1>1. op \in OpIds /\ OpsTypeOK /\ NeedsConnection(op)
  BY DEF IInv, TypeOK, TransportTypeOK, KindsInPlace
<1>2. AckTask(op) \in Task /\ AckTask(op).op = op
  BY <1>1, TaskType DEF AckTask
<1>3. PlacesAdd /\ PlacesAdd'
  BY PlacesAddUp, PlacesAddUpNext
<1>4. ASSUME NEW x \in OpIds PROVE HeldAt(x)' = HeldAt(x)
  <2>1. InTasks(x)' = InTasks(x) + (IF op = x THEN 1 ELSE 0)
    BY <1>1, <1>2, TasksAppend
  <2>2. AtManager(x)' = AtManager(x) - (IF op = x THEN 1 ELSE 0) /\ AtManager(x) \in Nat
    BY DEF AtManager
  <2>3. InStack(x)' = InStack(x) /\ InLine(x)' = InLine(x) /\ IsPending(x)' = IsPending(x)
    BY SamePlaces
  <2>4. IsPending(x) \in Nat
    BY DEF IsPending
  <2>5. CASE op = x
    <3>1. InTasks(x)' = InTasks(x) + 1 /\ AtManager(x) = 1 /\ AtManager(x)' = 0
      BY <2>1, <2>5 DEF AtManager
    <3>2. QED  BY <1>3, <2>3, <2>4, <3>1 DEF PlacesAdd
  <2>6. CASE op # x
    <3>1. InTasks(x)' = InTasks(x) /\ AtManager(x)' = AtManager(x)
      BY <1>3, <2>1, <2>6 DEF AtManager, PlacesAdd
    <3>2. QED  BY <1>3, <2>3, <3>1 DEF PlacesAdd
  <2>7. QED  BY <2>5, <2>6
<1>5. NoReturn
  <2>1. TasksKept
    BY <1>1, TasksStep DEF IInv
  <2>2. QED  BY <2>1, NoReturnStart
<1>6. QED  BY <1>4, <1>5 DEF Steady

LEMMA LibrarySteady ==
  ASSUME IInv, IInv', Library, UNCHANGED serializeVars
  PROVE  Steady /\ NoReturn
<1> USE DEF serializeVars, managerVars, pahoVars, opVars
<1>1. OpsTypeOK /\ RunOnce
  BY DEF IInv, TypeOK
<1>2. ASSUME NEW e \in Events, tasks' = Append(tasks, Event(e)), UNCHANGED <<stack, queue, pending, established>>
      PROVE  Steady /\ NoReturn
  <2>1. TasksKept
    BY <1>1, <1>2, TasksStep
  <2>2. QED  BY <1>1, <1>2, <2>1, TasksAppendEvent, TasksSteady
<1>3. ASSUME tasks' = tasks, UNCHANGED <<stack, queue, pending, established>>
      PROVE  Steady /\ NoReturn
  <2>1. TasksKept
    BY <1>1, <1>3, TasksStep
  <2>2. QED  BY <1>3, <2>1, SamePlaces, TasksSteady
<1>4. CASE Connack
  BY <1>2, <1>4 DEF Connack, Events
<1>5. CASE Refuse
  <2>1. tasks' = tasks \o <<Event("refused"), Event("dropped")>> /\ UNCHANGED <<stack, queue, pending, established>>
    BY <1>5 DEF Refuse
  <2>2. TasksKept
    BY <1>1, <2>1, TasksStep
  <2>3. QED  BY <1>1, <2>1, <2>2, TasksAppendTwo, TasksSteady
<1>6. CASE Drop
  BY <1>2, <1>6 DEF Drop, Events
<1>7. CASE AutoReconnect
  BY <1>3, <1>7 DEF AutoReconnect
<1>8. CASE Ack
  <2>1. UNCHANGED <<stack, queue, pending>>
    BY <1>8 DEF Ack
  <2>2. \/ \E op \in established : established' = established \ {op} /\ tasks' = Append(tasks, AckTask(op))
        \/ UNCHANGED <<established, tasks>>
    BY <1>8 DEF Ack
  <2>3. QED  BY <1>3, <2>1, <2>2, AckSteady
<1>9. QED  BY <1>4, <1>5, <1>6, <1>7, <1>8 DEF Library

(* An event handler: the pending operation is completed, or nothing is.    *)
LEMMA EventsSteady ==
  ASSUME IInv, IInv', EventHandlers, UNCHANGED serializeVars
  PROVE  Steady /\ NoReturn
<1> USE DEF serializeVars, managerVars, pahoVars, transportVars
<1>1. OpsTypeOK /\ RunOnce /\ PlacesAdd /\ PlacesAdd'
  BY PlacesAddUp, PlacesAddUpNext DEF IInv, TypeOK
<1>2. stack = <<>> /\ tasks # <<>> /\ tasks' = Tail(tasks) /\ UNCHANGED <<queue, established>>
  BY DEF EventHandlers, OnMqttConnected, OnMqttConnectionFailure, OnMqttDisconnected, OnAcked, Starts
<1>3. \A op \in OpIds : InTasks(op)' = InTasks(op) - (IF Head(tasks).op = op THEN 1 ELSE 0)
  BY <1>1, <1>2, TasksPop
<1>4. TasksKept
  BY <1>1, <1>2, TasksStep
<1>5. CASE OnAcked
  <2>1. Head(tasks).op \in OpIds /\ stack' = <<Call("complete", Head(tasks).op)>> /\ pending' = pending
    BY <1>1, <1>2, <1>5, NextTaskType DEF OnAcked, Starts
  <2>2. \A op \in OpIds : InStack(op) = 0 /\ InStack(op)' = IF Head(tasks).op = op THEN 1 ELSE 0
    BY <1>2, <2>1, StackStarts DEF Places
  <2>3. ASSUME NEW op \in OpIds PROVE HeldAt(op)' = HeldAt(op)
    <3>1. InLine(op)' = InLine(op) /\ AtManager(op)' = AtManager(op) /\ IsPending(op)' = IsPending(op)
      BY <1>2, <2>1, SamePlaces
    <3>2. IsPending(op) \in Nat /\ AtManager(op) \in Nat
      BY DEF IsPending, AtManager
    <3>3. QED  BY <1>1, <1>3, <2>2, <3>1, <3>2 DEF PlacesAdd
  <2>4. NoReturn
    BY <1>4, <2>1, NoReturnStart DEF Places
  <2>5. QED  BY <2>3, <2>4 DEF Steady
<1>6. CASE OnMqttConnected \/ OnMqttConnectionFailure \/ OnMqttDisconnected
  <2>1. Head(tasks).op = NoOp
    <3>1. Head(tasks) \in Task /\ Head(tasks).what \in {"connected", "refused", "disconnected", "dropped"}
      BY <1>1, <1>2, <1>6, NextTaskType
         DEF OnMqttConnected, OnMqttConnectionFailure, OnMqttDisconnected, Starts
    <3>2. QED  BY <3>1 DEF Task, Events
  <2>2. \A op \in OpIds : InTasks(op)' = InTasks(op)
    BY <1>1, <1>3, <2>1, NoOpType DEF PlacesAdd
  <2>3. CASE UNCHANGED <<pending, stack>>
    BY <1>2, <1>4, <2>2, <2>3, TasksSteady
  <2>4. CASE pending # NoOp /\ CompletePending
    <3>1. pending \in OpIds /\ stack' = <<Call("complete", pending)>> /\ pending' = NoOp
      BY <2>4 DEF CompletePending, IInv, TypeOK, TransportTypeOK
    <3>2. \A op \in OpIds : InStack(op) = 0 /\ InStack(op)' = IF pending = op THEN 1 ELSE 0
      BY <1>2, <3>1, StackStarts DEF Places
    <3>3. ASSUME NEW op \in OpIds PROVE HeldAt(op)' = HeldAt(op)
      <4>1. InLine(op)' = InLine(op) /\ AtManager(op)' = AtManager(op) /\ AtManager(op) \in Nat
        BY <1>2, SamePlaces DEF AtManager
      <4>2. IsPending(op)' = 0 /\ IsPending(op) = IF pending = op THEN 1 ELSE 0
        BY <3>1, NoOpType DEF IsPending
      <4>3. QED  BY <1>1, <2>2, <3>2, <4>1, <4>2 DEF PlacesAdd
    <3>4. NoReturn
      BY <1>4, <3>1, NoReturnStart DEF Places
    <3>5. QED  BY <3>3, <3>4 DEF Steady
  <2>5. QED  BY <1>6, <2>3, <2>4 DEF OnMqttConnected, OnMqttConnectionFailure, OnMqttDisconnected, PendingIs
<1>7. QED  BY <1>5, <1>6 DEF EventHandlers

-----------------------------------------------------------------------------
(* The steps of EnsureConnectionStage, where an operation and the          *)
(* ConnectOperation made for it change places.                             *)
LEMMA StartSteady ==
  ASSUME IInv, IInv', StartOp, UNCHANGED <<serializeVars, transportVars>>
  PROVE  Steady /\ NoReturn
<1>1. OpsTypeOK /\ RunOnce /\ PlacesAdd /\ PlacesAdd'
  BY PlacesAddUp, PlacesAddUpNext DEF IInv, TypeOK
<1>2. /\ stack = <<>> /\ tasks # <<>> /\ tasks' = Tail(tasks) /\ UNCHANGED <<queue, established, pending>>
      /\ Head(tasks).what = "run" /\ stack' = <<Call("ensure", Head(tasks).op)>>
  BY DEF StartOp, Starts, serializeVars, transportVars
<1>3. Head(tasks).op \in OpIds /\ 1 \in DOMAIN tasks /\ Head(tasks) = tasks[1]
  <2>1. Head(tasks).op \in OpIds
    BY <1>1, <1>2, NextTaskType
  <2>2. Head(tasks) = tasks[1] /\ Len(tasks) \in Nat \ {0} /\ tasks \in Seq(Task)
    BY <1>1, <1>2, TailIndex DEF OpsTypeOK
  <2>3. QED  BY <2>1, <2>2
<1>4. \A op \in OpIds : InTasks(op)' = InTasks(op) - (IF Head(tasks).op = op THEN 1 ELSE 0)
  BY <1>1, <1>2, TasksPop
<1>5. \A op \in OpIds : InStack(op) = 0 /\ InStack(op)' = IF Head(tasks).op = op THEN 1 ELSE 0
  BY <1>2, <1>3, StackStarts DEF Places
<1>6. ASSUME NEW op \in OpIds PROVE HeldAt(op)' = HeldAt(op)
  <2>1. InLine(op)' = InLine(op) /\ AtManager(op)' = AtManager(op) /\ IsPending(op)' = IsPending(op)
    BY <1>2, SamePlaces
  <2>2. IsPending(op) \in Nat /\ AtManager(op) \in Nat
    BY DEF IsPending, AtManager
  <2>3. QED  BY <1>1, <1>4, <1>5, <2>1, <2>2 DEF PlacesAdd
<1>7. ASSUME NEW op \in OpIds, Entering(op)' PROVE Entering(op)
  <2>1. CASE \E i \in DOMAIN tasks' : tasks'[i].what = "run" /\ tasks'[i].op = op
    <3>1. TasksKept
      BY <1>1, <1>2, TasksStep
    <3>2. PICK i \in DOMAIN tasks' : tasks'[i].what = "run" /\ tasks'[i].op = op
      BY <2>1
    <3>3. \E j \in DOMAIN tasks : tasks'[i] = tasks[j]
      BY <3>1, <3>2 DEF TasksKept
    <3>4. QED  BY <3>2, <3>3 DEF Entering
  <2>2. CASE \E i \in DOMAIN stack' : stack'[i].at = "ensure" /\ stack'[i].op = op
    <3>1. op = Head(tasks).op
      BY <1>2, <2>2 DEF Call
    <3>2. QED  BY <1>2, <1>3, <3>1 DEF Entering
  <2>3. QED  BY <1>7, <2>1, <2>2 DEF Entering
<1>8. QED  BY <1>6, <1>7 DEF Steady, NoReturn

(* The operation at the top of the stack gives its place to another one.   *)
LEMMA Exchanged ==
  ASSUME IInv, IInv', stack # <<>>, UNCHANGED <<tasks, queue, pending, established>>,
         NEW at \in Places \ {"ensure"}, NEW y, This = y, NEW x \in OpIds, x # y,
         stack' = <<Call(at, x)>> \o Tail(stack)
  PROVE  /\ HeldAt(y)' = HeldAt(y) - 1 /\ HeldAt(x)' = HeldAt(x) + 1
         /\ \A op \in OpIds \ {y, x} : HeldAt(op)' = HeldAt(op)
         /\ NoReturn
<1>1. y \in OpIds /\ OpsTypeOK
  BY ThisType DEF IInv, TypeOK
<1>2. PlacesAdd /\ PlacesAdd'
  BY PlacesAddUp, PlacesAddUpNext
<1>3. \A op \in OpIds : InStack(op)' = InStack(op) - (IF y = op THEN 1 ELSE 0) + (IF x = op THEN 1 ELSE 0)
  BY <1>1, StackReplaces
<1>4. ASSUME NEW op \in OpIds
      PROVE  \E n \in Nat : HeldAt(op) = InStack(op) + n /\ HeldAt(op)' = InStack(op)' + n
  <2>1. /\ InTasks(op)' = InTasks(op) /\ InLine(op)' = InLine(op)
        /\ AtManager(op)' = AtManager(op) /\ IsPending(op)' = IsPending(op)
    BY SamePlaces
  <2>2. IsPending(op) \in Nat /\ AtManager(op) \in Nat
    BY DEF IsPending, AtManager
  <2>3. /\ HeldAt(op) = InTasks(op) + InStack(op) + InLine(op) + IsPending(op) + AtManager(op)
        /\ HeldAt(op)' = InTasks(op) + InStack(op)' + InLine(op) + IsPending(op) + AtManager(op)
        /\ InTasks(op) \in Nat /\ InStack(op) \in Nat /\ InLine(op) \in Nat /\ InStack(op)' \in Nat
    BY <1>2, <2>1 DEF PlacesAdd
  <2>4. PICK a \in Nat, b \in Nat, c \in Nat, d \in Nat :
          InTasks(op) = a /\ InLine(op) = b /\ IsPending(op) = c /\ AtManager(op) = d
    BY <2>2, <2>3
  <2>5. PICK m \in Nat, n \in Nat : InStack(op) = m /\ InStack(op)' = n
    BY <2>3
  <2>6. HeldAt(op) = a + m + b + c + d /\ HeldAt(op)' = a + n + b + c + d
    BY <2>3, <2>4, <2>5
  <2>7. a + b + c + d \in Nat /\ a + m + b + c + d = m + (a + b + c + d) /\ a + n + b + c + d = n + (a + b + c + d)
    OBVIOUS
  <2>8. HeldAt(op) = InStack(op) + (a + b + c + d) /\ HeldAt(op)' = InStack(op)' + (a + b + c + d)
    BY <2>5, <2>6, <2>7
  <2>9. QED  BY <2>7, <2>8
<1>5. \A op \in OpIds : InStack(op) \in Nat
  BY <1>2 DEF PlacesAdd
<1>6. HeldAt(y)' = HeldAt(y) - 1
  <2>1. InStack(y)' = InStack(y) - 1
    BY <1>1, <1>3, <1>5
  <2>2. QED  BY <1>1, <1>4, <1>5, <2>1
<1>7. HeldAt(x)' = HeldAt(x) + 1
  <2>1. InStack(x)' = InStack(x) + 1
    BY <1>3, <1>5
  <2>2. QED  BY <1>4, <1>5, <2>1
<1>8. ASSUME NEW op \in OpIds \ {y, x} PROVE HeldAt(op)' = HeldAt(op)
  <2>1. InStack(op)' = InStack(op)
    BY <1>3, <1>5
  <2>2. QED  BY <1>4, <1>5, <2>1
<1>9. NoReturn
  <2>1. TasksKept
    BY <1>1, TasksStep DEF IInv
  <2>2. QED  BY <2>1, NoReturnAdvance
<1>10. QED  BY <1>6, <1>7, <1>8, <1>9

(* An operation is counted where it is found.                              *)
LEMMA CountFound ==
  ASSUME NEW S, NEW s \in Seq(S), NEW T, NEW i \in DOMAIN s, s[i] \in T
  PROVE  Count(s, T) >= 1
<1>1. IsFiniteSet({j \in DOMAIN s : s[j] \in T}) /\ Count(s, T) \in Nat
  BY CountType
<1>2. {j \in DOMAIN s : s[j] \in T} # {}
  OBVIOUS
<1>3. Count(s, T) # 0
  BY <1>1, <1>2, FS_EmptySet DEF Count
<1>4. QED  BY <1>1, <1>3

LEMMA HeldType ==
  ASSUME IInv, NEW op \in OpIds
  PROVE  /\ HeldAt(op) \in Nat
         /\ OnStack(op) => HeldAt(op) >= 1
         /\ Entering(op) => HeldAt(op) >= 1
<1>1. PlacesAdd
  BY PlacesAddUp
<1>2. IsPending(op) \in Nat /\ AtManager(op) \in Nat
  BY DEF IsPending, AtManager
<1>3. tasks \in Seq(Task) /\ stack \in Seq(Frame)
  BY DEF IInv, TypeOK, OpsTypeOK
<1>4. HeldAt(op) \in Nat
  BY <1>1, <1>2 DEF PlacesAdd
<1>5. InTasks(op) >= 1 \/ InStack(op) >= 1 => HeldAt(op) >= 1
  BY <1>1, <1>2 DEF PlacesAdd
<1>6. ASSUME NEW i \in DOMAIN stack, stack[i].op = op
      PROVE  InStack(op) >= 1
  <2>1. stack[i] \in CallsOf(op)
    BY <1>3, <1>6 DEF CallsOf
  <2>2. QED  BY <1>3, <2>1, CountFound DEF InStack
<1>7. ASSUME NEW i \in DOMAIN tasks, tasks[i].op = op
      PROVE  InTasks(op) >= 1
  <2>1. tasks[i] \in TasksOf(op)
    BY <1>3, <1>7 DEF TasksOf
  <2>2. QED  BY <1>3, <2>1, CountFound DEF InTasks
<1>8. QED  BY <1>4, <1>5, <1>6, <1>7 DEF Entering, OnStack

-----------------------------------------------------------------------------
(* HeldInv, step by step.                                                  *)
LEMMA HeldKept ==
  ASSUME HeldInv, Steady, NoReturn, kind' = kind, outcome' = outcome
  PROVE  HeldInv'
<1>1. HeldOnce'
  BY OpIdsType DEF HeldInv, HeldOnce, Steady
<1>2. \A o \in UserOps : kind'[o] = "none" => outcome'[User(o)] = "none"
  BY DEF HeldInv
<1>3. AutoOnce'
  BY OpIdsType DEF HeldInv, AutoOnce, Steady, NoReturn
<1>4. QED  BY <1>1, <1>2, <1>3 DEF HeldInv, User

LEMMA EnsureHeld ==
  ASSUME IInv, IInv', HeldInv, EnsureConnection, UNCHANGED <<serializeVars, transportVars>>
  PROVE  HeldInv'
<1>1. /\ stack # <<>> /\ This \in OpIds /\ OpsTypeOK /\ 1 \in DOMAIN stack /\ stack[1].op = This
      /\ stack[1].at = "ensure" /\ UNCHANGED <<kind, outcome, tasks, queue, pending, established>>
  BY StackType, ThisType DEF IInv, TypeOK, EnsureConnection, At, serializeVars, transportVars
<1>2. CASE stack' = <<PassTo("serialize", This)>> \o Tail(stack)
  <2>1. PICK place \in {"serialize", "complete"} : PassTo("serialize", This) = Call(place, This)
    BY PassToAt
  <2>2. Steady
    BY <1>1, <1>2, <2>1, AdvanceSteady DEF Places
  <2>3. TasksKept
    BY <1>1, TasksStep DEF IInv
  <2>4. NoReturn
    BY <1>1, <1>2, <2>1, <2>3, NoReturnAdvance DEF Places
  <2>5. QED  BY <1>1, <2>2, <2>4, HeldKept
<1>3. CASE stack' = <<Call("serialize", AutoConnect(This[1]))>> \o Tail(stack)
  <2>0. PICK o \in UserOps : o = This[1] /\ This = User(o)
    BY <1>1, OpIdsType DEF IInv, EnsureAlone
  <2> DEFINE auto == AutoConnect(o)
  <2>1. This = User(o) /\ auto \in OpIds /\ auto # User(o) /\ stack' = <<Call("serialize", auto)>> \o Tail(stack)
    BY <1>3, <2>0, OpIdsType
  <2>2. /\ HeldAt(User(o))' = HeldAt(User(o)) - 1 /\ HeldAt(auto)' = HeldAt(auto) + 1
        /\ \A op \in OpIds \ {User(o), auto} : HeldAt(op)' = HeldAt(op)
        /\ NoReturn
    BY <1>1, <1>3, <2>1, Exchanged DEF Places
  <2>3. Entering(User(o))
    BY <1>1, <2>1 DEF Entering
  <2>4. outcome[auto] = "none"
    BY <2>1, <2>3 DEF HeldInv, AutoOnce
  <2> HIDE DEF auto
  <2>5. \A p \in UserOps : p # o => /\ User(p) \in OpIds \ {User(o), AutoConnect(o)}
                                   /\ AutoConnect(p) \in OpIds \ {User(o), AutoConnect(o)}
    BY OpIdsType
  <2>6. auto = AutoConnect(o)
    BY DEF auto
  <2>7. HeldAt(User(o)) \in Nat /\ HeldAt(auto) \in Nat
    BY <1>1, <2>1, HeldType
  <2>8. HeldOnce'
    <3>1. ASSUME NEW p \in UserOps
          PROVE  HeldAt(User(p))' + HeldAt(AutoConnect(p))' = HeldAt(User(p)) + HeldAt(AutoConnect(p))
      <4>1. CASE p = o
        BY <2>2, <2>6, <2>7, <4>1
      <4>2. CASE p # o
        BY <2>2, <2>5, <2>6, <4>2
      <4>3. QED  BY <4>1, <4>2
    <3>2. QED  BY <1>1, <3>1 DEF HeldInv, HeldOnce, User
  <2>9. AutoOnce'
    <3>1. ASSUME NEW p \in UserOps, outcome[AutoConnect(p)] # "none"
          PROVE  kind[p] # "none" /\ ~Entering(User(p))' /\ HeldAt(AutoConnect(p))' = 0
      <4>1. p # o
        BY <2>4, <2>6, <3>1
      <4>2. kind[p] # "none" /\ ~Entering(User(p)) /\ HeldAt(AutoConnect(p)) = 0
        BY <3>1 DEF HeldInv, AutoOnce
      <4>3. QED  BY <2>2, <2>5, <2>6, <4>1, <4>2, OpIdsType DEF NoReturn
    <3>2. QED  BY <1>1, <3>1 DEF AutoOnce, AutoConnect
  <2>10. QED  BY <1>1, <2>8, <2>9 DEF HeldInv, User
<1>4. QED  BY <1>2, <1>3 DEF EnsureConnection, Replace

LEMMA OnConnectOpCompleteHeld ==
  ASSUME IInv, IInv', HeldInv, At("complete"), IsAuto(This), OnConnectOpComplete,
         UNCHANGED <<serializeVars, transportVars>>
  PROVE  HeldInv'
<1>1. /\ stack # <<>> /\ This \in OpIds /\ OnStack(This)
      /\ UNCHANGED <<kind, tasks, queue, pending, established>>
      /\ outcome \in [OpIds -> {"none", "ok", "failed"}]
  BY StackType, ThisType DEF IInv, TypeOK, OpsTypeOK, OnConnectOpComplete, At, OnStack, serializeVars, transportVars
<1>0. PICK o \in UserOps : o = This[1] /\ This = AutoConnect(o)
  BY <1>1, OpIdsType
<1>2. This = AutoConnect(o) /\ User(o) \in OpIds /\ User(o) # AutoConnect(o) /\ AutoConnect(o) \in OpIds
  BY <1>0, OpIdsType
<1>3. PICK place \in {"serialize", "complete"} : stack' = <<Call(place, User(o))>> \o Tail(stack)
  BY <1>0, PassToAt DEF OnConnectOpComplete, Replace
<1>4. \A op \in OpIds : op # This => outcome'[op] = outcome[op]
  BY <1>1 DEF OnConnectOpComplete, Record
<1>5. /\ HeldAt(AutoConnect(o))' = HeldAt(AutoConnect(o)) - 1 /\ HeldAt(User(o))' = HeldAt(User(o)) + 1
      /\ \A op \in OpIds \ {AutoConnect(o), User(o)} : HeldAt(op)' = HeldAt(op)
      /\ NoReturn
  BY <1>1, <1>2, <1>3, Exchanged DEF Places
<1>6. /\ HeldAt(User(o)) \in Nat /\ HeldAt(AutoConnect(o)) \in Nat /\ HeldAt(AutoConnect(o)) >= 1
      /\ Entering(User(o)) => HeldAt(User(o)) >= 1
  BY <1>1, <1>2, HeldType
<1>7. HeldAt(User(o)) + HeldAt(AutoConnect(o)) = IF kind[o] # "none" /\ outcome[User(o)] = "none" THEN 1 ELSE 0
  BY <1>2 DEF HeldInv, HeldOnce
<1>8. kind[o] # "none" /\ HeldAt(User(o)) = 0 /\ HeldAt(AutoConnect(o)) = 1
  BY <1>6, <1>7
<1>9. \A p \in UserOps : p # o => /\ User(p) \in OpIds \ {AutoConnect(o), User(o)}
                                 /\ AutoConnect(p) \in OpIds \ {AutoConnect(o), User(o)}
  BY <1>2, OpIdsType
<1>10. \A p \in UserOps : outcome'[User(p)] = outcome[User(p)]
  BY <1>2, <1>4, OpIdsType
<1>11. HeldOnce'
  <2>1. ASSUME NEW p \in UserOps
        PROVE  HeldAt(User(p))' + HeldAt(AutoConnect(p))' = HeldAt(User(p)) + HeldAt(AutoConnect(p))
    <3>1. CASE p = o
      BY <1>5, <1>6, <3>1
    <3>2. CASE p # o
      BY <1>5, <1>9, <3>2
    <3>3. QED  BY <3>1, <3>2
  <2>2. QED  BY <1>1, <1>10, <2>1 DEF HeldInv, HeldOnce, User
<1>12. AutoOnce'
  <2>1. ASSUME NEW p \in UserOps, outcome'[AutoConnect(p)] # "none"
        PROVE  kind[p] # "none" /\ ~Entering(User(p))' /\ HeldAt(AutoConnect(p))' = 0
    <3>1. CASE p = o
      <4>1. ~Entering(User(o))'
        BY <1>2, <1>5, <1>6, <1>8 DEF NoReturn
      <4>2. QED  BY <1>5, <1>8, <3>1, <4>1
    <3>2. CASE p # o
      <4>1. AutoConnect(p) \in OpIds /\ AutoConnect(p) # This
        BY <1>2, <1>9, <3>2
      <4>2. kind[p] # "none" /\ ~Entering(User(p)) /\ HeldAt(AutoConnect(p)) = 0
        BY <1>4, <2>1, <4>1 DEF HeldInv, AutoOnce
      <4>3. QED  BY <1>5, <1>9, <3>2, <4>2, OpIdsType DEF NoReturn
    <3>3. QED  BY <3>1, <3>2
  <2>2. QED  BY <1>1, <2>1 DEF AutoOnce, AutoConnect
<1>13. QED  BY <1>1, <1>10, <1>11, <1>12 DEF HeldInv, User

LEMMA UserCallbackHeld ==
  ASSUME IInv, IInv', HeldInv, At("complete"), ~IsAuto(This), UserCallback, UNCHANGED <<serializeVars, transportVars>>
  PROVE  HeldInv'
<1>1. /\ stack # <<>> /\ This \in OpIds /\ OnStack(This) /\ OpsTypeOK /\ stack' = Tail(stack)
      /\ UNCHANGED <<kind, tasks, queue, pending, established>>
      /\ outcome \in [OpIds -> {"none", "ok", "failed"}]
  BY StackType, ThisType
     DEF IInv, TypeOK, OpsTypeOK, UserCallback, At, OnStack, Return, serializeVars, transportVars
<1>2. PICK o \in UserOps : This = User(o)
  BY <1>1, OpIdsType
<1>3. /\ User(o) \in OpIds /\ AutoConnect(o) \in OpIds /\ User(o) # AutoConnect(o)
      /\ \A p \in UserOps : AutoConnect(p) \in OpIds \ {User(o)}
      /\ \A p \in UserOps : p # o => User(p) \in OpIds \ {User(o)}
  BY OpIdsType
<1>4. outcome'[User(o)] # "none" /\ \A op \in OpIds \ {User(o)} : outcome'[op] = outcome[op]
  BY <1>1, <1>2, <1>3 DEF UserCallback, Record
<1>5. PlacesAdd /\ PlacesAdd'
  BY PlacesAddUp, PlacesAddUpNext
<1>6. \A op \in OpIds : InStack(op)' = InStack(op) - (IF User(o) = op THEN 1 ELSE 0)
  BY <1>1, <1>2, StackPops
<1>7. ASSUME NEW op \in OpIds
      PROVE  /\ InTasks(op)' = InTasks(op) /\ InLine(op)' = InLine(op)
             /\ AtManager(op)' = AtManager(op) /\ IsPending(op)' = IsPending(op)
             /\ IsPending(op) \in Nat /\ AtManager(op) \in Nat
  BY <1>1, SamePlaces DEF IsPending, AtManager
<1>8. HeldAt(User(o))' = HeldAt(User(o)) - 1
  BY <1>3, <1>5, <1>6, <1>7 DEF PlacesAdd
<1>9. ASSUME NEW op \in OpIds \ {User(o)} PROVE HeldAt(op)' = HeldAt(op)
  <2>1. InStack(op)' = InStack(op)
    BY <1>5, <1>6 DEF PlacesAdd
  <2>2. QED  BY <1>5, <1>7, <2>1 DEF PlacesAdd
<1>10. HeldAt(User(o)) \in Nat /\ HeldAt(AutoConnect(o)) \in Nat /\ HeldAt(User(o)) >= 1
  BY <1>1, <1>2, <1>3, HeldType
<1>11. HeldAt(User(o)) + HeldAt(AutoConnect(o)) = IF kind[o] # "none" /\ outcome[User(o)] = "none" THEN 1 ELSE 0
  BY DEF HeldInv, HeldOnce
<1>12. kind[o] # "none" /\ HeldAt(User(o)) = 1 /\ HeldAt(AutoConnect(o)) = 0
  BY <1>10, <1>11
<1>13. HeldOnce'
  <2>1. ASSUME NEW p \in UserOps
        PROVE  HeldAt(User(p))' + HeldAt(AutoConnect(p))' =
                 (IF kind[p] # "none" /\ outcome'[User(p)] = "none" THEN 1 ELSE 0)
    <3>1. CASE p = o
      BY <1>3, <1>4, <1>8, <1>9, <1>12, <3>1
    <3>2. CASE p # o
      BY <1>3, <1>4, <1>9, <3>2 DEF HeldInv, HeldOnce
    <3>3. QED  BY <3>1, <3>2
  <2>2. QED  BY <1>1, <2>1 DEF HeldOnce, User
<1>14. NoReturn
  <2>1. TasksKept
    BY <1>1, TasksStep DEF IInv
  <2>2. QED  BY <1>1, <2>1, NoReturnPop
<1>15. AutoOnce'
  <2>1. ASSUME NEW p \in UserOps, outcome'[AutoConnect(p)] # "none"
        PROVE  kind[p] # "none" /\ ~Entering(User(p))' /\ HeldAt(AutoConnect(p))' = 0
    BY <1>3, <1>4, <1>9, <1>14, <2>1, OpIdsType DEF HeldInv, AutoOnce, NoReturn
  <2>2. QED  BY <1>1, <2>1 DEF AutoOnce, AutoConnect
<1>16. \A p \in UserOps : kind'[p] = "none" => outcome'[User(p)] = "none"
  BY <1>1, <1>3, <1>4, <1>12 DEF HeldInv
<1>17. QED  BY <1>13, <1>15, <1>16 DEF HeldInv, User

LEMMA SubmitHeld ==
  ASSUME IInv, IInv', HeldInv, Application, UNCHANGED <<serializeVars, transportVars>>
  PROVE  HeldInv'
<1>1. PICK o \in UserOps, k \in UserKinds : Submit(o, k)
  BY DEF Application
<1>2. /\ kind[o] = "none" /\ kind'[o] # "none" /\ \A p \in UserOps : p # o => kind'[p] = kind[p]
      /\ tasks' = Append(tasks, RunTask(User(o)))
      /\ UNCHANGED <<stack, outcome, queue, pending, established>>
      /\ OpsTypeOK
  BY <1>1, OpsAssumption
     DEF Submit, IInv, TypeOK, OpsTypeOK, Kinds, ConnectionKinds, ConnectKinds, AckedKinds,
         serializeVars, transportVars
<1>3. /\ User(o) \in OpIds /\ AutoConnect(o) \in OpIds /\ User(o) # AutoConnect(o)
      /\ \A p \in UserOps : AutoConnect(p) \in OpIds \ {User(o)}
      /\ \A p \in UserOps : p # o => User(p) \in OpIds \ {User(o)}
  BY OpIdsType
<1>4. RunTask(User(o)) \in Task /\ RunTask(User(o)).op = User(o)
  BY <1>3, TaskType DEF RunTask
<1>5. \A op \in OpIds : InTasks(op)' = InTasks(op) + (IF User(o) = op THEN 1 ELSE 0)
  BY <1>2, <1>4, TasksAppend
<1>6. PlacesAdd /\ PlacesAdd'
  BY PlacesAddUp, PlacesAddUpNext
<1>7. ASSUME NEW op \in OpIds
      PROVE  /\ InStack(op)' = InStack(op) /\ InLine(op)' = InLine(op)
             /\ AtManager(op)' = AtManager(op) /\ IsPending(op)' = IsPending(op)
             /\ IsPending(op) \in Nat /\ AtManager(op) \in Nat
  BY <1>2, SamePlaces DEF IsPending, AtManager
<1>8. HeldAt(User(o))' = HeldAt(User(o)) + 1
  BY <1>3, <1>5, <1>6, <1>7 DEF PlacesAdd
<1>9. ASSUME NEW op \in OpIds \ {User(o)} PROVE HeldAt(op)' = HeldAt(op)
  <2>1. InTasks(op)' = InTasks(op)
    BY <1>5, <1>6 DEF PlacesAdd
  <2>2. QED  BY <1>6, <1>7, <2>1 DEF PlacesAdd
<1>10. HeldAt(User(o)) = 0 /\ HeldAt(AutoConnect(o)) = 0 /\ outcome[User(o)] = "none"
  <2>1. HeldAt(User(o)) + HeldAt(AutoConnect(o)) = 0 /\ outcome[User(o)] = "none"
    BY <1>2 DEF HeldInv, HeldOnce
  <2>2. HeldAt(User(o)) \in Nat /\ HeldAt(AutoConnect(o)) \in Nat
    BY <1>3, HeldType
  <2>3. QED  BY <2>1, <2>2
<1>11. HeldOnce'
  <2>1. ASSUME NEW p \in UserOps
        PROVE  HeldAt(User(p))' + HeldAt(AutoConnect(p))' =
                 (IF kind'[p] # "none" /\ outcome[User(p)] = "none" THEN 1 ELSE 0)
    <3>1. CASE p = o
      BY <1>2, <1>3, <1>8, <1>9, <1>10, <3>1
    <3>2. CASE p # o
      BY <1>2, <1>3, <1>9, <3>2 DEF HeldInv, HeldOnce
    <3>3. QED  BY <3>1, <3>2
  <2>2. QED  BY <1>2, <2>1 DEF HeldOnce, User
<1>12. AutoOnce'
  <2>1. ASSUME NEW p \in UserOps, outcome[AutoConnect(p)] # "none"
        PROVE  kind'[p] # "none" /\ ~Entering(User(p))' /\ HeldAt(AutoConnect(p))' = 0
    <3>1. kind[p] # "none" /\ ~Entering(User(p)) /\ HeldAt(AutoConnect(p)) = 0
      BY <2>1 DEF HeldInv, AutoOnce
    <3>2. p # o /\ User(p) # User(o)
      BY <1>2, <1>3, <3>1
    <3>3. DOMAIN tasks = 1..Len(tasks) /\ Len(tasks) \in Nat /\ DOMAIN tasks' = 1..(Len(tasks) + 1)
          /\ tasks'[Len(tasks) + 1] = RunTask(User(o)) /\ \A i \in 1..Len(tasks) : tasks'[i] = tasks[i]
      BY <1>2, <1>4, AppendIndex DEF OpsTypeOK
    <3>4. \A i \in DOMAIN tasks' : (i \in DOMAIN tasks /\ tasks'[i] = tasks[i]) \/ tasks'[i].op = User(o)
      BY <1>4, <3>3, RangeSplit
    <3>5. ~Entering(User(p))'
      BY <1>2, <3>1, <3>2, <3>4 DEF Entering, User
    <3>6. QED  BY <1>2, <1>3, <1>9, <3>1, <3>2, <3>5
  <2>2. QED  BY <1>2, <2>1 DEF AutoOnce, AutoConnect
<1>13. \A p \in UserOps : kind'[p] = "none" => outcome'[User(p)] = "none"
  BY <1>2 DEF HeldInv
<1>14. QED  BY <1>11, <1>12, <1>13 DEF HeldInv, User

LEMMA InitHeld == Init => HeldInv
<1> SUFFICES ASSUME Init PROVE HeldInv
  OBVIOUS
<1>1. IInv
  BY InitInv
<1> USE DEF Init, OpsInit, SerializeInit, TransportInit
<1>2. ASSUME NEW op \in OpIds PROVE HeldAt(op) = 0
  <2>1. InTasks(op) = 0 /\ InStack(op) = 0 /\ InLine(op) = 0
    BY CountSmall DEF InTasks, InStack, InLine
  <2>2. IsPending(op) = 0 /\ AtManager(op) = 0
    BY NoOpType DEF IsPending, AtManager
  <2>3. PlacesAdd
    BY <1>1, PlacesAddUp
  <2>4. QED  BY <2>1, <2>2, <2>3 DEF PlacesAdd
<1>3. \A op \in OpIds : outcome[op] = "none"
  OBVIOUS
<1>4. HeldOnce /\ AutoOnce
  BY <1>2, <1>3, OpIdsType DEF HeldOnce, AutoOnce
<1>5. QED  BY <1>3, <1>4, OpIdsType DEF HeldInv

LEMMA HeldStep == IInv /\ IInv' /\ HeldInv /\ [Next]_vars => HeldInv'
<1> SUFFICES ASSUME IInv, IInv', HeldInv, [Next]_vars PROVE HeldInv'
  OBVIOUS
<1>1. CASE UNCHANGED vars
  BY <1>1 DEF vars, opVars, serializeVars, transportVars, HeldInv, HeldOnce, AutoOnce, Entering, HeldAt, Positions,
              Cancelling
<1>2. CASE Application /\ UNCHANGED <<serializeVars, transportVars>>
  BY <1>2, SubmitHeld
<1>3. CASE Library /\ UNCHANGED serializeVars
  <2>1. kind' = kind /\ outcome' = outcome
    BY <1>3 DEF Library, Connack, Refuse, Drop, AutoReconnect, Ack, opVars
  <2>2. QED  BY <1>3, <2>1, LibrarySteady, HeldKept
<1>4. CASE StartOp /\ UNCHANGED <<serializeVars, transportVars>>
  BY <1>4, StartSteady, HeldKept DEF StartOp
<1>5. CASE EnsureConnection /\ UNCHANGED <<serializeVars, transportVars>>
  BY <1>5, EnsureHeld
<1>6. CASE (QueueOp \/ CompleteEarly \/ Block \/ PassOp) /\ UNCHANGED transportVars
  <2>1. kind' = kind /\ outcome' = outcome
    BY <1>6 DEF QueueOp, CompleteEarly, Block, PassOp
  <2>2. QED  BY <1>6, <2>1, SerializeSteady, HeldKept
<1>7. CASE CompleteOp /\ UNCHANGED transportVars
  <2>1. CASE This \in wrapped /\ OnOperationComplete
    <3>1. kind' = kind /\ outcome' = outcome /\ At("complete")
      BY <1>7, <2>1 DEF OnOperationComplete, CompleteOp
    <3>2. QED  BY <1>7, <2>1, <3>1, OnOperationCompleteSteady, HeldKept
  <2>2. CASE IsAuto(This) /\ OnConnectOpComplete /\ UNCHANGED serializeVars
    BY <1>7, <2>2, OnConnectOpCompleteHeld DEF CompleteOp
  <2>3. CASE ~IsAuto(This) /\ UserCallback /\ UNCHANGED serializeVars
    BY <1>7, <2>3, UserCallbackHeld DEF CompleteOp
  <2>4. QED  BY <1>7, <2>1, <2>2, <2>3 DEF CompleteOp
<1>8. CASE TransportOps /\ UNCHANGED serializeVars
  <2>1. kind' = kind /\ outcome' = outcome
    BY <1>8 DEF TransportOps, CancelPending, Connect, ConnectRaises, Disconnect, DisconnectInline,
                DisconnectRaises, SendRaises, Send, Establish
  <2>2. Steady /\ NoReturn
    BY <1>8, TransportSteady DEF HeldInv
  <2>3. QED  BY <2>1, <2>2, HeldKept
<1>9. CASE EventHandlers /\ UNCHANGED serializeVars
  <2>1. kind' = kind /\ outcome' = outcome
    BY <1>9 DEF EventHandlers, OnMqttConnected, OnMqttConnectionFailure, OnMqttDisconnected, OnAcked
  <2>2. QED  BY <1>9, <2>1, EventsSteady, HeldKept
<1>10. QED
  BY <1>1, <1>2, <1>3, <1>4, <1>5, <1>6, <1>7, <1>8, <1>9 DEF Next, PipelineThread

LEMMA HeldInvHolds == Spec => []HeldInv
<1>1. Init => HeldInv
  BY InitHeld
<1>2. IInv /\ IInv' /\ HeldInv /\ [Next]_vars => HeldInv'
  BY HeldStep
<1>3. QED  BY Inductive, <1>1, <1>2, PTL DEF Spec

(* No operation is lost and none is called back twice: whatever the stages *)
(* queue, release, replace by a ConnectOperation or hand to the library,   *)
(* an operation that was submitted is in exactly one place until its       *)
(* callback is called, and in none afterwards.                             *)
THEOREM HeldOnceHolds == Spec => []HeldOnce
<1>1. HeldInv => HeldOnce
  BY DEF HeldInv
<1>2. QED  BY HeldInvHolds, <1>1, PTL

-----------------------------------------------------------------------------
(* The library's reports.  A loss that was reported stays followed by the  *)
(* report of the connection, if there is one again.                        *)
LEMMA SocketKept ==
  ASSUME TypeOK, SocketKnown, sock' = sock \/ sock' # "open", connected' = connected,
         \/ tasks' = tasks
         \/ \E task \in Task : /\ tasks' = Append(tasks, task)
                               /\ task.what \in {"disconnected", "dropped"} => sock' # "open"
  PROVE  SocketKnown'
<1> SUFFICES ASSUME sock' = "open"
             PROVE  /\ connected' \/ \E i \in DOMAIN tasks' : tasks'[i].what = "connected"
                    /\ \A i \in DOMAIN tasks' : tasks'[i].what \in {"disconnected", "dropped"} =>
                         \E j \in DOMAIN tasks' : i < j /\ tasks'[j].what = "connected"
  BY DEF SocketKnown
<1>1. sock = "open"
  OBVIOUS
<1>2. CASE tasks' = tasks
  BY <1>1, <1>2 DEF SocketKnown
<1>3. ASSUME NEW task \in Task, tasks' = Append(tasks, task), task.what \notin {"disconnected", "dropped"}
      PROVE  /\ connected' \/ \E i \in DOMAIN tasks' : tasks'[i].what = "connected"
             /\ \A i \in DOMAIN tasks' : tasks'[i].what \in {"disconnected", "dropped"} =>
                  \E j \in DOMAIN tasks' : i < j /\ tasks'[j].what = "connected"
  <2>1. /\ DOMAIN tasks = 1..Len(tasks) /\ Len(tasks) \in Nat
        /\ DOMAIN tasks' = 1..(Len(tasks) + 1) /\ tasks'[Len(tasks) + 1] = task
        /\ \A i \in 1..Len(tasks) : tasks'[i] = tasks[i]
    BY <1>3, AppendIndex DEF TypeOK, OpsTypeOK
  <2>2. \A i \in DOMAIN tasks : i \in DOMAIN tasks' /\ tasks'[i] = tasks[i]
    BY <2>1
  <2>3. \A i \in DOMAIN tasks' : i \in DOMAIN tasks \/ i = Len(tasks) + 1
    BY <2>1, RangeSplit
  <2>4. connected' \/ \E i \in DOMAIN tasks' : tasks'[i].what = "connected"
    BY <1>1, <2>2 DEF SocketKnown
  <2>5. ASSUME NEW i \in DOMAIN tasks', tasks'[i].what \in {"disconnected", "dropped"}
        PROVE  \E j \in DOMAIN tasks' : i < j /\ tasks'[j].what = "connected"
    <3>1. i \in DOMAIN tasks /\ tasks[i].what \in {"disconnected", "dropped"}
      BY <1>3, <2>1, <2>2, <2>3, <2>5
    <3>2. \E j \in DOMAIN tasks : i < j /\ tasks[j].what = "connected"
      BY <1>1, <3>1 DEF SocketKnown
    <3>3. QED  BY <2>2, <3>2
  <2>6. QED  BY <2>4, <2>5
<1>4. QED  BY <1>2, <1>3

LEMMA SocketConnack ==
  ASSUME TypeOK, Connack
  PROVE  SocketKnown'
<1>1. Event("connected") \in Task /\ Event("connected").what = "connected"
  BY TaskType DEF Events, Event
<1>2. tasks' = Append(tasks, Event("connected"))
  BY DEF Connack
<1>3. /\ Len(tasks) \in Nat
      /\ DOMAIN tasks' = 1..(Len(tasks) + 1) /\ tasks'[Len(tasks) + 1].what = "connected"
  BY <1>1, <1>2, AppendIndex DEF TypeOK, OpsTypeOK
<1>4. ASSUME NEW i \in DOMAIN tasks', tasks'[i].what \in {"disconnected", "dropped"}
      PROVE  \E j \in DOMAIN tasks' : i < j /\ tasks'[j].what = "connected"
  <2>1. i # Len(tasks) + 1
    BY <1>3, <1>4
  <2>2. i < Len(tasks) + 1 /\ Len(tasks) + 1 \in DOMAIN tasks'
    BY <1>3, <2>1
  <2>3. QED  BY <1>3, <2>2
<1>5. \E i \in DOMAIN tasks' : tasks'[i].what = "connected"
  BY <1>3
<1>6. QED  BY <1>4, <1>5 DEF SocketKnown

LEMMA SocketHandled ==
  ASSUME TypeOK, SocketKnown, sock' = sock, tasks # <<>>, tasks' = Tail(tasks),
         \/ Head(tasks).what = "connected" /\ connected'
         \/ Head(tasks).what \in {"disconnected", "dropped"}
         \/ Head(tasks).what # "connected" /\ connected' = connected
  PROVE  SocketKnown'
<1> SUFFICES ASSUME sock' = "open"
             PROVE  /\ connected' \/ \E i \in DOMAIN tasks' : tasks'[i].what = "connected"
                    /\ \A i \in DOMAIN tasks' : tasks'[i].what \in {"disconnected", "dropped"} =>
                         \E j \in DOMAIN tasks' : i < j /\ tasks'[j].what = "connected"
  BY DEF SocketKnown
<1>1. /\ DOMAIN tasks = 1..Len(tasks) /\ Len(tasks) \in Nat \ {0}
      /\ Head(tasks) = tasks[1] /\ 1 \in DOMAIN tasks
      /\ DOMAIN tasks' = 1..(Len(tasks) - 1)
      /\ \A i \in DOMAIN tasks' : tasks'[i] = tasks[i + 1]
  <2>1. /\ tasks \in Seq(Task) /\ tasks' \in Seq(Task) /\ Len(tasks) \in Nat \ {0} /\ Head(tasks) = tasks[1]
        /\ Len(tasks') = Len(tasks) - 1 /\ \A i \in 1..Len(tasks') : tasks'[i] = tasks[i + 1]
    BY TailIndex DEF TypeOK, OpsTypeOK
  <2>2. DOMAIN tasks = 1..Len(tasks) /\ DOMAIN tasks' = 1..Len(tasks')
    BY <2>1
  <2>3. QED  BY <2>1, <2>2
<1>2. \A j \in DOMAIN tasks : j # 1 => j - 1 \in DOMAIN tasks' /\ tasks'[j - 1] = tasks[j]
  <2>1. ASSUME NEW j \in DOMAIN tasks, j # 1
        PROVE  j - 1 \in DOMAIN tasks' /\ tasks'[j - 1] = tasks[j]
    <3>1. j - 1 \in DOMAIN tasks' /\ (j - 1) + 1 = j
      BY <1>1, <2>1
    <3>2. QED  BY <1>1, <3>1
  <2>2. QED  BY <2>1
<1>3. ASSUME NEW i \in DOMAIN tasks, tasks[i].what \in {"disconnected", "dropped"}
      PROVE  \E j \in DOMAIN tasks' : i - 1 < j /\ tasks'[j].what = "connected"
  <2>1. PICK j \in DOMAIN tasks : i < j /\ tasks[j].what = "connected"
    BY <1>3 DEF SocketKnown
  <2>2. j # 1 /\ i - 1 < j - 1
    BY <1>1, <2>1
  <2>3. QED  BY <1>2, <2>1, <2>2
<1>4. ASSUME NEW i \in DOMAIN tasks', tasks'[i].what \in {"disconnected", "dropped"}
      PROVE  \E j \in DOMAIN tasks' : i < j /\ tasks'[j].what = "connected"
  <2>1. i + 1 \in DOMAIN tasks /\ tasks[i + 1].what \in {"disconnected", "dropped"} /\ (i + 1) - 1 = i
    BY <1>1, <1>4
  <2>2. \E j \in DOMAIN tasks' : (i + 1) - 1 < j /\ tasks'[j].what = "connected"
    BY <1>3, <2>1
  <2>3. QED  BY <2>1, <2>2
<1>5. connected' \/ \E i \in DOMAIN tasks' : tasks'[i].what = "connected"
  <2>1. CASE Head(tasks).what = "connected" /\ connected'
    BY <2>1
  <2>2. CASE Head(tasks).what \in {"disconnected", "dropped"}
    BY <1>1, <1>3, <2>2
  <2>3. CASE Head(tasks).what # "connected" /\ connected' = connected
    <3>1. CASE connected
      BY <2>3, <3>1
    <3>2. CASE ~connected
      <4>1. PICK i \in DOMAIN tasks : tasks[i].what = "connected"
        BY <3>2 DEF SocketKnown
      <4>2. i # 1
        BY <1>1, <2>3, <4>1
      <4>3. QED  BY <1>2, <4>1, <4>2
    <3>3. QED  BY <3>1, <3>2
  <2>4. QED  BY <2>1, <2>2, <2>3
<1>6. QED  BY <1>4, <1>5

LEMMA SocketStep == TypeOK /\ SocketKnown /\ [Next]_vars => SocketKnown'
<1> SUFFICES ASSUME TypeOK, SocketKnown, [Next]_vars PROVE SocketKnown'
  OBVIOUS
<1> USE DEF opVars, transportVars, pahoVars, managerVars
<1>0. OpsTypeOK
  BY DEF TypeOK
<1>1. CASE UNCHANGED vars
  BY <1>1, SocketKept DEF vars
<1>2. CASE Application /\ UNCHANGED <<serializeVars, transportVars>>
  <2>1. PICK o \in UserOps, k \in UserKinds : Submit(o, k)
    BY <1>2 DEF Application
  <2>2. RunTask(User(o)) \in Task /\ RunTask(User(o)).what = "run"
    BY OpIdsType, TaskType DEF RunTask
  <2>3. tasks' = Append(tasks, RunTask(User(o))) /\ sock' = sock /\ connected' = connected
    BY <1>2, <2>1 DEF Submit
  <2>4. QED  BY <2>2, <2>3, SocketKept
<1>3. CASE Library /\ UNCHANGED serializeVars
  <2>1. CASE Connack
    BY <2>1, SocketConnack
  <2>2. CASE Refuse \/ Drop
    <3>1. sock' # "open"
      BY <2>2 DEF Refuse, Drop
    <3>2. QED  BY <3>1 DEF SocketKnown
  <2>3. CASE AutoReconnect
    <3>1. sock' # "open"
      BY <2>3 DEF AutoReconnect
    <3>2. QED  BY <3>1 DEF SocketKnown
  <2>4. CASE Ack
    <3>1. sock' = sock /\ connected' = connected
      BY <2>4 DEF Ack
    <3>2. tasks' = tasks \/ \E op \in OpIds : tasks' = Append(tasks, AckTask(op))
      BY <2>4 DEF Ack, TypeOK, TransportTypeOK
    <3>3. \A op \in OpIds : AckTask(op) \in Task /\ AckTask(op).what = "acked"
      BY TaskType DEF AckTask
    <3>4. QED  BY <3>1, <3>2, <3>3, SocketKept
  <2>5. QED  BY <1>3, <2>1, <2>2, <2>3, <2>4 DEF Library
<1>4. CASE StartOp /\ UNCHANGED <<serializeVars, transportVars>>
  <2>1. /\ tasks # <<>> /\ tasks' = Tail(tasks) /\ Head(tasks).what = "run"
        /\ sock' = sock /\ connected' = connected
    BY <1>4 DEF StartOp, Starts
  <2>2. QED  BY <2>1, SocketHandled
<1>5. CASE EnsureConnection /\ UNCHANGED <<serializeVars, transportVars>>
  BY <1>5, SocketKept DEF EnsureConnection
<1>6. CASE (QueueOp \/ CompleteEarly \/ Block \/ PassOp) /\ UNCHANGED transportVars
  BY <1>6, SocketKept DEF QueueOp, CompleteEarly, Block, PassOp
<1>7. CASE CompleteOp /\ UNCHANGED transportVars
  BY <1>7, SocketKept DEF CompleteOp, OnOperationComplete, OnConnectOpComplete, UserCallback
<1>8. CASE TransportOps /\ UNCHANGED serializeVars
  <2>1. CASE Connect \/ ConnectRaises \/ Disconnect \/ DisconnectInline
    <3>1. sock' # "open"
      BY <2>1 DEF Connect, ConnectRaises, Disconnect, DisconnectInline
    <3>2. QED  BY <3>1 DEF SocketKnown
  <2>2. CASE CancelPending \/ DisconnectRaises \/ SendRaises \/ Send \/ Establish
    <3>1. sock' = sock /\ connected' = connected /\ tasks' = tasks
      BY <2>2 DEF CancelPending, DisconnectRaises, SendRaises, Send, Establish
    <3>2. QED  BY <3>1, SocketKept
  <2>3. QED  BY <1>8, <2>1, <2>2 DEF TransportOps
<1>9. CASE EventHandlers /\ UNCHANGED serializeVars
  <2>1. /\ tasks # <<>> /\ tasks' = Tail(tasks) /\ sock' = sock
        /\ \/ Head(tasks).what = "connected" /\ connected'
           \/ Head(tasks).what \in {"disconnected", "dropped"}
           \/ Head(tasks).what # "connected" /\ connected' = connected
    BY <1>9 DEF EventHandlers, OnMqttConnected, OnMqttConnectionFailure, OnMqttDisconnected, OnAcked, Starts
  <2>2. QED  BY <2>1, SocketHandled
<1>10. QED
  BY <1>1, <1>2, <1>3, <1>4, <1>5, <1>6, <1>7, <1>8, <1>9 DEF Next, PipelineThread

(* The connected flag of the root stage is never left behind an open       *)
(* socket: once nothing is under way any more, the stages above know of    *)
(* it, whatever losses and reconnections were reported in between.         *)
THEOREM OpenIsConnectedHolds == Spec => []OpenIsConnected
<1>1. Init => SocketKnown
  BY DEF Init, TransportInit, SocketKnown
<1>2. TypeOK /\ SocketKnown => OpenIsConnected
  BY DEF SocketKnown, OpenIsConnected
<1>3. QED  BY TypeCorrect, SocketStep, <1>1, <1>2, PTL DEF Spec

-----------------------------------------------------------------------------
(* Results and the connected flag.  The call at the top of the stack is    *)
(* replaced: by one that makes no connection operation succeed, or by one  *)
(* that may.                                                               *)
MaySucceed(call) ==
  \/ call.at # "complete" \/ call.op \in failed \/ NeedsConnection(call.op)
  \/ KindOf(call.op) = "connect" /\ connected /\ call.op \notin wrapped
  \/ KindOf(call.op) = "disconnect" /\ ~connected
LoopKept == pending # NoOp /\ KindOf(pending) = "connect" => loop

LEMMA AckedKind ==
  \A op : NeedsConnection(op) => KindOf(op) # "connect" /\ KindOf(op) # "disconnect"
BY DEF NeedsConnection, AckedKinds

LEMMA ResultReplace ==
  ASSUME IInv, ResultInv, stack # <<>>, kind' = kind, failed \subseteq failed', LoopKept',
         Sheltered => Sheltered', connected' = connected \/ (~connected' /\ ~Sheltered),
         NEW call \in Frame, MaySucceed(call)', stack' = <<call>> \o Tail(stack)
  PROVE  ResultInv'
<1>1. /\ stack \in Seq(Frame) /\ DOMAIN stack = 1..Len(stack) /\ Len(stack) \in Nat \ {0}
      /\ stack' \in Seq(Frame) /\ Len(stack') = Len(stack) /\ stack'[1] = call
      /\ \A i \in 2..Len(stack) : stack'[i] = stack[i]
  BY StackType, TailIndex, ReplaceIndex DEF IInv, TypeOK, OpsTypeOK
<1>2. \A i \in DOMAIN stack' : i = 1 \/ (i # 1 /\ i \in DOMAIN stack /\ stack'[i] = stack[i])
  BY <1>1
<1>3. \A op : KindOf(op)' = KindOf(op)
  BY DEF KindOf
<1>4. ASSUME NEW i \in DOMAIN stack', i # 1, NEW k, WillSucceed(i, k)'
      PROVE  i \in DOMAIN stack /\ WillSucceed(i, k) /\ (Safe(i) => Sheltered)
  BY <1>2, <1>3, <1>4 DEF WillSucceed, Safe
<1>5. ASSUME WillSucceed(1, "disconnect")' PROVE ~connected'
  <2>1. call.at = "complete" /\ call.op \notin failed' /\ KindOf(call.op)' = "disconnect"
    BY <1>1, <1>5 DEF WillSucceed
  <2>2. ~NeedsConnection(call.op)'
    BY <2>1 DEF NeedsConnection, AckedKinds
  <2>3. QED  BY <2>1, <2>2 DEF MaySucceed
<1>6. ASSUME WillSucceed(1, "connect")' PROVE connected' /\ Safe(1)'
  <2>1. call.at = "complete" /\ call.op \notin failed' /\ KindOf(call.op)' = "connect"
    BY <1>1, <1>6 DEF WillSucceed
  <2>2. ~NeedsConnection(call.op)'
    BY <2>1 DEF NeedsConnection, AckedKinds
  <2>3. connected' /\ call.op \notin wrapped'
    BY <2>1, <2>2 DEF MaySucceed
  <2>4. QED  BY <1>1, <2>3 DEF Safe
<1>7. ASSUME NEW i \in DOMAIN stack', WillSucceed(i, "disconnect")' PROVE ~connected'
  <2>1. CASE i = 1
    BY <1>5, <1>7, <2>1
  <2>2. CASE i # 1
    <3>1. ~connected
      BY <1>4, <1>7, <2>2 DEF ResultInv
    <3>2. QED  BY <3>1
  <2>3. QED  BY <2>1, <2>2
<1>8. ASSUME NEW i \in DOMAIN stack', WillSucceed(i, "connect")' PROVE connected' /\ Safe(i)'
  <2>1. CASE i = 1
    BY <1>6, <1>8, <2>1
  <2>2. CASE i # 1
    <3>1. connected /\ Sheltered
      BY <1>4, <1>8, <2>2 DEF ResultInv
    <3>2. QED  BY <3>1 DEF Safe
  <2>3. QED  BY <2>1, <2>2
<1>9. QED  BY <1>7, <1>8 DEF ResultInv, LoopKept

LEMMA ResultPop ==
  ASSUME IInv, ResultInv, stack # <<>>, kind' = kind, failed' = failed, LoopKept',
         Sheltered => Sheltered', connected' = connected, stack' = Tail(stack)
  PROVE  ResultInv'
<1>1. \A i \in DOMAIN stack' : i + 1 \in DOMAIN stack /\ i + 1 # 1 /\ stack'[i] = stack[i + 1]
  BY Pop DEF IInv, TypeOK
<1>2. \A op : KindOf(op)' = KindOf(op)
  BY DEF KindOf
<1>3. ASSUME NEW i \in DOMAIN stack', NEW k, WillSucceed(i, k)'
      PROVE  i + 1 \in DOMAIN stack /\ WillSucceed(i + 1, k) /\ (Safe(i + 1) => Sheltered)
  BY <1>1, <1>2, <1>3 DEF WillSucceed, Safe
<1>4. ASSUME NEW i \in DOMAIN stack', WillSucceed(i, "disconnect")' PROVE ~connected'
  BY <1>3, <1>4 DEF ResultInv
<1>5. ASSUME NEW i \in DOMAIN stack', WillSucceed(i, "connect")' PROVE connected' /\ Safe(i)'
  <2>1. connected /\ Sheltered
    BY <1>3, <1>5 DEF ResultInv
  <2>2. QED  BY <2>1 DEF Safe
<1>6. QED  BY <1>4, <1>5 DEF ResultInv, LoopKept

LEMMA ResultStart ==
  ASSUME LoopKept',
         stack' = <<>> \/ \E call \in Frame :
           /\ stack' = <<call>>
           /\ \/ call.at # "complete" \/ call.op \in failed' \/ NeedsConnection(call.op)'
              \/ KindOf(call.op)' = "connect" /\ connected' /\ loop'
              \/ KindOf(call.op)' = "reconnect"
              \/ KindOf(call.op)' = "disconnect" /\ ~connected'
  PROVE  ResultInv'
<1>1. CASE stack' = <<>>
  BY <1>1 DEF ResultInv, LoopKept
<1>2. ASSUME NEW call \in Frame, stack' = <<call>>,
             \/ call.at # "complete" \/ call.op \in failed' \/ NeedsConnection(call.op)'
             \/ KindOf(call.op)' = "connect" /\ connected' /\ loop'
             \/ KindOf(call.op)' = "reconnect"
             \/ KindOf(call.op)' = "disconnect" /\ ~connected'
      PROVE  ResultInv'
  <2>1. \A i \in DOMAIN stack' : stack'[i] = call
    BY <1>2
  <2>2. ASSUME NEW i \in DOMAIN stack', WillSucceed(i, "disconnect")' PROVE ~connected'
    <3>1. call.at = "complete" /\ call.op \notin failed' /\ KindOf(call.op)' = "disconnect"
      BY <2>1, <2>2 DEF WillSucceed
    <3>2. ~NeedsConnection(call.op)'
      BY <3>1 DEF NeedsConnection, AckedKinds
    <3>3. QED  BY <1>2, <3>1, <3>2
  <2>3. ASSUME NEW i \in DOMAIN stack', WillSucceed(i, "connect")' PROVE connected' /\ Safe(i)'
    <3>1. call.at = "complete" /\ call.op \notin failed' /\ KindOf(call.op)' = "connect"
      BY <2>1, <2>3 DEF WillSucceed
    <3>2. ~NeedsConnection(call.op)'
      BY <3>1 DEF NeedsConnection, AckedKinds
    <3>3. connected' /\ loop'
      BY <1>2, <3>1, <3>2
    <3>4. QED  BY <3>3 DEF Safe, Sheltered
  <2>4. QED  BY <2>2, <2>3 DEF ResultInv, LoopKept
<1>3. QED  BY <1>1, <1>2

(* Nothing changes on the pipeline thread.                                 *)
LEMMA ResultQuiet ==
  ASSUME ResultInv, UNCHANGED <<stack, failed, connected, wrapped, pending>>,
         \A i \in DOMAIN stack : KindOf(stack[i].op)' = KindOf(stack[i].op),
         LoopKept', Sheltered => Sheltered'
  PROVE  ResultInv'
<1>1. ASSUME NEW i \in DOMAIN stack', NEW k, WillSucceed(i, k)'
      PROVE  i \in DOMAIN stack /\ WillSucceed(i, k)
  <2>1. KindOf(stack[i].op)' = k
    BY <1>1 DEF WillSucceed
  <2>2. QED  BY <1>1, <2>1 DEF WillSucceed
<1>2. QED  BY <1>1 DEF ResultInv, LoopKept, Safe

(* The steps, one group of actions at a time.                              *)
LEMMA UpperResult ==
  ASSUME IInv, ResultInv,
         \/ (StartOp \/ EnsureConnection) /\ UNCHANGED <<serializeVars, transportVars>>
         \/ (QueueOp \/ CompleteEarly \/ Block \/ PassOp) /\ UNCHANGED transportVars
  PROVE  ResultInv'
<1> USE DEF Return, Replace, At
<1>1. /\ kind' = kind /\ failed' = failed /\ connected' = connected
      /\ UNCHANGED <<pending, loop, sock>>
  BY DEF StartOp, EnsureConnection, QueueOp, CompleteEarly, Block, PassOp, transportVars
<1>2. LoopKept' /\ (Sheltered => Sheltered')
  BY <1>1 DEF LoopKept, ResultInv, KindOf, Sheltered
<1>3. ASSUME stack # <<>>, NEW call \in Frame, MaySucceed(call)', stack' = <<call>> \o Tail(stack)
      PROVE  ResultInv'
  BY <1>1, <1>2, <1>3, ResultReplace
<1>4. stack # <<>> => This \in OpIds
  BY ThisType DEF IInv, TypeOK
<1>5. CASE StartOp
  <2>1. tasks # <<>> /\ Head(tasks).what = "run" /\ stack' = <<Call("ensure", Head(tasks).op)>>
    BY <1>5 DEF StartOp, Starts
  <2>2. Call("ensure", Head(tasks).op) \in Frame
    BY <2>1, NextTaskType, CallType DEF IInv, TypeOK, Places
  <2>3. Call("ensure", Head(tasks).op).at # "complete"
    BY DEF Call
  <2>4. QED  BY <1>2, <2>1, <2>2, <2>3, ResultStart
<1>6. CASE EnsureConnection
  <2>1. stack # <<>> /\ This[1] \in UserOps
    BY <1>4, <1>6, OpIdsType DEF EnsureConnection
  <2>2. CASE stack' = <<PassTo("serialize", This)>> \o Tail(stack)
    <3>1. PassTo("serialize", This) \in Frame
      BY <1>4, <2>1, CallType DEF Places
    <3>3. PICK call \in Frame : call = PassTo("serialize", This)
      BY <3>1
    <3>4. MaySucceed(call)'
      <4>1. call.at # "complete" \/ call.op \in failed'
        BY <1>1, <3>3 DEF PassTo, Call
      <4>2. QED  BY <4>1 DEF MaySucceed
    <3>5. QED  BY <1>3, <2>1, <2>2, <3>3, <3>4
  <2>3. CASE stack' = <<Call("serialize", AutoConnect(This[1]))>> \o Tail(stack)
    <3>1. PICK call \in Frame : call = Call("serialize", AutoConnect(This[1]))
      BY <2>1, OpIdsType, CallType DEF Places
    <3>2. MaySucceed(call)'
      BY <3>1 DEF Call, MaySucceed
    <3>3. QED  BY <1>3, <2>1, <2>3, <3>1, <3>2
  <2>4. QED  BY <1>6, <2>2, <2>3 DEF EnsureConnection
<1>7. CASE QueueOp
  BY <1>1, <1>2, <1>7, ResultPop DEF QueueOp
<1>8. CASE CompleteEarly
  <2>1. stack # <<>> /\ stack' = <<Call("complete", This)>> \o Tail(stack) /\ wrapped' = wrapped
        /\ ~blocked /\ CompletesEarly(This)
    BY <1>8 DEF CompleteEarly, serializeVars
  <2>2. PICK call \in Frame : call = Call("complete", This)
    BY <1>4, <2>1, CallType DEF Places
  <2>3. call.op \notin wrapped'
    BY <2>1 DEF IInv, OneConnectionOp
  <2>4. \/ KindOf(call.op)' = "connect" /\ connected'
        \/ KindOf(call.op)' = "disconnect" /\ ~connected'
    <3>1. call.op = This
      BY <2>2 DEF Call
    <3>2. \/ KindOf(call.op) = "connect" /\ connected
          \/ KindOf(call.op) = "disconnect" /\ ~connected
      BY <2>1, <3>1 DEF CompletesEarly
    <3>3. QED  BY <1>1, <3>2 DEF KindOf
  <2>5. MaySucceed(call)'
    BY <2>3, <2>4 DEF MaySucceed
  <2>6. QED  BY <1>3, <2>1, <2>2, <2>5
<1>9. CASE Block \/ PassOp
  <2>1. stack # <<>> /\ stack' = <<PassTo("transport", This)>> \o Tail(stack)
    BY <1>9 DEF Block, PassOp
  <2>2. PICK call \in Frame : call = PassTo("transport", This)
    BY <1>4, <2>1, CallType DEF Places
  <2>3. MaySucceed(call)'
    <3>1. call.at # "complete" \/ call.op \in failed'
      BY <1>1, <2>2 DEF PassTo, Call
    <3>2. QED  BY <3>1 DEF MaySucceed
  <2>4. QED  BY <1>3, <2>1, <2>2, <2>3
<1>10. QED  BY <1>5, <1>6, <1>7, <1>8, <1>9

LEMMA ReleaseResult ==
  ASSUME IInv, ResultInv, At("complete"), This \in wrapped, OnOperationComplete, UNCHANGED transportVars
  PROVE  ResultInv'
<1> DEFINE n == Len(queue)
<1>1. /\ stack # <<>> /\ 1 \in DOMAIN stack /\ stack[1].op = This /\ stack[1].at = "complete"
      /\ kind' = kind /\ connected' = connected /\ UNCHANGED <<pending, loop, sock>>
      /\ failed \subseteq failed'
  BY StackType DEF IInv, TypeOK, At, OnOperationComplete, transportVars
<1>2. PICK at \in {"serialize", "complete"} :
        /\ stack' = (Release(at) \o <<Call("complete", This)>>) \o Tail(stack)
        /\ at = "complete" => Queued \subseteq failed'
  BY DEF OnOperationComplete, Replace
<1>3. /\ n \in Nat /\ DOMAIN queue = 1..n
      /\ \A i \in DOMAIN stack' :
           \/ i \in 1..n /\ stack'[i].op = queue[i] /\ stack'[i].at = at
           \/ i = n + 1 /\ stack'[i].op = This /\ stack'[i].at = "complete"
           \/ /\ i \notin 1..(n + 1) /\ i - n # 1 /\ i - n \in DOMAIN stack
              /\ stack'[i] = stack[i - n]
  BY <1>1, <1>2, ReleasedStack
<1>4. \A op : KindOf(op)' = KindOf(op)
  BY <1>1 DEF KindOf
<1>5. LoopKept' /\ (Sheltered => Sheltered')
  BY <1>1, <1>4 DEF LoopKept, ResultInv, Sheltered
<1>6. ASSUME NEW i \in DOMAIN stack', NEW k, WillSucceed(i, k)'
      PROVE  \E j \in DOMAIN stack : WillSucceed(j, k) /\ (Safe(j) => Sheltered)
  <2>1. CASE i \in 1..n /\ stack'[i].op = queue[i] /\ stack'[i].at = at
    <3>1. at = "complete" /\ queue[i] \notin failed'
      BY <1>6, <2>1 DEF WillSucceed
    <3>2. queue[i] \in Queued
      BY <1>3, <2>1 DEF Queued
    <3>3. QED  BY <1>2, <3>1, <3>2
  <2>2. CASE stack'[i].op = This /\ stack'[i].at = "complete"
    <3>1. WillSucceed(1, k)
      BY <1>1, <1>4, <1>6, <2>2 DEF WillSucceed
    <3>2. Safe(1) => Sheltered
      BY <1>1 DEF Safe
    <3>3. QED  BY <1>1, <3>1, <3>2
  <2>3. CASE i - n # 1 /\ i - n \in DOMAIN stack /\ stack'[i] = stack[i - n]
    <3>1. WillSucceed(i - n, k)
      BY <1>1, <1>4, <1>6, <2>3 DEF WillSucceed
    <3>2. Safe(i - n) => Sheltered
      BY <2>3 DEF Safe
    <3>3. QED  BY <2>3, <3>1, <3>2
  <2>4. QED  BY <1>3, <2>1, <2>2, <2>3
<1>7. ASSUME NEW i \in DOMAIN stack', WillSucceed(i, "disconnect")' PROVE ~connected'
  <2>1. \E j \in DOMAIN stack : WillSucceed(j, "disconnect")
    BY <1>6, <1>7
  <2>2. QED  BY <1>1, <2>1 DEF ResultInv
<1>8. ASSUME NEW i \in DOMAIN stack', WillSucceed(i, "connect")' PROVE connected' /\ Safe(i)'
  <2>1. \E j \in DOMAIN stack : WillSucceed(j, "connect") /\ (Safe(j) => Sheltered)
    BY <1>6, <1>8
  <2>2. connected /\ Sheltered
    BY <2>1 DEF ResultInv
  <2>3. QED  BY <1>1, <1>5, <2>2 DEF Safe
<1>9. QED  BY <1>5, <1>7, <1>8 DEF ResultInv, LoopKept

LEMMA CompleteResult ==
  ASSUME IInv, ResultInv, CompleteOp, UNCHANGED transportVars
  PROVE  ResultInv'
<1>1. CASE This \in wrapped /\ OnOperationComplete
  BY <1>1, ReleaseResult DEF CompleteOp
<1>2. /\ stack # <<>> /\ This \in OpIds /\ UNCHANGED <<pending, loop, sock>> /\ kind' = kind
      /\ connected' = connected
  BY ThisType DEF CompleteOp, At, IInv, TypeOK, OnOperationComplete, OnConnectOpComplete, UserCallback, transportVars
<1>3. LoopKept' /\ (Sheltered => Sheltered')
  BY <1>2 DEF LoopKept, ResultInv, KindOf, Sheltered
<1>4. CASE OnConnectOpComplete /\ UNCHANGED serializeVars
  <2>1. User(This[1]) \in OpIds
    BY <1>2, OpIdsType
  <2>2. PICK call \in Frame : /\ stack' = <<call>> \o Tail(stack)
                              /\ call.at # "complete" \/ call.op \in failed'
    <3>1. CASE This \in failed
      <4>1. Call("complete", User(This[1])) \in Frame /\ Call("complete", User(This[1])).op = User(This[1])
        BY <2>1, CallType DEF Places, Call
      <4>2. QED  BY <1>4, <3>1, <4>1 DEF OnConnectOpComplete, Replace
    <3>2. CASE This \notin failed
      <4>1. PassTo("serialize", User(This[1])) \in Frame
        BY <2>1, CallType DEF Places
      <4>2. LET call == PassTo("serialize", User(This[1])) IN call.at # "complete" \/ call.op \in failed
        BY DEF PassTo, Call
      <4>3. stack' = <<PassTo("serialize", User(This[1]))>> \o Tail(stack) /\ failed' = failed
        BY <1>4, <3>2 DEF OnConnectOpComplete, Replace
      <4>4. QED  BY <4>1, <4>2, <4>3
    <3>3. QED  BY <3>1, <3>2
  <2>3. MaySucceed(call)'
    BY <2>2 DEF MaySucceed
  <2>4. failed \subseteq failed'
    BY <1>4 DEF OnConnectOpComplete
  <2>5. QED  BY <1>2, <1>3, <2>2, <2>3, <2>4, ResultReplace
<1>5. CASE UserCallback /\ UNCHANGED serializeVars
  BY <1>2, <1>3, <1>5, ResultPop DEF UserCallback, Return
<1>6. QED  BY <1>1, <1>4, <1>5 DEF CompleteOp

LEMMA TransportResult ==
  ASSUME IInv, ResultInv, TransportOps, UNCHANGED serializeVars
  PROVE  ResultInv'
<1> USE DEF serializeVars, transportVars, managerVars, pahoVars, Raise, Replace, Return
<1>1. stack # <<>> /\ kind' = kind
  BY DEF TransportOps, CancelPending, Connect, ConnectRaises, Disconnect, DisconnectInline, DisconnectRaises,
    SendRaises, Send, Establish, At, AtTransport
<1>2. /\ This \in OpIds /\ ~At("cancelled")
      /\ At("transport") /\ IsConnectionOp(This) => This \in wrapped /\ pending = NoOp
      /\ AtTransport(ConnectKinds) => At("transport") /\ IsConnectionOp(This)
      /\ AtTransport({"disconnect"}) => At("transport") /\ IsConnectionOp(This) /\ KindOf(This) = "disconnect"
  BY <1>1, AtTransportFacts DEF ConnectionKinds, AtTransport
<1>3. \A op : KindOf(op)' = KindOf(op) /\ NeedsConnection(op)' = NeedsConnection(op)
  BY <1>1 DEF KindOf, NeedsConnection
<1>4. LoopKept
  BY DEF ResultInv, LoopKept
<1>5. ASSUME NEW at \in Places, stack' = <<Call(at, This)>> \o Tail(stack),
             failed \subseteq failed', LoopKept', Sheltered => Sheltered',
             connected' = connected \/ (~connected' /\ ~Sheltered),
             \/ at # "complete" \/ This \in failed' \/ NeedsConnection(This)
             \/ KindOf(This) = "disconnect" /\ ~connected'
      PROVE  ResultInv'
  <2>1. PICK call \in Frame : call = Call(at, This)
    BY <1>2, CallType
  <2>2. call.at = at /\ call.op = This
    BY <2>1 DEF Call
  <2>3. MaySucceed(call)'
    <3>1. \/ call.at # "complete" \/ call.op \in failed' \/ NeedsConnection(call.op)
          \/ KindOf(call.op) = "disconnect" /\ ~connected'
      BY <1>5, <2>2
    <3>2. QED  BY <1>3, <3>1 DEF MaySucceed
  <2>4. QED  BY <1>1, <1>5, <2>1, <2>3, ResultReplace
<1>6. CASE CancelPending
  BY <1>2, <1>6 DEF CancelPending
<1>7. CASE Connect
  <2>1. pending' \in OpIds /\ pending' = This /\ loop' = (loop \/ KindOf(This) = "connect")
    BY <1>2, <1>7 DEF Connect
  <2>2. LoopKept'
    BY <1>3, <2>1 DEF LoopKept
  <2>3. Sheltered'
    BY <2>1, NoOpType DEF Sheltered
  <2>4. QED  BY <1>1, <1>7, <2>2, <2>3, ResultPop DEF Connect
<1>8. CASE ConnectRaises
  <2>1. LoopKept' /\ Sheltered'
    BY <1>8 DEF ConnectRaises, LoopKept, Sheltered
  <2>2. stack' = <<Call("complete", This)>> \o Tail(stack) /\ failed' = failed \union {This} /\ connected' = connected
    BY <1>8 DEF ConnectRaises
  <2>3. QED  BY <1>5, <2>1, <2>2 DEF Places
<1>9. CASE Disconnect
  <2>1. pending' = This /\ sock' = "none" /\ KindOf(This) = "disconnect"
    BY <1>2, <1>9 DEF Disconnect
  <2>2. LoopKept' /\ Sheltered'
    BY <1>3, <2>1 DEF LoopKept, Sheltered
  <2>3. QED  BY <1>1, <1>9, <2>2, ResultPop DEF Disconnect
<1>10. CASE DisconnectInline
  <2>1. ~Sheltered /\ KindOf(This) = "disconnect" /\ ~connected' /\ LoopKept'
    BY <1>2, <1>10 DEF DisconnectInline, Sheltered, LoopKept
  <2>2. stack' = <<Call("complete", This)>> \o Tail(stack) /\ failed' = failed
    BY <1>10 DEF DisconnectInline
  <2>3. QED  BY <1>5, <2>1, <2>2 DEF Places
<1>11. CASE DisconnectRaises
  <2>1. LoopKept' /\ Sheltered'
    BY <1>11 DEF DisconnectRaises, LoopKept, Sheltered
  <2>2. stack' = <<Call("complete", This)>> \o Tail(stack) /\ failed' = failed \union {This} /\ connected' = connected
    BY <1>11 DEF DisconnectRaises
  <2>3. QED  BY <1>5, <2>1, <2>2 DEF Places
<1>12. ASSUME UNCHANGED <<pending, sock, loop>>
       PROVE  LoopKept' /\ (Sheltered => Sheltered')
  BY <1>3, <1>4, <1>12 DEF LoopKept, Sheltered
<1>13. CASE SendRaises
  <2>1. /\ stack' = <<Call("complete", This)>> \o Tail(stack) /\ failed' = failed \union {This}
        /\ connected' = connected /\ UNCHANGED <<pending, sock, loop>>
    BY <1>13 DEF SendRaises
  <2>2. QED  BY <1>5, <1>12, <2>1 DEF Places
<1>14. CASE Send
  <2>1. /\ stack' = <<Call("establish", This)>> \o Tail(stack) /\ failed' = failed
        /\ connected' = connected /\ UNCHANGED <<pending, sock, loop>>
    BY <1>14 DEF Send
  <2>2. QED  BY <1>5, <1>12, <2>1 DEF Places
<1>15. CASE Establish
  <2>1. failed' = failed /\ connected' = connected /\ UNCHANGED <<pending, sock, loop>>
    BY <1>15 DEF Establish
  <2>2. NeedsConnection(This)
    <3>1. 1 \in DOMAIN stack /\ stack[1] = Head(stack) /\ stack[1].op = This
      BY <1>1, StackType DEF IInv, TypeOK
    <3>2. QED  BY <1>15, <3>1 DEF Establish, At, IInv, KindsInPlace
  <2>3. CASE stack' = <<Call("complete", This)>> \o Tail(stack)
    BY <1>5, <1>12, <2>1, <2>2, <2>3 DEF Places
  <2>4. CASE stack' = Tail(stack)
    BY <1>1, <1>12, <2>1, <2>4, ResultPop
  <2>5. QED  BY <1>15, <2>3, <2>4 DEF Establish
<1>16. QED
  BY <1>6, <1>7, <1>8, <1>9, <1>10, <1>11, <1>13, <1>14, <1>15 DEF TransportOps

LEMMA LibraryResult ==
  ASSUME ResultInv, Library, UNCHANGED serializeVars
  PROVE  ResultInv'
<1> USE DEF serializeVars, managerVars, pahoVars, opVars
<1>1. UNCHANGED <<kind, stack, failed, connected, wrapped, pending, loop>> /\ loop
  BY DEF Library, Connack, Refuse, Drop, AutoReconnect, Ack
<1>2. \A op : KindOf(op)' = KindOf(op)
  BY <1>1 DEF KindOf
<1>3. LoopKept' /\ Sheltered'
  BY <1>1 DEF LoopKept, Sheltered
<1>4. QED  BY <1>1, <1>2, <1>3, ResultQuiet

LEMMA SubmitResult ==
  ASSUME IInv, ResultInv, Application, UNCHANGED <<serializeVars, transportVars>>
  PROVE  ResultInv'
<1>1. PICK o \in UserOps, k \in UserKinds : Submit(o, k)
  BY DEF Application
<1>2. /\ kind[o] = "none" /\ \A p \in UserOps : p # o => kind'[p] = kind[p]
      /\ UNCHANGED <<stack, failed, connected, wrapped, pending, sock, loop>>
  BY <1>1 DEF Submit, IInv, TypeOK, OpsTypeOK, serializeVars, transportVars
<1>3. ~Below(User(o))
  <2>1. ~NeedsConnection(User(o))
    BY <1>2, OpIdsType DEF NeedsConnection, KindOf, AckedKinds
  <2>2. QED  BY <1>2, <2>1 DEF IInv, NotYetBelow, Untouched
<1>4. \A op \in OpIds : op # User(o) => KindOf(op)' = KindOf(op)
  BY <1>2, OpIdsType DEF KindOf
<1>5. \A i \in DOMAIN stack : stack[i].op \in OpIds /\ stack[i].op # User(o)
  BY <1>3, StackType DEF IInv, TypeOK, Below, OnStack
<1>6. \A i \in DOMAIN stack : KindOf(stack[i].op)' = KindOf(stack[i].op)
  <2>1. \A i \in DOMAIN stack : \A op : op = stack[i].op => KindOf(op)' = KindOf(op)
    BY <1>4, <1>5
  <2>2. QED  BY <1>2, <2>1 DEF KindOf
<1>7. LoopKept'
  <2>1. pending # NoOp => pending \in OpIds /\ pending # User(o)
    BY <1>3 DEF IInv, TypeOK, TransportTypeOK, Below
  <2>2. \A op : op = pending /\ op # NoOp => KindOf(op)' = KindOf(op)
    BY <1>4, <2>1
  <2>3. QED  BY <1>2, <2>2 DEF LoopKept, ResultInv
<1>8. Sheltered => Sheltered'
  BY <1>2 DEF Sheltered
<1>9. QED  BY <1>2, <1>6, <1>7, <1>8, ResultQuiet

LEMMA EventsResult ==
  ASSUME IInv, ResultInv, EventHandlers, UNCHANGED serializeVars
  PROVE  ResultInv'
<1> USE DEF serializeVars, managerVars, pahoVars, transportVars
<1>1. /\ stack = <<>> /\ tasks # <<>> /\ kind' = kind /\ UNCHANGED <<sock, loop>>
      /\ pending' = pending \/ pending' = NoOp
  BY DEF EventHandlers, OnMqttConnected, OnMqttConnectionFailure, OnMqttDisconnected, OnAcked, Starts,
         CompletePending
<1>2. \A op : KindOf(op)' = KindOf(op) /\ NeedsConnection(op)' = NeedsConnection(op)
  BY <1>1 DEF KindOf, NeedsConnection
<1>3. LoopKept'
  BY <1>1, <1>2 DEF ResultInv, LoopKept
<1>4. CASE UNCHANGED stack
  BY <1>1, <1>3, <1>4, ResultStart
<1>5. CASE OnAcked
  <2>1. Head(tasks).what = "acked" /\ Head(tasks) = tasks[1] /\ 1 \in DOMAIN tasks
    BY <1>1, <1>5, TailIndex DEF OnAcked, Starts, IInv, TypeOK, OpsTypeOK
  <2>2. Head(tasks).op \in OpIds
    BY <1>1, <2>1, NextTaskType DEF IInv, TypeOK
  <2>3. PICK op \in OpIds : op = Head(tasks).op /\ NeedsConnection(op)
    BY <2>1, <2>2 DEF IInv, KindsInPlace
  <2>4. PICK call \in Frame : call = Call("complete", op)
    BY CallType DEF Places
  <2>5. stack' = <<call>> /\ call.op = op
    BY <1>5, <2>3, <2>4 DEF OnAcked, Call
  <2>6. NeedsConnection(call.op)'
    BY <1>2, <2>3, <2>5
  <2>7. QED  BY <1>3, <2>5, <2>6, ResultStart
<1>6. CASE pending # NoOp /\ stack' = <<Call("complete", pending)>> /\ ~OnAcked
  <2>1. PICK op \in OpIds : op = pending
    BY <1>6 DEF IInv, TypeOK, TransportTypeOK
  <2>2. PICK call \in Frame : call = Call("complete", op)
    BY CallType DEF Places
  <2>3. stack' = <<call>> /\ call.op = op
    BY <1>6, <2>1, <2>2 DEF Call
  <2>4. \/ op \in failed'
        \/ KindOf(op) = "connect" /\ connected' /\ loop'
        \/ KindOf(op) = "reconnect"
        \/ KindOf(op) = "disconnect" /\ ~connected'
    <3>1. CASE OnMqttConnected
      <4>1. connected' /\ KindOf(op) \in ConnectKinds
        BY <1>1, <1>6, <2>1, <3>1 DEF OnMqttConnected, PendingIs
      <4>2. KindOf(op) = "connect" => loop'
        BY <1>1, <1>6, <2>1 DEF ResultInv
      <4>3. QED  BY <4>1, <4>2 DEF ConnectKinds
    <3>2. CASE OnMqttConnectionFailure
      BY <1>1, <1>6, <2>1, <3>2 DEF OnMqttConnectionFailure
    <3>3. CASE OnMqttDisconnected
      BY <1>1, <1>6, <2>1, <3>3 DEF OnMqttDisconnected, PendingIs
    <3>4. QED  BY <1>6, <3>1, <3>2, <3>3 DEF EventHandlers
  <2>5. \/ call.op \in failed'
        \/ KindOf(call.op)' = "connect" /\ connected' /\ loop'
        \/ KindOf(call.op)' = "reconnect"
        \/ KindOf(call.op)' = "disconnect" /\ ~connected'
    BY <1>2, <2>3, <2>4
  <2>6. QED  BY <1>3, <2>3, <2>5, ResultStart
<1>7. QED
  BY <1>4, <1>5, <1>6
     DEF EventHandlers, OnMqttConnected, OnMqttConnectionFailure, OnMqttDisconnected, CompletePending, PendingIs

LEMMA ResultStep == IInv /\ ResultInv /\ [Next]_vars => ResultInv'
<1> SUFFICES ASSUME IInv, ResultInv, [Next]_vars PROVE ResultInv'
  OBVIOUS
<1>1. CASE UNCHANGED vars
  BY <1>1 DEF vars, opVars, serializeVars, transportVars, ResultInv, WillSucceed, Safe, Sheltered, KindOf
<1>2. CASE Application /\ UNCHANGED <<serializeVars, transportVars>>
  BY <1>2, SubmitResult
<1>3. CASE Library /\ UNCHANGED serializeVars
  BY <1>3, LibraryResult
<1>4. CASE PipelineThread
  BY <1>4, UpperResult, CompleteResult, TransportResult, EventsResult DEF PipelineThread
<1>5. QED  BY <1>1, <1>2, <1>3, <1>4 DEF Next

(* Only the two callbacks that end an operation for its caller record an   *)
(* outcome, of the operation they are called for.                          *)
LEMMA OutcomeStep ==
  ASSUME IInv, [Next]_vars, outcome' # outcome
  PROVE  /\ At("complete") /\ This \in OpIds /\ This \notin wrapped /\ CompleteOp /\ UNCHANGED serializeVars
         /\ \A op \in OpIds : outcome'[op] # outcome[op] =>
              op = This /\ outcome'[op] = IF This \in failed THEN "failed" ELSE "ok"
<1>1. CompleteOp /\ UNCHANGED transportVars
  BY DEF vars, opVars, Next, PipelineThread, Application, Submit, Library, Connack, Refuse, Drop, AutoReconnect,
         Ack, StartOp, EnsureConnection, QueueOp, CompleteEarly, Block, PassOp, TransportOps, CancelPending,
         Connect, ConnectRaises, Disconnect, DisconnectInline, DisconnectRaises, SendRaises, Send, Establish,
         EventHandlers, OnMqttConnected, OnMqttConnectionFailure, OnMqttDisconnected, OnAcked
<1>2. /\ At("complete") /\ stack # <<>>
      /\ \/ This \notin wrapped /\ OnConnectOpComplete /\ UNCHANGED serializeVars
         \/ This \notin wrapped /\ UserCallback /\ UNCHANGED serializeVars
  BY <1>1 DEF CompleteOp, OnOperationComplete, At
<1>3. This \in OpIds /\ outcome \in [OpIds -> {"none", "ok", "failed"}]
  BY <1>2, ThisType DEF IInv, TypeOK, OpsTypeOK
<1>4. outcome' = [outcome EXCEPT ![This] = IF This \in failed THEN "failed" ELSE "ok"]
  BY <1>2 DEF OnConnectOpComplete, UserCallback, Record
<1>5. QED  BY <1>1, <1>2, <1>3, <1>4

(* A connect that succeeds leaves the pipeline connected, and a disconnect *)
(* that succeeds leaves it disconnected, also when the stage that          *)
(* serializes ran what was queued before it called the callback.           *)
THEOREM ResultMatchesConnectedHolds == Spec => ResultMatchesConnected
<1>1. Init => ResultInv
  BY DEF Init, OpsInit, TransportInit, ResultInv
<1>2. IInv /\ ResultInv /\ [Next]_vars =>
        [\A op \in OpIds : Completes(op, "ok") =>
           /\ KindOf(op) = "connect" => connected
           /\ KindOf(op) = "disconnect" => ~connected]_opVars
  <2> SUFFICES ASSUME IInv, ResultInv, [Next]_vars, NEW op \in OpIds, Completes(op, "ok")
               PROVE  /\ KindOf(op) = "connect" => connected
                      /\ KindOf(op) = "disconnect" => ~connected
    OBVIOUS
  <2>1. outcome'[op] # outcome[op] /\ outcome'[op] = "ok"
    BY DEF Completes
  <2>2. At("complete") /\ op = This /\ This \notin failed
    BY <2>1, OutcomeStep
  <2>3. 1 \in DOMAIN stack /\ stack[1].at = "complete" /\ stack[1].op = op
    BY <2>2, StackType DEF IInv, TypeOK, At
  <2>4. WillSucceed(1, KindOf(op))
    BY <2>2, <2>3 DEF WillSucceed, KindOf, IsAuto
  <2>5. QED  BY <2>3, <2>4 DEF ResultInv
<1>3. QED  BY Inductive, ResultStep, <1>1, <1>2, PTL DEF Spec, ResultMatchesConnected

(* HeldInv, SocketKnown and ResultInv, the strengthening of IInv that the  *)
(* promises to the callers need, hold in every state.                      *)
THEOREM CallersInvHolds == Spec => []CallersInv
<1>1. Init => SocketKnown
  BY DEF Init, TransportInit, SocketKnown
<1>2. Init => ResultInv
  BY DEF Init, OpsInit, TransportInit, ResultInv
<1>3. IInv => TypeOK
  BY DEF IInv
<1>4. CallersInv <=> HeldInv /\ SocketKnown /\ ResultInv
  BY DEF CallersInv
<1>5. QED  BY Inductive, HeldInvHolds, SocketStep, ResultStep, <1>1, <1>2, <1>3, <1>4, PTL DEF Spec

(* The inductive invariant of the connection pipeline, for any operations, *)
(* kinds and faults.                                                       *)
THEOREM PipelineCorrect == Spec => []PipelineInv
<1>1. IInv /\ CallersInv => PipelineInv
  BY DEF PipelineInv
<1>2. QED  BY Inductive, CallersInvHolds, <1>1, PTL

-----------------------------------------------------------------------------
(* The gate.  It is held by the one operation that is wrapped.             *)
HolderFits ==
  /\ wrapped = {} => Holder = NoOp
  /\ \A op \in OpIds : wrapped = {op} => Holder = op

LEMMA HolderIs == HolderFits
BY DEF HolderFits, Holder

LEMMA HolderIsNext == HolderFits'
BY HolderIs, PTL

(* An operation on the stack has not ended: it is counted there.           *)
LEMMA OnStackNotEnded ==
  ASSUME IInv, HeldInv, NEW op \in OpIds, OnStack(op)
  PROVE  outcome[op] = "none"
<1>1. PICK o \in UserOps : op = User(o) \/ op = AutoConnect(o)
  BY OpIdsType
<1>2. User(o) \in OpIds /\ AutoConnect(o) \in OpIds
  BY OpIdsType
<1>3. HeldAt(User(o)) \in Nat /\ HeldAt(AutoConnect(o)) \in Nat /\ HeldAt(op) >= 1
  BY <1>2, HeldType
<1>4. CASE op = User(o)
  <2>1. HeldAt(User(o)) + HeldAt(AutoConnect(o)) =
          IF kind[o] # "none" /\ outcome[User(o)] = "none" THEN 1 ELSE 0
    BY DEF HeldInv, HeldOnce
  <2>2. QED  BY <1>3, <1>4, <2>1
<1>5. CASE op = AutoConnect(o)
  <2>1. outcome[AutoConnect(o)] # "none" => HeldAt(AutoConnect(o)) = 0
    BY DEF HeldInv, AutoOnce
  <2>2. QED  BY <1>3, <1>5, <2>1
<1>6. QED  BY <1>1, <1>4, <1>5

(* A callback that is called ends the operation it belongs to.             *)
LEMMA GateEnds ==
  ASSUME IInv, HeldInv, [Next]_vars, outcome' # outcome
  PROVE  Gate!Next
<1>1. At("complete") /\ This \in OpIds /\ This \notin wrapped /\ wrapped' = wrapped
  BY OutcomeStep DEF serializeVars
<1>2. PICK op \in OpIds : op = This
  BY <1>1
<1>3. OnStack(op)
  BY <1>1, <1>2, StackType DEF IInv, TypeOK, At, OnStack
<1>4. outcome[op] = "none"
  BY <1>3, OnStackNotEnded
<1>5. /\ \A a \in OpIds : a # op => outcome'[a] = outcome[a]
      /\ outcome'[op] # "none"
  <2>1. \A a \in OpIds : outcome'[a] # outcome[a] => a = op /\ outcome'[a] \in {"ok", "failed"}
    BY <1>2, OutcomeStep
  <2>2. outcome \in [OpIds -> {"none", "ok", "failed"}]
    BY DEF IInv, TypeOK, OpsTypeOK
  <2>3. DOMAIN outcome' = OpIds
    BY <1>1, <2>2, OutcomeStep DEF CompleteOp, OnOperationComplete, OnConnectOpComplete, UserCallback, Record
  <2>4. \E f : outcome' = [a \in OpIds |-> f[a]]
    BY <2>2, OutcomeStep DEF CompleteOp, OnOperationComplete, OnConnectOpComplete, UserCallback, Record
  <2>5. PICK a \in OpIds : outcome'[a] # outcome[a]
    BY <2>2, <2>4
  <2>6. QED  BY <2>1, <2>5
<1>6. Holder' = Holder
  BY <1>1 DEF Holder
<1>7. op # Holder
  <2>1. CASE wrapped = {}
    BY <2>1, HolderIs, NoOpType DEF HolderFits
  <2>2. CASE wrapped # {}
    BY <1>1, <1>2, <2>2 DEF Holder
  <2>3. QED  BY <2>1, <2>2
<1>8. Gate!End(op)
  BY <1>4, <1>5, <1>6, <1>7 DEF Gate!End
<1>9. QED  BY <1>8 DEF Gate!Next

(* The stage that serializes takes the gate and gives it back.             *)
LEMMA GateMoves ==
  ASSUME IInv, HeldInv, [Next]_vars, wrapped' # wrapped
  PROVE  Gate!Next
<1>1. Block \/ (This \in wrapped /\ OnOperationComplete)
  BY DEF vars, serializeVars, Next, Application, PipelineThread, StartOp, EnsureConnection, QueueOp, CompleteEarly,
         PassOp, CompleteOp
<1>2. outcome' = outcome
  BY <1>1 DEF Block, OnOperationComplete
<1>3. UNCHANGED {op \in OpIds : outcome[op] # "none"}
  BY <1>2
<1>4. (blocked <=> wrapped # {}) /\ \A a, b \in wrapped : a = b
  BY DEF IInv, OneConnectionOp
<1>5. CASE Block
  <2>1. At("serialize") /\ ~blocked /\ wrapped' = wrapped \union {This}
    BY <1>5 DEF Block
  <2>2. stack # <<>> /\ This \in OpIds /\ OnStack(This)
    BY <2>1, StackType, ThisType DEF IInv, TypeOK, At, OnStack
  <2>3. PICK op \in OpIds : op = This
    BY <2>2
  <2>4. outcome[op] = "none"
    BY <2>2, <2>3, OnStackNotEnded
  <2>5. wrapped = {} /\ wrapped' = {op}
    BY <1>4, <2>1, <2>3
  <2>6. Holder = NoOp /\ Holder' = op
    BY <2>5, HolderIs, HolderIsNext DEF HolderFits
  <2>7. Gate!Take(op)
    BY <1>3, <2>4, <2>6 DEF Gate!Take
  <2>8. QED  BY <2>7 DEF Gate!Next
<1>6. CASE This \in wrapped /\ OnOperationComplete
  <2>1. PICK op \in wrapped : op = This
    BY <1>6
  <2>2. op \in OpIds
    BY <2>1 DEF IInv, TypeOK, SerializeTypeOK
  <2>3. wrapped = {op} /\ wrapped' = {}
    BY <1>4, <1>6, <2>1 DEF OnOperationComplete
  <2>4. Holder = op /\ Holder' = NoOp /\ op # NoOp
    BY <2>2, <2>3, HolderIs, HolderIsNext, NoOpType DEF HolderFits
  <2>5. Gate!GiveBack
    BY <1>3, <2>4 DEF Gate!GiveBack
  <2>6. QED  BY <2>5 DEF Gate!Next
<1>7. QED  BY <1>1, <1>5, <1>6

(* SerializeConnectOpsStage keeps the promise of the gate: each step of    *)
(* the pipeline takes it, gives it back, ends an operation that does not   *)
(* hold it and had not ended, or leaves it alone.                          *)
THEOREM ImplementsGateHolds == Spec => ImplementsGate
<1>1. Init => Gate!Init
  <2> SUFFICES ASSUME Init PROVE Gate!Init
    OBVIOUS
  <2>1. Holder = NoOp
    BY HolderIs DEF HolderFits, Init, SerializeInit
  <2>2. {op \in OpIds : outcome[op] # "none"} = {}
    BY DEF Init, OpsInit
  <2>3. QED  BY <2>1, <2>2 DEF Gate!Init
<1>2. IInv /\ HeldInv /\ [Next]_vars => [Gate!Next]_(Gate!gateVars)
  <2> SUFFICES ASSUME IInv, HeldInv, [Next]_vars PROVE [Gate!Next]_(Gate!gateVars)
    OBVIOUS
  <2>1. CASE outcome' # outcome
    BY <2>1, GateEnds
  <2>2. CASE wrapped' # wrapped
    BY <2>2, GateMoves
  <2>3. CASE outcome' = outcome /\ wrapped' = wrapped
    BY <2>3 DEF Gate!gateVars, Holder
  <2>4. QED  BY <2>1, <2>2, <2>3
<1>3. QED  BY Inductive, HeldInvHolds, <1>1, <1>2, PTL DEF Spec, ImplementsGate, Gate!Spec

-----------------------------------------------------------------------------
(* TransportStageAlone.  The places of an operation, counted one kind of   *)
(* place at a time.                                                        *)
PendingNow(op) == IF pending = op /\ ~Cancelling THEN 1 ELSE 0
AloneAdd ==
  \A op \in OpIds :
    /\ Positions(op) = InTasks(op) + InStack(op) + PendingNow(op) + AtManager(op)
    /\ InTasks(op) \in Nat /\ InStack(op) \in Nat /\ PendingNow(op) \in {0, 1} /\ AtManager(op) \in {0, 1}

LEMMA AloneAddsUp == OpsTypeOK => AloneAdd
<1> SUFFICES ASSUME OpsTypeOK, NEW op \in OpIds
             PROVE  /\ Positions(op) = InTasks(op) + InStack(op) + PendingNow(op) + AtManager(op)
                    /\ InTasks(op) \in Nat /\ InStack(op) \in Nat
                    /\ PendingNow(op) \in {0, 1} /\ AtManager(op) \in {0, 1}
  BY DEF AloneAdd
<1>1. tasks \in Seq(Task) /\ stack \in Seq(Frame)
  BY DEF OpsTypeOK
<1>2. \A i \in DOMAIN tasks : tasks[i] \in Task
  BY <1>1
<1>3. \A i \in DOMAIN stack : stack[i] \in Frame
  BY <1>1
<1>4. {i \in DOMAIN tasks : tasks[i].op = op} = {i \in DOMAIN tasks : tasks[i] \in TasksOf(op)}
  BY <1>2 DEF TasksOf
<1>5. {i \in DOMAIN stack : stack[i].op = op} = {i \in DOMAIN stack : stack[i] \in CallsOf(op)}
  BY <1>3 DEF CallsOf
<1>6. InTasks(op) \in Nat /\ InStack(op) \in Nat
  BY <1>1, CountType DEF InTasks, InStack
<1>7. PendingNow(op) \in {0, 1} /\ AtManager(op) \in {0, 1}
  BY DEF PendingNow, AtManager
<1>8. Positions(op) = InTasks(op) + InStack(op) + PendingNow(op) + AtManager(op)
  BY <1>4, <1>5 DEF Positions, InTasks, InStack, PendingNow, AtManager, Count
<1>9. QED  BY <1>6, <1>7, <1>8

LEMMA AloneAddsUpNext == OpsTypeOK' => AloneAdd'
BY AloneAddsUp, PTL

(* An operation on the stack is in no other place, and has not ended.      *)
LEMMA AloneOnStack ==
  ASSUME OpsTypeOK, InOnePlace, NEW i \in DOMAIN stack
  PROVE  LET op == stack[i].op IN
         /\ op \in OpIds /\ ~IsAuto(op) /\ kind[op[1]] # "none" /\ outcome[op] = "none"
         /\ InStack(op) = 1 /\ InTasks(op) = 0 /\ PendingNow(op) = 0 /\ AtManager(op) = 0
<1> DEFINE op == stack[i].op
<1>1. stack \in Seq(Frame) /\ op \in OpIds /\ stack[i] \in CallsOf(op)
  BY StackType DEF OpsTypeOK, CallsOf
<1>2. InStack(op) >= 1
  BY <1>1, CountFound DEF InStack
<1>3. /\ Positions(op) = InTasks(op) + InStack(op) + PendingNow(op) + AtManager(op)
      /\ InTasks(op) \in Nat /\ InStack(op) \in Nat /\ PendingNow(op) \in {0, 1} /\ AtManager(op) \in {0, 1}
  BY <1>1, AloneAddsUp DEF AloneAdd
<1>4. Positions(op) = IF ~IsAuto(op) /\ kind[op[1]] # "none" /\ outcome[op] = "none" THEN 1 ELSE 0
  BY <1>1 DEF InOnePlace
<1> HIDE DEF op
<1>5. ~IsAuto(op) /\ kind[op[1]] # "none" /\ outcome[op] = "none" /\ Positions(op) = 1
  BY <1>2, <1>3, <1>4
<1>6. InStack(op) = 1 /\ InTasks(op) = 0 /\ PendingNow(op) = 0 /\ AtManager(op) = 0
  BY <1>2, <1>3, <1>5
<1>7. QED  BY <1>1, <1>5, <1>6 DEF op

(* The shape of the stack.                                                 *)
LEMMA OneLong ==
  ASSUME NEW S, NEW s \in Seq(S), s # <<>>, Len(s) = 1
  PROVE  Tail(s) = <<>>
<1>1. Tail(s) \in Seq(S) /\ Len(Tail(s)) = 0
  BY TailIndex
<1>2. QED  BY <1>1, EmptySeq

LEMMA OnNothing ==
  ASSUME NEW S, NEW s \in Seq(S)
  PROVE  s \o <<>> = s
BY ConcatEmptySeq

LEMMA AloneStack ==
  ASSUME OpsTypeOK, OneCallAtATime, stack # <<>>, ~At("complete")
  PROVE  /\ Len(stack) = 1 /\ Tail(stack) = <<>> /\ This \in OpIds
         /\ Cancelling <=> At("cancelled")
         /\ At("transport") \/ At("cancelled") \/ At("establish")
<1>1. /\ DOMAIN stack = 1..Len(stack) /\ Len(stack) \in Nat /\ 1 \in DOMAIN stack
      /\ stack[1] = Head(stack) /\ This \in OpIds
  BY StackType, ThisType
<1>2. stack[1].at # "complete"
  BY <1>1 DEF At
<1>3. Len(stack) = 1
  BY <1>1, <1>2 DEF OneCallAtATime
<1>4. Tail(stack) = <<>>
  BY <1>3, OneLong DEF OpsTypeOK
<1>5. Cancelling <=> stack[1].at = "cancelled"
  BY <1>1, <1>3 DEF Cancelling
<1>6. stack[1].at \in {"transport", "cancelled", "establish"}
  BY <1>1, <1>2 DEF OneCallAtATime
<1>7. QED  BY <1>1, <1>3, <1>4, <1>5, <1>6 DEF At

LEMMA AloneCall ==
  ASSUME NEW at \in {"transport", "establish", "complete"}, NEW op \in OpIds, stack' = <<Call(at, op)>>
  PROVE  OneCallAtATime' /\ ~Cancelling'
<1>1. Len(stack') = 1 /\ DOMAIN stack' = {1} /\ stack'[1].at = at
  BY DEF Call
<1>2. QED  BY <1>1 DEF OneCallAtATime, Cancelling

LEMMA AloneReturns ==
  ASSUME stack' = <<>>
  PROVE  OneCallAtATime' /\ ~Cancelling'
<1>1. Len(stack') = 0 /\ DOMAIN stack' = {}
  OBVIOUS
<1>2. QED  BY <1>1 DEF OneCallAtATime, Cancelling

-----------------------------------------------------------------------------
(* No operation changes the number of its places.                          *)
Still == \A op \in OpIds : Positions(op)' = Positions(op)

LEMMA AloneAdvance ==
  ASSUME AloneInv, OpsTypeOK', stack # <<>>, ~At("complete"),
         NEW at \in {"establish", "complete"}, stack' = <<Call(at, This)>> \o Tail(stack),
         UNCHANGED <<tasks, established>>,
         \/ pending' = pending /\ ~At("cancelled")
         \/ pending' = NoOp /\ NothingToCancel
  PROVE  Still /\ OneCallAtATime'
<1>1. OpsTypeOK /\ AloneAdd /\ AloneAdd' /\ at \in Places
  BY AloneAddsUp, AloneAddsUpNext DEF AloneInv, Places
<1>2. This \in OpIds /\ Tail(stack) = <<>> /\ (Cancelling <=> At("cancelled"))
  BY AloneStack DEF AloneInv
<1>3. stack' = <<Call(at, This)>>
  BY <1>1, <1>2, OneCall, OnNothing
<1>4. OneCallAtATime' /\ ~Cancelling'
  BY <1>2, <1>3, AloneCall
<1>5. \A op \in OpIds : InStack(op)' = InStack(op) - (IF This = op THEN 1 ELSE 0) + (IF This = op THEN 1 ELSE 0)
  BY <1>1, <1>2, StackReplaces
<1>6. \A op \in OpIds : PendingNow(op)' = PendingNow(op)
  BY <1>2, <1>4, NoOpType DEF PendingNow, NothingToCancel
<1>7. ASSUME NEW op \in OpIds PROVE Positions(op)' = Positions(op)
  <2>1. InTasks(op)' = InTasks(op) /\ AtManager(op)' = AtManager(op)
    BY SamePlaces
  <2>2. InStack(op)' = InStack(op)
    BY <1>1, <1>5 DEF AloneAdd
  <2>3. QED  BY <1>1, <1>6, <2>1, <2>2 DEF AloneAdd
<1>8. QED  BY <1>4, <1>7 DEF Still

LEMMA AlonePend ==
  ASSUME AloneInv, OpsTypeOK', stack # <<>>, ~At("complete"), NothingToCancel,
         stack' = Tail(stack), pending' = This, established' = established,
         tasks' = tasks \/ \E e \in Events : tasks' = Append(tasks, Event(e))
  PROVE  Still /\ OneCallAtATime'
<1>1. OpsTypeOK /\ AloneAdd /\ AloneAdd'
  BY AloneAddsUp, AloneAddsUpNext DEF AloneInv
<1>2. This \in OpIds /\ stack' = <<>> /\ (Cancelling <=> At("cancelled"))
  BY AloneStack DEF AloneInv
<1>3. OneCallAtATime' /\ ~Cancelling'
  BY <1>2, AloneReturns
<1>4. ASSUME NEW op \in OpIds PROVE Positions(op)' = Positions(op)
  <2>1. InStack(op)' = InStack(op) - (IF This = op THEN 1 ELSE 0)
    BY <1>1, StackPops
  <2>2. InTasks(op)' = InTasks(op)
    BY <1>1, TasksAppendEvent, SamePlaces
  <2>3. AtManager(op)' = AtManager(op)
    BY SamePlaces
  <2>4. PendingNow(op) = 0 /\ PendingNow(op)' = IF This = op THEN 1 ELSE 0
    BY <1>2, <1>3, NoOpType DEF PendingNow, NothingToCancel
  <2>5. QED  BY <1>1, <2>1, <2>2, <2>3, <2>4 DEF AloneAdd
<1>5. QED  BY <1>3, <1>4 DEF Still

LEMMA AloneCancel ==
  ASSUME AloneInv, OpsTypeOK', CancelPending
  PROVE  Still /\ OneCallAtATime'
<1>1. OpsTypeOK /\ AloneAdd /\ AloneAdd' /\ stack # <<>> /\ At("transport") /\ ~At("complete") /\ ~At("cancelled")
  BY AloneAddsUp, AloneAddsUpNext DEF AloneInv, CancelPending, At
<1>2. This \in OpIds /\ Tail(stack) = <<>> /\ ~Cancelling
  BY <1>1, AloneStack DEF AloneInv
<1>3. pending \in OpIds /\ UNCHANGED <<tasks, established, pending>>
  BY DEF CancelPending, AloneInv, TransportTypeOK, transportVars
<1> DEFINE calls == <<Call("complete", pending), Call("cancelled", This)>>
<1>4. Call("complete", pending) \in Frame /\ Call("cancelled", This) \in Frame
  BY <1>2, <1>3, CallType DEF Places
<1>5. stack' = calls \o Tail(stack) /\ calls \in Seq(Frame)
  BY <1>4 DEF CancelPending, Replace
<1>6. stack' = calls
  <2> HIDE DEF calls
  <2>1. QED  BY <1>2, <1>5, OnNothing
<1>7. Len(stack') = 2 /\ DOMAIN stack' = {1, 2} /\ stack'[1].at = "complete" /\ stack'[2].at = "cancelled"
  BY <1>6 DEF Call
<1>8. OneCallAtATime' /\ Cancelling'
  BY <1>7 DEF OneCallAtATime, Cancelling
<1>9. pending # This
  <2>1. 1 \in DOMAIN stack /\ stack[1].op = This
    BY <1>1, StackType
  <2>2. PendingNow(stack[1].op) = 0
    BY <1>1, <2>1, AloneOnStack DEF AloneInv
  <2>3. QED  BY <1>2, <2>1, <2>2 DEF PendingNow
<1>10. ASSUME NEW op \in OpIds PROVE Positions(op)' = Positions(op)
  <2>1. Count(calls, CallsOf(op)) = (IF pending = op THEN 1 ELSE 0) + (IF This = op THEN 1 ELSE 0)
    <3> DEFINE first == <<Call("complete", pending)>>
               second == <<Call("cancelled", This)>>
    <3>1. calls = first \o second
      OBVIOUS
    <3>2. /\ first \in Seq(Frame) /\ second \in Seq(Frame)
          /\ Count(first, CallsOf(op)) = IF pending = op THEN 1 ELSE 0
          /\ Count(second, CallsOf(op)) = IF This = op THEN 1 ELSE 0
      BY <1>2, <1>3, OneCall DEF Places
    <3> HIDE DEF calls, first, second
    <3>3. Count(first \o second, CallsOf(op)) = Count(first, CallsOf(op)) + Count(second, CallsOf(op))
      BY <3>2, CountConcat
    <3>4. QED  BY <3>1, <3>2, <3>3
  <2> HIDE DEF calls
  <2>2. InStack(op)' = InStack(op) - (IF This = op THEN 1 ELSE 0) + Count(calls, CallsOf(op))
    BY <1>1, <1>5, StackMoves
  <2>3. InTasks(op)' = InTasks(op) /\ AtManager(op)' = AtManager(op)
    BY <1>3, SamePlaces
  <2>4. PendingNow(op)' = 0 /\ PendingNow(op) = IF pending = op THEN 1 ELSE 0
    BY <1>2, <1>8 DEF PendingNow
  <2>5. QED  BY <1>1, <1>9, <2>1, <2>2, <2>3, <2>4 DEF AloneAdd
<1>11. QED  BY <1>8, <1>10 DEF Still

LEMMA AloneEstablish ==
  ASSUME AloneInv, OpsTypeOK', Establish, This \notin unknown
  PROVE  Still /\ OneCallAtATime'
<1>1. OpsTypeOK /\ AloneAdd /\ AloneAdd' /\ stack # <<>> /\ ~At("complete") /\ ~At("cancelled")
  BY AloneAddsUp, AloneAddsUpNext DEF AloneInv, Establish, At
<1>2. This \in OpIds /\ Tail(stack) = <<>> /\ ~Cancelling
  BY <1>1, AloneStack DEF AloneInv
<1>3. stack' = Tail(stack) /\ established' = established \union {This} /\ UNCHANGED <<tasks, pending>>
  BY DEF Establish, Return
<1>4. OneCallAtATime' /\ ~Cancelling'
  BY <1>2, <1>3, AloneReturns
<1>5. This \notin established
  <2>1. 1 \in DOMAIN stack /\ stack[1].op = This
    BY <1>1, StackType
  <2>2. AtManager(stack[1].op) = 0
    BY <1>1, <2>1, AloneOnStack DEF AloneInv
  <2>3. QED  BY <2>1, <2>2 DEF AtManager
<1>6. ASSUME NEW op \in OpIds PROVE Positions(op)' = Positions(op)
  <2>1. InStack(op)' = InStack(op) - (IF This = op THEN 1 ELSE 0)
    BY <1>1, <1>3, StackPops
  <2>2. AtManager(op)' = AtManager(op) + (IF This = op THEN 1 ELSE 0)
    BY <1>3, <1>5 DEF AtManager
  <2>3. InTasks(op)' = InTasks(op)
    BY <1>3, SamePlaces
  <2>4. PendingNow(op)' = PendingNow(op)
    BY <1>2, <1>3, <1>4 DEF PendingNow
  <2>5. QED  BY <1>1, <2>1, <2>2, <2>3, <2>4 DEF AloneAdd
<1>7. QED  BY <1>4, <1>6 DEF Still

LEMMA AloneTransport ==
  ASSUME AloneInv, OpsTypeOK', TransportOps
  PROVE  Still /\ OneCallAtATime'
<1> USE DEF transportVars, managerVars, pahoVars, Raise, Replace, Return, At, AtTransport
<1>1. CASE CancelPending
  BY <1>1, AloneCancel
<1>2. CASE Connect
  BY <1>2, AlonePend DEF Connect
<1>3. CASE Disconnect
  BY <1>3, AlonePend DEF Disconnect, Events
<1>4. CASE ConnectRaises
  BY <1>4, AloneAdvance DEF ConnectRaises
<1>5. CASE DisconnectInline
  BY <1>5, AloneAdvance DEF DisconnectInline
<1>6. CASE DisconnectRaises
  BY <1>6, AloneAdvance DEF DisconnectRaises
<1>7. CASE SendRaises
  BY <1>7, AloneAdvance DEF SendRaises
<1>8. CASE Send
  BY <1>8, AloneAdvance DEF Send
<1>9. CASE Establish
  <2>1. CASE This \in unknown
    BY <1>9, <2>1, AloneAdvance DEF Establish
  <2>2. CASE This \notin unknown
    BY <1>9, <2>2, AloneEstablish
  <2>3. QED  BY <2>1, <2>2
<1>10. QED
  BY <1>1, <1>2, <1>3, <1>4, <1>5, <1>6, <1>7, <1>8, <1>9 DEF TransportOps

(* Steps that leave the stack alone.                                       *)
LEMMA AloneQuiet ==
  ASSUME AloneInv, OpsTypeOK', UNCHANGED <<stack, pending, established>>,
         \A op \in OpIds : InTasks(op)' = InTasks(op)
  PROVE  Still /\ OneCallAtATime'
<1>1. AloneAdd /\ AloneAdd'
  BY AloneAddsUp, AloneAddsUpNext DEF AloneInv
<1>2. \A op \in OpIds : PendingNow(op)' = PendingNow(op)
  BY DEF PendingNow, Cancelling
<1>3. ASSUME NEW op \in OpIds PROVE Positions(op)' = Positions(op)
  BY <1>1, <1>2, SamePlaces DEF AloneAdd
<1>4. OneCallAtATime'
  BY DEF AloneInv, OneCallAtATime
<1>5. QED  BY <1>3, <1>4 DEF Still

LEMMA AloneAck ==
  ASSUME AloneInv, OpsTypeOK', UNCHANGED <<stack, pending>>, NEW op \in established,
         established' = established \ {op}, tasks' = Append(tasks, AckTask(op))
  PROVE  Still /\ OneCallAtATime'
<1>1. op \in OpIds /\ OpsTypeOK /\ AloneAdd /\ AloneAdd'
  BY AloneAddsUp, AloneAddsUpNext DEF AloneInv, TransportTypeOK
<1>2. AckTask(op) \in Task /\ AckTask(op).op = op
  BY <1>1, TaskType DEF AckTask
<1>3. ASSUME NEW x \in OpIds PROVE Positions(x)' = Positions(x)
  <2>1. InTasks(x)' = InTasks(x) + (IF op = x THEN 1 ELSE 0)
    BY <1>1, <1>2, TasksAppend
  <2>2. AtManager(x)' + (IF op = x THEN 1 ELSE 0) = AtManager(x)
    BY DEF AtManager
  <2>3. InStack(x)' = InStack(x)
    BY SamePlaces
  <2>4. PendingNow(x)' = PendingNow(x)
    BY DEF PendingNow, Cancelling
  <2>5. QED  BY <1>1, <2>1, <2>2, <2>3, <2>4 DEF AloneAdd
<1>4. OneCallAtATime'
  BY DEF AloneInv, OneCallAtATime
<1>5. QED  BY <1>3, <1>4 DEF Still

LEMMA AloneLibrary ==
  ASSUME AloneInv, OpsTypeOK', Library
  PROVE  Still /\ OneCallAtATime'
<1> USE DEF managerVars, pahoVars, opVars
<1>1. OpsTypeOK
  BY DEF AloneInv
<1>2. CASE Connack \/ Drop
  BY <1>1, <1>2, TasksAppendEvent, AloneQuiet DEF Connack, Drop, Events
<1>3. CASE Refuse
  BY <1>1, <1>3, TasksAppendTwo, AloneQuiet DEF Refuse
<1>4. CASE AutoReconnect
  BY <1>4, SamePlaces, AloneQuiet DEF AutoReconnect
<1>5. CASE Ack
  <2>1. UNCHANGED <<stack, pending>>
    BY <1>5 DEF Ack
  <2>2. \/ \E op \in established : established' = established \ {op} /\ tasks' = Append(tasks, AckTask(op))
        \/ UNCHANGED <<established, tasks>>
    BY <1>5 DEF Ack
  <2>3. QED  BY <2>1, <2>2, SamePlaces, AloneAck, AloneQuiet
<1>6. QED  BY <1>2, <1>3, <1>4, <1>5 DEF Library

(* A task starts with the call of an operation that it names, or that is   *)
(* pending.                                                                *)
LEMMA AloneStart ==
  ASSUME AloneInv, OpsTypeOK', stack = <<>>, tasks # <<>>, tasks' = Tail(tasks), established' = established,
         NEW at \in {"transport", "complete"}, NEW op \in OpIds, stack' = <<Call(at, op)>>,
         \/ Head(tasks).op = op /\ pending' = pending
         \/ Head(tasks).op = NoOp /\ pending = op /\ pending' = NoOp
  PROVE  Still /\ OneCallAtATime'
<1>1. OpsTypeOK /\ AloneAdd /\ AloneAdd' /\ at \in Places
  BY AloneAddsUp, AloneAddsUpNext DEF AloneInv, Places
<1>2. OneCallAtATime' /\ ~Cancelling' /\ ~Cancelling
  BY AloneCall DEF Cancelling
<1>3. ASSUME NEW x \in OpIds PROVE Positions(x)' = Positions(x)
  <2>1. InTasks(x)' = InTasks(x) - (IF Head(tasks).op = x THEN 1 ELSE 0)
    BY <1>1, TasksPop
  <2>2. InStack(x) = 0 /\ InStack(x)' = IF op = x THEN 1 ELSE 0
    BY <1>1, StackStarts
  <2>3. AtManager(x)' = AtManager(x)
    BY SamePlaces
  <2>4. CASE Head(tasks).op = op /\ pending' = pending
    <3>1. PendingNow(x)' = PendingNow(x)
      BY <1>2, <2>4 DEF PendingNow
    <3>2. QED  BY <1>1, <2>1, <2>2, <2>3, <2>4, <3>1 DEF AloneAdd
  <2>5. CASE Head(tasks).op = NoOp /\ pending = op /\ pending' = NoOp
    <3>1. PendingNow(x)' = 0 /\ PendingNow(x) = IF op = x THEN 1 ELSE 0
      BY <1>2, <2>5, NoOpType DEF PendingNow
    <3>2. InTasks(x)' = InTasks(x)
      BY <1>1, <2>1, <2>5, NoOpType DEF AloneAdd
    <3>3. QED  BY <1>1, <2>2, <2>3, <3>1, <3>2 DEF AloneAdd
  <2>6. QED  BY <2>4, <2>5
<1>4. QED  BY <1>2, <1>3 DEF Still

LEMMA AloneEvents ==
  ASSUME AloneInv, OpsTypeOK', EventHandlers
  PROVE  Still /\ OneCallAtATime'
<1> USE DEF managerVars, pahoVars, transportVars
<1>1. OpsTypeOK /\ stack = <<>> /\ tasks # <<>> /\ tasks' = Tail(tasks) /\ established' = established
  BY DEF AloneInv, EventHandlers, OnMqttConnected, OnMqttConnectionFailure, OnMqttDisconnected, OnAcked, Starts
<1>2. CASE OnAcked
  <2>1. Head(tasks).op \in OpIds /\ stack' = <<Call("complete", Head(tasks).op)>> /\ pending' = pending
    BY <1>1, <1>2, NextTaskType DEF OnAcked, Starts
  <2>2. QED  BY <1>1, <2>1, AloneStart
<1>3. CASE OnMqttConnected \/ OnMqttConnectionFailure \/ OnMqttDisconnected
  <2>1. Head(tasks).op = NoOp
    <3>1. Head(tasks) \in Task /\ Head(tasks).what \in {"connected", "refused", "disconnected", "dropped"}
      BY <1>1, <1>3, NextTaskType DEF OnMqttConnected, OnMqttConnectionFailure, OnMqttDisconnected, Starts
    <3>2. QED  BY <3>1 DEF Task, Events
  <2>2. CASE UNCHANGED <<pending, stack>>
    <3>1. ASSUME NEW op \in OpIds PROVE InTasks(op)' = InTasks(op)
      <4>1. InTasks(op)' = InTasks(op) - (IF Head(tasks).op = op THEN 1 ELSE 0)
        BY <1>1, TasksPop
      <4>2. QED  BY <1>1, <2>1, <4>1, AloneAddsUp, NoOpType DEF AloneAdd
    <3>2. QED  BY <1>1, <2>2, <3>1, AloneQuiet
  <2>3. CASE pending # NoOp /\ CompletePending
    <3>1. pending \in OpIds /\ stack' = <<Call("complete", pending)>> /\ pending' = NoOp
      BY <2>3 DEF CompletePending, AloneInv, TransportTypeOK
    <3>2. QED  BY <1>1, <2>1, <3>1, AloneStart
  <2>4. QED  BY <1>3, <2>2, <2>3 DEF OnMqttConnected, OnMqttConnectionFailure, OnMqttDisconnected, PendingIs
<1>4. QED  BY <1>2, <1>3 DEF EventHandlers

-----------------------------------------------------------------------------
(* What is left of AloneInv.  The operations that wait for an              *)
(* acknowledgement are known by their kind, which does not change.         *)
LEMMA AckedTasks ==
  ASSUME OpsTypeOK, \A i \in DOMAIN tasks : tasks[i].what = "acked" => NeedsConnection(tasks[i].op),
         \/ tasks' = tasks
         \/ tasks # <<>> /\ tasks' = Tail(tasks)
         \/ \E t \in Task : (t.what = "acked" => NeedsConnection(t.op)) /\ tasks' = Append(tasks, t)
         \/ tasks' = tasks \o <<Event("refused"), Event("dropped")>>
  PROVE  \A i \in DOMAIN tasks' : tasks'[i].what = "acked" => NeedsConnection(tasks'[i].op)
<1>0. DOMAIN tasks = 1..Len(tasks) /\ Len(tasks) \in Nat
  BY DEF OpsTypeOK
<1>1. CASE tasks' = tasks
  BY <1>1
<1>2. CASE tasks # <<>> /\ tasks' = Tail(tasks)
  <2>1. /\ DOMAIN tasks' = 1..Len(tasks') /\ Len(tasks') = Len(tasks) - 1
        /\ \A i \in DOMAIN tasks' : tasks'[i] = tasks[i + 1]
    BY <1>2, TailIndex DEF OpsTypeOK
  <2>2. \A i \in DOMAIN tasks' : i + 1 \in DOMAIN tasks
    BY <2>1, <1>0
  <2>3. QED  BY <2>1, <2>2
<1>3. ASSUME NEW t \in Task, t.what = "acked" => NeedsConnection(t.op), tasks' = Append(tasks, t)
      PROVE  \A i \in DOMAIN tasks' : tasks'[i].what = "acked" => NeedsConnection(tasks'[i].op)
  <2>1. /\ DOMAIN tasks' = 1..(Len(tasks) + 1) /\ tasks'[Len(tasks) + 1] = t
        /\ \A i \in 1..Len(tasks) : tasks'[i] = tasks[i]
    BY <1>3, AppendIndex DEF OpsTypeOK
  <2>2. \A i \in DOMAIN tasks' : (i \in DOMAIN tasks /\ tasks'[i] = tasks[i]) \/ tasks'[i] = t
    BY <2>1, <1>0, RangeSplit
  <2>3. QED  BY <2>2, <1>3
<1>4. CASE tasks' = tasks \o <<Event("refused"), Event("dropped")>>
  <2>1. Event("refused") \in Task /\ Event("dropped") \in Task
    BY TaskType DEF Events
  <2>2. /\ DOMAIN tasks' = 1..(Len(tasks) + 2)
        /\ \A i \in 1..Len(tasks) : tasks'[i] = tasks[i]
        /\ tasks'[Len(tasks) + 1].what = "refused"
        /\ tasks'[Len(tasks) + 2].what = "dropped"
    BY <1>4, <2>1, AppendTwoIndex DEF OpsTypeOK, Event
  <2>3. \A i \in DOMAIN tasks' : (i \in DOMAIN tasks /\ tasks'[i] = tasks[i]) \/ tasks'[i].what # "acked"
    BY <2>2, <1>0, RangeSplit
  <2>4. QED  BY <2>3
<1>5. QED  BY <1>1, <1>2, <1>3, <1>4

AckedFits     == \A i \in DOMAIN tasks : tasks[i].what = "acked" => NeedsConnection(tasks[i].op)
EstablishFits == \A i \in DOMAIN stack : stack[i].at = "establish" => NeedsConnection(stack[i].op)

LEMMA SameKinds ==
  ASSUME kind' = kind
  PROVE  \A op : KindOf(op)' = KindOf(op) /\ NeedsConnection(op)' = NeedsConnection(op)
BY DEF KindOf, NeedsConnection, IsAuto

(* The call a step makes, if it makes one.                                 *)
LEMMA AloneCalls ==
  ASSUME AloneInv, kind' = kind, NEW at \in Places, NEW op \in OpIds, stack' = <<Call(at, op)>>,
         at = "establish" => NeedsConnection(op),
         at = "complete" /\ op \notin failed' =>
           /\ KindOf(op) = "connect" => connected'
           /\ KindOf(op) = "disconnect" => ~connected'
  PROVE  EstablishFits' /\ CallsAgree'
<1>1. DOMAIN stack' = {1} /\ stack'[1].at = at /\ stack'[1].op = op
  BY DEF Call
<1>2. \A x : KindOf(x)' = KindOf(x) /\ NeedsConnection(x)' = NeedsConnection(x)
  BY SameKinds
<1>3. QED  BY <1>1, <1>2 DEF EstablishFits, CallsAgree

LEMMA AloneNoCalls ==
  ASSUME stack' = <<>>
  PROVE  EstablishFits' /\ CallsAgree'
<1>1. DOMAIN stack' = {}
  OBVIOUS
<1>2. QED  BY <1>1 DEF EstablishFits, CallsAgree

LEMMA AloneSameCalls ==
  ASSUME AloneInv, UNCHANGED <<stack, kind, failed, connected>>
  PROVE  EstablishFits' /\ CallsAgree'
<1>1. \A x : KindOf(x)' = KindOf(x) /\ NeedsConnection(x)' = NeedsConnection(x)
  BY SameKinds
<1>2. QED  BY <1>1 DEF AloneInv, AckedInPlace, EstablishFits, CallsAgree

(* Operations that need a connection are neither connect nor disconnect.   *)
LEMMA AckedIsNot ==
  ASSUME NEW op, NeedsConnection(op)
  PROVE  KindOf(op) # "connect" /\ KindOf(op) # "disconnect" /\ KindOf(op) # "none"
BY DEF NeedsConnection, AckedKinds

LEMMA AloneTransportResults ==
  ASSUME AloneInv, TransportOps
  PROVE  AckedInPlace' /\ CallsAgree' /\ kind' = kind /\ outcome' = outcome
<1> USE DEF transportVars, managerVars, pahoVars, Raise, Replace, Return, AtTransport, KeptBySession
<1>1. OpsTypeOK /\ stack # <<>> /\ ~At("complete") /\ kind' = kind /\ outcome' = outcome
  BY DEF AloneInv, TransportOps, CancelPending, Connect, ConnectRaises, Disconnect, DisconnectInline, DisconnectRaises,
         SendRaises, Send, Establish, At
<1>2. This \in OpIds /\ Tail(stack) = <<>> /\ Len(stack) = 1
  BY <1>1, AloneStack DEF AloneInv
<1>3. \A x : KindOf(x)' = KindOf(x) /\ NeedsConnection(x)' = NeedsConnection(x)
  BY <1>1, SameKinds
<1>4. At("establish") => NeedsConnection(This)
  BY <1>1, StackType DEF AloneInv, AckedInPlace, At
<1>5. ASSUME NEW at \in Places, stack' = <<Call(at, This)>> \o Tail(stack)
      PROVE  stack' = <<Call(at, This)>>
  BY <1>2, <1>5, OneCall, OnNothing
<1>6. \A op \in inflight' \union established' : NeedsConnection(op)
  <2>1. \A op \in inflight \union established : NeedsConnection(op)
    BY DEF AloneInv, AckedInPlace
  <2>2. /\ inflight' \subseteq inflight \union (IF NeedsConnection(This) THEN {This} ELSE {})
        /\ established' \subseteq established \union (IF NeedsConnection(This) THEN {This} ELSE {})
    BY <1>4 DEF TransportOps, CancelPending, Connect, ConnectRaises, Disconnect, DisconnectInline, DisconnectRaises,
                SendRaises, Send, Establish
  <2>3. QED  BY <2>1, <2>2
<1>7. \A i \in DOMAIN tasks' : tasks'[i].what = "acked" => NeedsConnection(tasks'[i].op)
  <2>1. tasks' = tasks \/ tasks' = Append(tasks, Event("disconnected"))
    BY DEF TransportOps, CancelPending, Connect, ConnectRaises, Disconnect, DisconnectInline, DisconnectRaises,
           SendRaises, Send, Establish
  <2>2. Event("disconnected") \in Task /\ Event("disconnected").what # "acked"
    BY TaskType DEF Event, Events
  <2>3. QED  BY <1>1, <2>1, <2>2, AckedTasks DEF AloneInv, AckedInPlace
<1> DEFINE Goal == EstablishFits' /\ CallsAgree'
<1>8. ASSUME CancelPending PROVE Goal
  <2>1. stack' = <<Call("complete", pending), Call("cancelled", This)>> \o Tail(stack) /\ failed' = failed \union {pending}
    BY <1>8 DEF CancelPending
  <2>2. pending \in OpIds
    BY <1>8 DEF CancelPending, AloneInv, TransportTypeOK
  <2>3. <<Call("complete", pending), Call("cancelled", This)>> \in Seq(Frame)
    BY <1>2, <2>2, CallType DEF Places
  <2>4. stack' = <<Call("complete", pending), Call("cancelled", This)>>
    BY <1>2, <2>1, <2>3, OnNothing
  <2>5. /\ DOMAIN stack' = {1, 2} /\ stack'[1].at = "complete" /\ stack'[1].op = pending
        /\ stack'[2].at = "cancelled"
    BY <2>4 DEF Call
  <2>6. QED  BY <2>1, <2>5 DEF EstablishFits, CallsAgree
<1>9. ASSUME Connect \/ Disconnect PROVE Goal
  BY <1>2, <1>9, AloneNoCalls DEF Connect, Disconnect
<1>10. ASSUME ConnectRaises \/ DisconnectRaises \/ SendRaises PROVE Goal
  <2>1. stack' = <<Call("complete", This)>> /\ This \in failed'
    BY <1>5, <1>10 DEF ConnectRaises, DisconnectRaises, SendRaises, Places
  <2>2. QED  BY <1>1, <1>2, <2>1, AloneCalls DEF Places
<1>11. ASSUME DisconnectInline PROVE Goal
  <2>1. stack' = <<Call("complete", This)>> /\ connected' = FALSE /\ KindOf(This) = "disconnect"
    BY <1>5, <1>11 DEF DisconnectInline, Places
  <2>2. QED  BY <1>1, <1>2, <2>1, AloneCalls DEF Places
<1>12. ASSUME Send PROVE Goal
  <2>1. stack' = <<Call("establish", This)>> /\ NeedsConnection(This)
    BY <1>5, <1>12 DEF Send, Places
  <2>2. QED  BY <1>1, <1>2, <2>1, AloneCalls DEF Places
<1>13. ASSUME Establish PROVE Goal
  <2>1. NeedsConnection(This)
    BY <1>4, <1>13 DEF Establish
  <2>2. stack' = <<Call("complete", This)>> \/ stack' = <<>>
    BY <1>2, <1>5, <1>13 DEF Establish, Places
  <2>3. QED  BY <1>1, <1>2, <2>1, <2>2, AckedIsNot, AloneCalls, AloneNoCalls DEF Places
<1>14. Goal
  BY <1>8, <1>9, <1>10, <1>11, <1>12, <1>13 DEF TransportOps
<1>15. QED  BY <1>1, <1>3, <1>6, <1>7, <1>14 DEF AckedInPlace, EstablishFits

LEMMA AloneLibraryResults ==
  ASSUME AloneInv, Library
  PROVE  AckedInPlace' /\ CallsAgree' /\ kind' = kind /\ outcome' = outcome
<1> USE DEF managerVars, pahoVars, opVars, KeptBySession
<1>1. OpsTypeOK /\ TransportTypeOK /\ UNCHANGED <<kind, outcome, stack, failed, connected>>
  BY DEF AloneInv, Library, Connack, Refuse, Drop, AutoReconnect, Ack
<1>2. \A x : KindOf(x)' = KindOf(x) /\ NeedsConnection(x)' = NeedsConnection(x)
  BY <1>1, SameKinds
<1>3. EstablishFits' /\ CallsAgree'
  BY <1>1, AloneSameCalls
<1>4. \A op \in inflight' \union established' : NeedsConnection(op)
  <2>1. \A op \in inflight \union established : NeedsConnection(op)
    BY DEF AloneInv, AckedInPlace
  <2>2. inflight' \subseteq inflight /\ established' \subseteq established
    BY DEF Library, Connack, Refuse, Drop, AutoReconnect, Ack
  <2>3. QED  BY <2>1, <2>2
<1>5. \A i \in DOMAIN tasks' : tasks'[i].what = "acked" => NeedsConnection(tasks'[i].op)
  <2>1. \A e \in Events : Event(e) \in Task /\ Event(e).what # "acked"
    BY TaskType DEF Event, Events
  <2>2. \A op \in inflight : AckTask(op) \in Task /\ AckTask(op).op = op /\ NeedsConnection(op)
    BY <1>1, TaskType DEF TransportTypeOK, AckTask, AloneInv, AckedInPlace
  <2>3. \/ tasks' = tasks \/ (\E e \in Events : tasks' = Append(tasks, Event(e)))
        \/ (\E op \in inflight : tasks' = Append(tasks, AckTask(op)))
        \/ tasks' = tasks \o <<Event("refused"), Event("dropped")>>
    BY DEF Library, Connack, Refuse, Drop, AutoReconnect, Ack, Events
  <2>4. \/ tasks' = tasks
        \/ \E t \in Task : (t.what = "acked" => NeedsConnection(t.op)) /\ tasks' = Append(tasks, t)
        \/ tasks' = tasks \o <<Event("refused"), Event("dropped")>>
    BY <2>1, <2>2, <2>3
  <2>5. QED  BY <1>1, <2>4, AckedTasks DEF AloneInv, AckedInPlace
<1>6. QED  BY <1>1, <1>2, <1>3, <1>4, <1>5 DEF AckedInPlace, EstablishFits

(* A task that starts leaves the acknowledged operations alone.            *)
LEMMA AloneStartResults ==
  ASSUME AloneInv, kind' = kind, tasks # <<>>, tasks' = Tail(tasks), UNCHANGED <<inflight, established>>,
         EstablishFits'
  PROVE  AckedInPlace'
<1>1. \A x : NeedsConnection(x)' = NeedsConnection(x)
  BY SameKinds
<1>2. \A i \in DOMAIN tasks' : tasks'[i].what = "acked" => NeedsConnection(tasks'[i].op)
  BY AckedTasks DEF AloneInv, AckedInPlace
<1>3. QED  BY <1>1, <1>2 DEF AloneInv, AckedInPlace, EstablishFits

LEMMA AloneEventsResults ==
  ASSUME AloneInv, EventHandlers
  PROVE  AckedInPlace' /\ CallsAgree' /\ kind' = kind /\ outcome' = outcome
<1> USE DEF managerVars, pahoVars, transportVars
<1>1. /\ OpsTypeOK /\ stack = <<>> /\ tasks # <<>> /\ tasks' = Tail(tasks)
      /\ UNCHANGED <<kind, outcome, inflight, established>>
  BY DEF AloneInv, EventHandlers, OnMqttConnected, OnMqttConnectionFailure, OnMqttDisconnected, OnAcked, Starts
<1>2. "complete" \in Places /\ (pending # NoOp => pending \in OpIds)
  BY DEF Places, AloneInv, TransportTypeOK
<1>3. CASE OnAcked
  <2>1. /\ Head(tasks).op \in OpIds /\ Head(tasks).what = "acked"
        /\ stack' = <<Call("complete", Head(tasks).op)>>
    BY <1>1, <1>3, NextTaskType DEF OnAcked, Starts
  <2>2. 1 \in DOMAIN tasks /\ tasks[1] = Head(tasks)
    BY <1>1, TailIndex DEF OpsTypeOK
  <2>3. NeedsConnection(Head(tasks).op)
    BY <2>1, <2>2 DEF AloneInv, AckedInPlace
  <2>4. EstablishFits' /\ CallsAgree'
    BY <1>1, <1>2, <2>1, <2>3, AckedIsNot, AloneCalls
  <2>5. QED  BY <1>1, <2>4, AloneStartResults
<1>4. CASE stack' = <<>>
  BY <1>1, <1>4, AloneNoCalls, AloneStartResults
<1>5. CASE OnMqttConnected /\ pending # NoOp /\ KindOf(pending) \in ConnectKinds /\ CompletePending
  <2>1. stack' = <<Call("complete", pending)>> /\ connected' = TRUE /\ KindOf(pending) # "disconnect"
    BY <1>5 DEF OnMqttConnected, CompletePending, ConnectKinds
  <2>2. EstablishFits' /\ CallsAgree'
    BY <1>1, <1>2, <1>5, <2>1, AloneCalls
  <2>3. QED  BY <1>1, <2>2, AloneStartResults
<1>6. CASE pending # NoOp /\ CompletePending /\ pending \in failed'
  <2>1. EstablishFits' /\ CallsAgree'
    BY <1>1, <1>2, <1>6, AloneCalls DEF CompletePending
  <2>2. QED  BY <1>1, <2>1, AloneStartResults
<1>7. CASE OnMqttDisconnected /\ pending # NoOp /\ KindOf(pending) = "disconnect" /\ CompletePending
  <2>1. stack' = <<Call("complete", pending)>> /\ connected' = FALSE /\ KindOf(pending) # "connect"
    BY <1>7 DEF OnMqttDisconnected, CompletePending
  <2>2. EstablishFits' /\ CallsAgree'
    BY <1>1, <1>2, <1>7, <2>1, AloneCalls
  <2>3. QED  BY <1>1, <2>2, AloneStartResults
<1>8. QED
  BY <1>1, <1>3, <1>4, <1>5, <1>6, <1>7
     DEF EventHandlers, OnMqttConnected, OnMqttConnectionFailure, OnMqttDisconnected, PendingIs

-----------------------------------------------------------------------------
(* The steps of the stage and the library keep AloneInv.                   *)
LEMMA AloneKept ==
  ASSUME AloneInv, TransportOps \/ EventHandlers \/ Library
  PROVE  AloneInv'
<1>1. OpsTypeOK' /\ TransportTypeOK'
  BY LibraryType, TransportOpsType, EventHandlersType DEF AloneInv
<1>2. Still /\ OneCallAtATime'
  BY <1>1, AloneTransport, AloneEvents, AloneLibrary
<1>3. AckedInPlace' /\ CallsAgree' /\ kind' = kind /\ outcome' = outcome
  BY AloneTransportResults, AloneEventsResults, AloneLibraryResults
<1>4. InOnePlace'
  BY <1>2, <1>3 DEF AloneInv, InOnePlace, Still
<1>5. \A o \in UserOps : kind'[o] = "none" => outcome'[User(o)] = "none"
  BY <1>3 DEF AloneInv
<1>6. QED  BY <1>1, <1>2, <1>3, <1>4, <1>5 DEF AloneInv, User

LEMMA RunAtTransportKept ==
  ASSUME AloneInv, RunAtTransport
  PROVE  AloneInv'
<1>1. /\ OpsTypeOK /\ stack = <<>> /\ tasks # <<>> /\ tasks' = Tail(tasks)
      /\ stack' = <<Call("transport", Head(tasks).op)>>
      /\ UNCHANGED <<kind, failed, outcome, connected, transportVars>>
      /\ UNCHANGED <<pending, inflight, established>>
  BY DEF AloneInv, RunAtTransport, Starts, transportVars
<1>2. Head(tasks).op \in OpIds /\ Tail(tasks) \in Seq(Task)
  BY <1>1, NextTaskType DEF RunAtTransport, Starts
<1>3. <<Call("transport", Head(tasks).op)>> \in Seq(Frame)
  BY <1>2, CallType, SingleCall DEF Places
<1>4. OpsTypeOK'
  BY <1>1, <1>2, <1>3 DEF OpsTypeOK
<1>5. TransportTypeOK'
  BY <1>1 DEF AloneInv, TransportTypeOK, transportVars
<1>6. Still /\ OneCallAtATime'
  BY <1>1, <1>2, <1>4, AloneStart
<1>7. EstablishFits' /\ CallsAgree'
  BY <1>1, <1>2, AloneCalls DEF Places
<1>8. AckedInPlace'
  BY <1>1, <1>7, AloneStartResults
<1>9. InOnePlace' /\ \A o \in UserOps : kind'[o] = "none" => outcome'[User(o)] = "none"
  BY <1>1, <1>6 DEF AloneInv, InOnePlace, Still
<1>10. QED  BY <1>4, <1>5, <1>6, <1>7, <1>8, <1>9 DEF AloneInv, User

LEMMA AloneCallbackKept ==
  ASSUME AloneInv, At("complete"), UserCallback, UNCHANGED transportVars
  PROVE  AloneInv'
<1>1. /\ OpsTypeOK /\ stack # <<>> /\ stack' = Tail(stack)
      /\ UNCHANGED <<kind, tasks, failed, connected, pending, inflight, established>>
      /\ outcome' = [outcome EXCEPT ![This] = IF This \in failed THEN "failed" ELSE "ok"]
  BY DEF AloneInv, At, UserCallback, Return, Record, transportVars
<1>2. This \in OpIds /\ Tail(stack) \in Seq(Frame) /\ 1 \in DOMAIN stack /\ stack[1].op = This
  BY <1>1, ThisType, StackType
<1>3. OpsTypeOK'
  BY <1>1, <1>2 DEF OpsTypeOK
<1>4. TransportTypeOK'
  BY DEF AloneInv, TransportTypeOK, transportVars
<1>5. /\ DOMAIN stack = 1..Len(stack) /\ Len(stack) \in 1..2
      /\ DOMAIN stack' = 1..(Len(stack) - 1) /\ Len(stack') = Len(stack) - 1
      /\ \A i \in DOMAIN stack' : i + 1 \in DOMAIN stack /\ i + 1 = 2 /\ stack'[i] = stack[i + 1]
  <2>1. DOMAIN stack = 1..Len(stack) /\ Len(stack) \in Nat \ {0} /\ Len(stack) <= 2
    BY <1>1, StackType, TailIndex DEF AloneInv, OneCallAtATime, OpsTypeOK
  <2>2. /\ Len(stack') = Len(stack) - 1 /\ DOMAIN stack' = 1..Len(stack')
        /\ \A i \in 1..Len(stack') : stack'[i] = stack[i + 1]
    BY <1>1, TailIndex DEF OpsTypeOK
  <2>3. QED  BY <2>1, <2>2
<1>6. \A i \in DOMAIN stack' : stack'[i].at = "cancelled" /\ stack[2].at = "cancelled" /\ Len(stack) = 2
  <2>1. \A i \in DOMAIN stack' : Len(stack) = 2 /\ stack'[i] = stack[2]
    BY <1>5
  <2>2. QED  BY <2>1 DEF AloneInv, OneCallAtATime
<1>7. OneCallAtATime' /\ EstablishFits' /\ CallsAgree'
  BY <1>5, <1>6 DEF OneCallAtATime, EstablishFits, CallsAgree
<1>8. Cancelling' <=> Cancelling
  <2>1. stack[1].at = "complete"
    BY <1>1, StackType DEF At
  <2>2. \A i \in DOMAIN stack : i = 1 \/ (i = 2 /\ Len(stack) = 2)
    BY <1>5
  <2>3. Len(stack) = 2 => stack[2].at = "cancelled" /\ 1 \in DOMAIN stack' /\ stack'[1] = stack[2] /\ 2 \in DOMAIN stack
    BY <1>5 DEF AloneInv, OneCallAtATime
  <2>4. QED  BY <1>5, <1>6, <2>1, <2>2, <2>3 DEF Cancelling
<1>9. AckedInPlace'
  BY <1>1, <1>7, SameKinds DEF AloneInv, AckedInPlace, EstablishFits
<1>10. /\ ~IsAuto(This) /\ kind[This[1]] # "none" /\ InStack(This) = 1
       /\ InTasks(This) = 0 /\ PendingNow(This) = 0 /\ AtManager(This) = 0
  <2>1. LET op == stack[1].op IN
        /\ ~IsAuto(op) /\ kind[op[1]] # "none" /\ InStack(op) = 1
        /\ InTasks(op) = 0 /\ PendingNow(op) = 0 /\ AtManager(op) = 0
    BY <1>1, <1>2, AloneOnStack DEF AloneInv
  <2>2. QED  BY <1>2, <2>1
<1>11. AloneAdd /\ AloneAdd'
  BY <1>1, <1>3, AloneAddsUp, AloneAddsUpNext
<1>12. PICK this \in OpIds : this = This
  BY <1>2
<1>13. /\ outcome'[this] # "none"
       /\ \A op \in OpIds : op # this => outcome'[op] = outcome[op]
  BY <1>1, <1>12 DEF OpsTypeOK
<1>14. ASSUME NEW op \in OpIds
       PROVE  Positions(op)' = Positions(op) - (IF this = op THEN 1 ELSE 0)
  <2>1. InStack(op)' = InStack(op) - (IF this = op THEN 1 ELSE 0)
    BY <1>1, <1>12, StackPops
  <2>2. InTasks(op)' = InTasks(op) /\ AtManager(op)' = AtManager(op)
    BY <1>1, SamePlaces
  <2>3. PendingNow(op)' = PendingNow(op)
    BY <1>1, <1>8 DEF PendingNow
  <2>4. QED  BY <1>11, <2>1, <2>2, <2>3 DEF AloneAdd
<1>15. Positions(this) = 1
  BY <1>10, <1>11, <1>12 DEF AloneAdd
<1>16. InOnePlace'
  <2>1. \A op \in OpIds : op # this => Positions(op)' = Positions(op)
    BY <1>11, <1>14 DEF AloneAdd
  <2>2. Positions(this)' = 0
    BY <1>14, <1>15
  <2>3. QED  BY <1>1, <1>13, <2>1, <2>2 DEF AloneInv, InOnePlace
<1>17. \A o \in UserOps : kind'[o] = "none" => outcome'[User(o)] = "none"
  <2>1. \A o \in UserOps : kind[o] = "none" => User(o) # this
    BY <1>10, <1>12, OpIdsType
  <2>2. QED  BY <1>1, <1>13, <2>1, OpIdsType DEF AloneInv
<1>18. QED  BY <1>3, <1>4, <1>7, <1>9, <1>16, <1>17 DEF AloneInv, User

LEMMA AloneSubmitKept ==
  ASSUME AloneInv, NEW o \in UserOps, NEW k \in UserKinds, Submit(o, k), UNCHANGED transportVars
  PROVE  AloneInv'
<1>1. /\ OpsTypeOK /\ kind[o] = "none" /\ kind' = [kind EXCEPT ![o] = k]
      /\ tasks' = Append(tasks, RunTask(User(o)))
      /\ UNCHANGED <<stack, failed, outcome, connected, pending, inflight, established>>
  BY DEF AloneInv, Submit, transportVars
<1>2. k \in Kinds /\ k # "none" /\ User(o) \in OpIds /\ RunTask(User(o)) \in Task /\ RunTask(User(o)).op = User(o)
      /\ RunTask(User(o)).what = "run"
  BY OpsAssumption, OpIdsType, TaskType DEF Kinds, ConnectionKinds, ConnectKinds, AckedKinds, RunTask
<1>3. OpsTypeOK'
  <2>1. tasks' \in Seq(Task)
    BY <1>1, <1>2, AppendIndex DEF OpsTypeOK
  <2>2. kind' \in [UserOps -> Kinds \union {"none"}]
    BY <1>1, <1>2 DEF OpsTypeOK
  <2>3. QED  BY <1>1, <2>1, <2>2 DEF OpsTypeOK
<1>4. TransportTypeOK'
  BY DEF AloneInv, TransportTypeOK, transportVars
<1>5. AloneAdd /\ AloneAdd'
  BY <1>1, <1>3, AloneAddsUp, AloneAddsUpNext
<1>6. /\ kind'[o] = k
      /\ \A p \in UserOps : p # o => kind'[p] = kind[p]
  BY <1>1 DEF OpsTypeOK
<1>7. \A op \in OpIds : IsAuto(op) \/ op[1] # o => KindOf(op)' = KindOf(op)
  BY <1>6, OpIdsType DEF KindOf, IsAuto
<1>8. \A op \in OpIds : op = User(o) \/ IsAuto(op) \/ op[1] # o
  BY OpIdsType
<1>9. KindOf(User(o)) = "none"
  BY <1>1, OpIdsType DEF KindOf
<1>10. \A op \in OpIds : NeedsConnection(op) => NeedsConnection(op)'
  <2>1. ~NeedsConnection(User(o))
    BY <1>9, AckedIsNot
  <2>2. QED  BY <1>7, <1>8, <2>1 DEF NeedsConnection
<1>11. \A i \in DOMAIN stack : stack[i].op \in OpIds /\ KindOf(stack[i].op)' = KindOf(stack[i].op)
  <2> TAKE i \in DOMAIN stack
  <2>1. LET op == stack[i].op IN op \in OpIds /\ ~IsAuto(op) /\ kind[op[1]] # "none"
    BY <1>1, AloneOnStack DEF AloneInv
  <2>2. QED  BY <1>1, <1>7, <2>1
<1>12. OneCallAtATime' /\ EstablishFits' /\ CallsAgree'
  <2>1. OneCallAtATime'
    BY <1>1 DEF AloneInv, OneCallAtATime
  <2>2. EstablishFits'
    BY <1>1, <1>10, <1>11 DEF AloneInv, AckedInPlace, EstablishFits
  <2>3. CallsAgree'
    BY <1>1, <1>11 DEF AloneInv, CallsAgree
  <2>4. QED  BY <2>1, <2>2, <2>3
<1>13. AckedInPlace'
  <2>1. \A op \in inflight' \union established' : op \in OpIds /\ NeedsConnection(op)
    BY <1>1 DEF AloneInv, AckedInPlace, TransportTypeOK
  <2>2. \A i \in DOMAIN tasks' : tasks'[i].what = "acked" => NeedsConnection(tasks'[i].op)
    BY <1>1, <1>2, AckedTasks DEF AloneInv, AckedInPlace
  <2>3. \A i \in DOMAIN tasks' : tasks'[i].what = "acked" => tasks'[i].op \in OpIds
    <3>1. \A i \in DOMAIN tasks' : tasks'[i] \in Task
      BY <1>3 DEF OpsTypeOK
    <3>2. QED  BY <3>1 DEF Task, Events
  <2>4. AckedFits'
    BY <2>2, <2>3, <1>10 DEF AckedFits
  <2>5. QED  BY <1>10, <1>12, <2>1, <2>4 DEF AckedInPlace, AckedFits, EstablishFits
<1>14. ASSUME NEW op \in OpIds
       PROVE  Positions(op)' = Positions(op) + (IF User(o) = op THEN 1 ELSE 0)
  <2>1. InTasks(op)' = InTasks(op) + (IF User(o) = op THEN 1 ELSE 0)
    BY <1>1, <1>2, TasksAppend
  <2>2. InStack(op)' = InStack(op) /\ AtManager(op)' = AtManager(op)
    BY <1>1, SamePlaces
  <2>3. PendingNow(op)' = PendingNow(op)
    BY <1>1 DEF PendingNow, Cancelling
  <2>4. QED  BY <1>5, <2>1, <2>2, <2>3 DEF AloneAdd
<1>15. InOnePlace'
  <2>1. Positions(User(o))' = 1
    <3>1. Positions(User(o)) = 0
      BY <1>1, <1>2, OpIdsType DEF AloneInv, InOnePlace
    <3>2. QED  BY <1>2, <1>14, <3>1
  <2>2. outcome[User(o)] = "none"
    BY <1>1 DEF AloneInv
  <2>3. \A op \in OpIds : op # User(o) => Positions(op)' = Positions(op)
    BY <1>5, <1>14 DEF AloneAdd
  <2>4. \A op \in OpIds : op # User(o) => IsAuto(op) \/ kind'[op[1]] = kind[op[1]]
    BY <1>6, <1>8, OpIdsType
  <2>5. User(o)[1] = o /\ ~IsAuto(User(o))
    BY OpIdsType
  <2>6. QED  BY <1>1, <1>2, <1>6, <2>1, <2>2, <2>3, <2>4, <2>5 DEF AloneInv, InOnePlace
<1>16. \A p \in UserOps : kind'[p] = "none" => outcome'[User(p)] = "none"
  BY <1>1, <1>2, <1>6 DEF AloneInv
<1>17. QED  BY <1>3, <1>4, <1>12, <1>13, <1>15, <1>16 DEF AloneInv, User

(* The inductive invariant of the transport stage on its own.              *)
THEOREM AloneInvHolds == AloneSpec => []AloneInv
<1>1. AloneInit => AloneInv
  <2> SUFFICES ASSUME AloneInit PROVE AloneInv
    OBVIOUS
  <2>1. OpsTypeOK /\ TransportTypeOK
    <3>1. kind \in [UserOps -> Kinds \union {"none"}] /\ outcome \in [OpIds -> {"none", "ok", "failed"}]
      BY DEF AloneInit, OpsInit
    <3>2. tasks \in Seq(Task) /\ stack \in Seq(Frame)
      BY DEF AloneInit, OpsInit
    <3>3. OpsTypeOK
      BY <3>1, <3>2 DEF AloneInit, OpsInit, OpsTypeOK
    <3>4. 0 \in 0..MaxFaults
      BY FaultsAssumption
    <3>5. TransportTypeOK
      BY <3>4, Zenon DEF AloneInit, TransportInit, TransportTypeOK
    <3>6. QED  BY <3>3, <3>5
  <2>2. OneCallAtATime /\ AckedInPlace /\ CallsAgree
    BY DEF AloneInit, OpsInit, TransportInit, OneCallAtATime, AckedInPlace, CallsAgree
  <2>3. \A op \in OpIds : kind[op[1]] = "none" /\ Positions(op) = 0
    <3> TAKE op \in OpIds
    <3>1. InTasks(op) = 0 /\ InStack(op) = 0
      BY CountSmall DEF InTasks, InStack, AloneInit, OpsInit
    <3>2. PendingNow(op) = 0 /\ AtManager(op) = 0
      BY NoOpType DEF PendingNow, AtManager, AloneInit, TransportInit
    <3>3. Positions(op) = 0
      BY <2>1, <3>1, <3>2, AloneAddsUp DEF AloneAdd
    <3>4. QED  BY <3>3, OpIdsType DEF AloneInit, OpsInit
  <2>4. InOnePlace
    BY <2>3 DEF InOnePlace
  <2>5. \A o \in UserOps : outcome[User(o)] = "none"
    BY OpIdsType DEF AloneInit, OpsInit
  <2>6. QED  BY <2>1, <2>2, <2>4, <2>5 DEF AloneInv
<1>2. AloneInv /\ [AloneNext]_aloneVars => AloneInv'
  <2> SUFFICES ASSUME AloneInv, [AloneNext]_aloneVars PROVE AloneInv'
    OBVIOUS
  <2>1. CASE UNCHANGED aloneVars
    BY <2>1 DEF aloneVars, opVars, transportVars, AloneInv, OpsTypeOK, TransportTypeOK, OneCallAtATime, InOnePlace,
                AckedInPlace, CallsAgree, Positions, Cancelling, NeedsConnection, KindOf, IsAuto, User
  <2>2. CASE AloneNext
    BY <2>2, AloneSubmitKept, RunAtTransportKept, AloneCallbackKept, AloneKept DEF AloneNext, StageThread
  <2>3. QED  BY <2>1, <2>2
<1>3. QED  BY <1>1, <1>2, PTL DEF AloneSpec

(* Without the stages above, a connection operation that arrives while     *)
(* another is pending cancels it: the cancelled one is called back exactly *)
(* once and is then in no place where a late answer could find it.         *)
THEOREM CancelledOnceHolds == AloneSpec => []CancelledOnce
<1>1. AloneInv => CancelledOnce
  <2>1. \A o \in UserOps : User(o) \in OpIds /\ ~IsAuto(User(o)) /\ User(o)[1] = o
    BY OpIdsType
  <2>2. QED  BY <2>1 DEF AloneInv, InOnePlace, CancelledOnce
<1>2. QED  BY AloneInvHolds, <1>1, PTL

(* There, too, a result agrees with the connection, however the answers to *)
(* operations that were cancelled meanwhile arrive.                        *)
THEOREM AloneResultsHold == AloneSpec => ResultMatchesConnected
<1>1. AloneInv /\ [AloneNext]_aloneVars =>
        [\A op \in OpIds : Completes(op, "ok") =>
           /\ KindOf(op) = "connect" => connected
           /\ KindOf(op) = "disconnect" => ~connected]_opVars
  <2> SUFFICES ASSUME AloneInv, [AloneNext]_aloneVars, NEW op \in OpIds, Completes(op, "ok")
               PROVE  /\ KindOf(op) = "connect" => connected
                      /\ KindOf(op) = "disconnect" => ~connected
    OBVIOUS
  <2>1. outcome'[op] # outcome[op] /\ outcome'[op] = "ok"
    BY DEF Completes
  <2>2. At("complete") /\ UserCallback
    <3>1. TransportOps \/ EventHandlers \/ Library => outcome' = outcome
      BY AloneTransportResults, AloneEventsResults, AloneLibraryResults
    <3>2. RunAtTransport \/ UNCHANGED aloneVars => outcome' = outcome
      BY DEF RunAtTransport, aloneVars, opVars
    <3>3. (\E o \in UserOps, k \in UserKinds : Submit(o, k)) => outcome' = outcome
      BY DEF Submit
    <3>4. QED  BY <2>1, <3>1, <3>2, <3>3 DEF AloneNext, StageThread
  <2>3. OpsTypeOK /\ This \in OpIds /\ 1 \in DOMAIN stack /\ stack[1].op = This /\ stack[1].at = "complete"
    BY <2>2, StackType, ThisType DEF AloneInv, At
  <2>4. op = This /\ This \notin failed
    BY <2>1, <2>2, <2>3 DEF UserCallback, Record, OpsTypeOK
  <2>5. QED  BY <2>3, <2>4 DEF AloneInv, CallsAgree
<1>2. QED  BY AloneInvHolds, <1>1, PTL DEF AloneSpec, ResultMatchesConnected
=============================================================================
