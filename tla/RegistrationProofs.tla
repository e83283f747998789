-------------------------- MODULE RegistrationProofs --------------------------
(***************************************************************************)
(* Proofs about Registration: every trigger in the queue has a thread that *)
(* will carry it out, and no callback is called twice.  A registration     *)
(* that nothing disturbs is carried on by one thing at a time: when it is  *)
(* over no timer runs, and when its callback is called there is no         *)
(* connection.                                                             *)
(***************************************************************************)
EXTENDS Registration, SequenceTheorems, TLAPS

(* The initial states satisfy the invariant.                               *)
LEMMA InitInv == Init => CallsInv
<1> SUFFICES ASSUME Init PROVE CallsInv OBVIOUS
<1> USE RegistrationAssumption DEF Init
<1>1. TypeOK
  <2>1. call \in [Calls -> {"idle", "stored", "waiting", "raised"}] OBVIOUS
  <2>2. called \in [Calls -> Nat] OBVIOUS
  <2>3. again \in 0..MaxAgain /\ faults \in 0..MaxFaults OBVIOUS
  <2>4. state \in States BY DEF States
  <2>5. ops \in Seq({"subscribe"} \union Ends) /\ tasks \in Seq(Tasks)
        /\ triggers \in Seq(Triggers)
    OBVIOUS
  <2> HIDE DEF Init
  <2>6. QED BY <2>1, <2>2, <2>3, <2>4, <2>5 DEF TypeOK, Init
<1>2. QueueServed BY DEF QueueServed, Calls
<1>3. StoredUncalled BY DEF StoredUncalled, Calls
<1>4. CalledOnce BY DEF CalledOnce
<1>5. QED BY <1>1, <1>2, <1>3, <1>4 DEF CallsInv

-----------------------------------------------------------------------------
(* What the callback thread takes off its queue is one of its tasks.       *)
LEMMA HeadTask ==
  ASSUME TypeOK, tasks # <<>>
  PROVE  /\ Head(tasks) \in Tasks /\ Tail(tasks) \in Seq(Tasks)
         /\ Head(tasks).what = "response" =>
              Head(tasks).rid \in Nat /\ Head(tasks).status \in Statuses
         /\ Head(tasks).what = "disconnected" => Head(tasks).why \in Ends
<1>1. Head(tasks) \in Tasks /\ Tail(tasks) \in Seq(Tasks) BY DEF TypeOK
<1>2. QED BY <1>1 DEF Tasks

(* What the pipeline puts there is one, too.                               *)
LEMMA NewTask ==
  /\ [what |-> "subscribed"] \in Tasks
  /\ \A why \in Ends : [what |-> "disconnected", why |-> why] \in Tasks
  /\ \A rid \in Nat, status \in Statuses :
       [what |-> "response", rid |-> rid, status |-> status] \in Tasks
BY DEF Tasks

(* The handler of a response fires one of the triggers, or none.           *)
LEMMA HandleFires ==
  ASSUME NEW rid, NEW status
  PROVE  Handle(rid, status) \in Triggers \union {"none"}
BY DEF Handle, Triggers

(* A thread that fires a trigger leaves the queue one.                     *)
LEMMA FireTypes ==
  ASSUME TypeOK, NEW t \in Calls \union Timers \union {CallbackThread},
         NEW trigger \in Triggers, Fire(t, trigger)
  PROVE  /\ state' \in States
         /\ triggers' \in Seq(Triggers)
         /\ processor' \in Calls \union Timers \union {CallbackThread, None}
BY DEF TypeOK, Fire

(* A transition leaves what it changes in its type.                        *)
LEMMA TransitionTypes ==
  ASSUME TypeOK, NEW trigger \in Triggers, Transition(trigger)
  PROVE  /\ state' \in States
         /\ sent' \in Nat /\ queries' \subseteq Nat /\ operations' \subseteq Nat
         /\ queryTimer' \in Timers \union {None} /\ pollTimer' \in Timers \union {None}
         /\ armed' \subseteq Timers /\ fired' \subseteq Timers
         /\ tasks' = tasks /\ ops' \in Seq({"subscribe"} \union Ends)
         /\ unanswered' \subseteq Nat
         /\ UNCHANGED <<open, again, faults>>
<1> DEFINE Goal == /\ state' \in States
                   /\ sent' \in Nat /\ queries' \subseteq Nat /\ operations' \subseteq Nat
                   /\ queryTimer' \in Timers \union {None}
                   /\ pollTimer' \in Timers \union {None}
                   /\ armed' \subseteq Timers /\ fired' \subseteq Timers
                   /\ tasks' = tasks /\ ops' \in Seq({"subscribe"} \union Ends)
                   /\ unanswered' \subseteq Nat
                   /\ UNCHANGED <<open, again, faults>>
<1> USE DEF TypeOK, States, To, RunOp, timers, network
<1>1. ASSUME InitializeRegister PROVE Goal BY <1>1 DEF InitializeRegister
<1>2. ASSUME Stay PROVE Goal BY <1>2 DEF Stay
<1>3. ASSUME NEW query \in BOOLEAN, SendRequest(query) PROVE Goal
  BY <1>3 DEF SendRequest, SetQueryTimer, Publish, Timers
<1>4. ASSUME NEW does \in {"send", "poll"}, WaitForInterval(does) PROVE Goal
  BY <1>4 DEF WaitForInterval, Timers
<1>5. ASSUME NEW dest \in States, NEW why \in Ends, End(dest, why) PROVE Goal
  BY <1>5 DEF End, ClearTimers, Disconnect
<1>6. QED BY <1>1, <1>2, <1>3, <1>4, <1>5 DEF Transition, Ends

(* Each step leaves the variables in their types.                          *)
LEMMA TypeStep == TypeOK /\ [Next]_vars => TypeOK'
<1> SUFFICES ASSUME TypeOK, [Next]_vars PROVE TypeOK' OBVIOUS
<1> USE RegistrationAssumption DEF TypeOK
<1>1. ASSUME NEW c \in Calls, Call(c) PROVE TypeOK'
  BY <1>1 DEF Call, machine, client, requests, timers, network
<1>2. ASSUME NEW c \in Calls, CallFires(c) PROVE TypeOK'
  <2>1. (IF c \in Registers THEN "register" ELSE "cancel") \in Triggers BY DEF Triggers
  <2>2. /\ state' \in States
        /\ triggers' \in Seq(Triggers)
        /\ processor' \in Calls \union Timers \union {CallbackThread, None}
    BY <1>2, <2>1, FireTypes DEF CallFires
  <2>3. call' \in [Calls -> {"idle", "stored", "waiting", "raised"}]
    BY <1>2 DEF CallFires
  <2>4. QED BY <1>2, <2>2, <2>3 DEF CallFires, requests, timers, network
<1>3. CASE Process
  <2>1. Head(triggers) \in Triggers /\ Transition(Head(triggers)) BY <1>3 DEF Process
  <2>2. /\ state' \in States
        /\ sent' \in Nat /\ queries' \subseteq Nat /\ operations' \subseteq Nat
        /\ queryTimer' \in Timers \union {None} /\ pollTimer' \in Timers \union {None}
        /\ armed' \subseteq Timers /\ fired' \subseteq Timers
        /\ tasks' = tasks /\ ops' \in Seq({"subscribe"} \union Ends)
        /\ unanswered' \subseteq Nat
        /\ UNCHANGED <<open, again, faults>>
    BY <2>1, TransitionTypes
  <2>3. pending' \subseteq Nat /\ handled' \in Nat
    BY <1>3, <2>2 DEF Process, NewRequest
  <2>4. triggers' \in Seq(Triggers)
        /\ processor' \in Calls \union Timers \union {CallbackThread, None}
    BY <1>3 DEF Process
  <2>5. QED BY <1>3, <2>2, <2>3, <2>4 DEF Process, client
<1>4. CASE ProcessRaises
  BY <1>4 DEF ProcessRaises, machine, client, requests, timers, network
<1>5. ASSUME NEW t \in armed, TimeUp(t) PROVE TypeOK'
  BY <1>5 DEF TimeUp, machine, client, requests, timers, network
<1>6. ASSUME NEW t \in fired, RunTimer(t) PROVE TypeOK'
  <2>1. t \in Timers /\ t.does \in Triggers BY <1>6 DEF Timers, Triggers
  <2>2. /\ state' \in States
        /\ triggers' \in Seq(Triggers)
        /\ processor' \in Calls \union Timers \union {CallbackThread, None}
    BY <1>6, <2>1, FireTypes DEF RunTimer
  <2>3. QED BY <1>6, <2>2 DEF RunTimer, client, requests, network
<1>7. CASE OnSubscribeCompleted
  <2>1. "send" \in Triggers BY DEF Triggers
  <2>2. /\ state' \in States
        /\ triggers' \in Seq(Triggers)
        /\ processor' \in Calls \union Timers \union {CallbackThread, None}
    BY <1>7, <2>1, FireTypes DEF OnSubscribeCompleted
  <2>3. QED BY <1>7, <2>2, HeadTask DEF OnSubscribeCompleted, Take, client, requests,
         timers
<1>8. CASE OnDisconnectCompleted
  BY <1>8, HeadTask DEF OnDisconnectCompleted, Take, CallBack, ForgetCallback, machine,
         client, requests, timers, network
<1>9. CASE DropResponse
  BY <1>9, HeadTask DEF DropResponse, Take, machine, client, requests, timers, network
<1>10. CASE OnResponse
  <2> DEFINE trigger == Handle(Head(tasks).rid, Head(tasks).status)
  <2>1. trigger \in Triggers \union {"none"} BY HandleFires
  <2>2. /\ state' \in States
        /\ triggers' \in Seq(Triggers)
        /\ processor' \in Calls \union Timers \union {CallbackThread, None}
    <3>1. CASE trigger = "none" BY <1>10, <3>1 DEF OnResponse, machine
    <3>2. CASE trigger # "none"
      <4>1. Fire(CallbackThread, trigger) BY <1>10, <3>2 DEF OnResponse
      <4> HIDE DEF trigger
      <4>2. QED BY <2>1, <3>2, <4>1, FireTypes
    <3>3. QED BY <3>1, <3>2
  <2>3. Head(tasks).rid \in Nat /\ tasks' \in Seq(Tasks)
    BY <1>10, HeadTask DEF OnResponse, Take
  <2>4. pending' \subseteq Nat /\ handled' \in Nat
    BY <1>10, <2>3 DEF OnResponse
  <2>5. operations' \subseteq Nat /\ armed' \subseteq Timers
    BY <1>10 DEF OnResponse
  <2>6. QED BY <1>10, <2>2, <2>3, <2>4, <2>5 DEF OnResponse, Take, client
<1>11. CASE Subscribed
  BY <1>11, NewTask DEF Subscribed, machine, client, requests, timers, network
<1>12. CASE SubscribeOverrun
  BY <1>12 DEF SubscribeOverrun, machine, client, requests, timers, network
<1>13. CASE Disconnected
  <2>1. ops' \in Seq({"subscribe"} \union Ends) BY <1>13 DEF Disconnected
  <2>2. tasks' \in Seq(Tasks) BY <1>13, NewTask DEF Disconnected
  <2>3. unanswered' \subseteq Nat BY <1>13 DEF Disconnected
  <2>4. faults' = faults \/ (faults < MaxFaults /\ faults' = faults + 1)
    BY <1>13 DEF Disconnected, Fault
  <2>5. faults' \in 0..MaxFaults BY <2>4
  <2>6. QED
    BY <1>13, <2>1, <2>2, <2>3, <2>5 DEF Disconnected, machine, client, requests, timers
<1>14. CASE OpFails
  BY <1>14 DEF OpFails, Fault, machine, client, requests, timers, network
<1>15. ASSUME NEW rid \in unanswered, NEW status \in Statuses, Respond(rid, status) PROVE TypeOK'
  <2>1. rid \in Nat BY <1>15
  <2>2. [what |-> "response", rid |-> rid, status |-> status] \in Tasks
    BY <2>1, NewTask
  <2>3. tasks' \in Seq(Tasks) BY <1>15, <2>2 DEF Respond
  <2>4. unanswered' \subseteq Nat BY <1>15 DEF Respond
  <2>5. faults' = faults \/ (faults < MaxFaults /\ faults' = faults + 1)
    BY <1>15 DEF Respond, Fault
  <2>6. faults' \in 0..MaxFaults BY <2>5
  <2>7. again' \in 0..MaxAgain BY <1>15 DEF Respond
  <2>8. QED BY <1>15, <2>3, <2>4, <2>6, <2>7 DEF Respond, machine, client, requests, timers
<1>16. CASE UNCHANGED vars BY <1>16 DEF vars, machine, client, requests, timers, network
<1>17. QED
  BY <1>1, <1>2, <1>3, <1>4, <1>5, <1>6, <1>7, <1>8, <1>9,
     <1>10, <1>11, <1>12, <1>13, <1>14, <1>15, <1>16 DEF Next, RunTask

(* A queue of more than one trigger is not empty without its head.         *)
LEMMA MoreThanOne ==
  ASSUME NEW queue \in Seq(Triggers), queue # <<>>, Len(queue) # 1
  PROVE  Tail(queue) # <<>>
<1>1. Len(queue) > 1 BY EmptySeq
<1>2. Len(Tail(queue)) = Len(queue) - 1 BY HeadTailProperties
<1>3. QED BY <1>1, <1>2, EmptySeq

(* A thread takes over the queue when it finds it empty, and gives it up   *)
(* empty.                                                                  *)
LEMMA QueueStep == TypeOK /\ QueueServed /\ [Next]_vars => QueueServed'
<1> SUFFICES ASSUME TypeOK, QueueServed, [Next]_vars PROVE QueueServed' OBVIOUS
<1> USE RegistrationAssumption DEF TypeOK, QueueServed
<1>1. ASSUME NEW c \in Calls, Call(c) PROVE QueueServed'
  BY <1>1 DEF Call, machine, client, requests, timers, network
<1>2. ASSUME NEW c \in Calls, CallFires(c) PROVE QueueServed'
  BY <1>2 DEF CallFires, Fire, machine, client, requests, timers, network
<1>3. CASE Process
  <2>1. CASE Len(triggers) = 1
    <3>1. triggers' = <<>> /\ processor' = None
      BY <1>3, <2>1 DEF Process
    <3>2. handled' = 0 BY <1>3, <2>1 DEF Process
    <3>3. QED BY <3>1, <3>2
  <2>2. CASE Len(triggers) # 1
    <3>1. triggers # <<>> /\ triggers' # <<>>
      <4>1. triggers # <<>> /\ triggers' = Tail(triggers) BY <1>3 DEF Process
      <4>2. triggers \in Seq(Triggers) OBVIOUS
      <4> HIDE DEF TypeOK, QueueServed
      <4>3. QED BY <4>1, <4>2, <2>2, MoreThanOne
    <3>2. UNCHANGED <<processor, handled, call>> BY <1>3, <2>2 DEF Process, client
    <3>3. QED BY <3>1, <3>2
  <2>3. QED BY <2>1, <2>2
<1>4. CASE ProcessRaises
  BY <1>4 DEF ProcessRaises, machine, client, requests, timers, network
<1>5. ASSUME NEW t \in armed, TimeUp(t) PROVE QueueServed'
  BY <1>5 DEF TimeUp, machine, client, requests, timers, network
<1>6. ASSUME NEW t \in fired, RunTimer(t) PROVE QueueServed'
  BY <1>6 DEF RunTimer, Fire, machine, client, requests, timers, network
<1>7. CASE OnSubscribeCompleted
  BY <1>7 DEF OnSubscribeCompleted, Take, Fire, machine, client, requests, timers, network
<1>8. CASE OnDisconnectCompleted
  BY <1>8 DEF OnDisconnectCompleted, Take, CallBack, ForgetCallback, machine, client,
         requests, timers, network
<1>9. CASE DropResponse
  BY <1>9 DEF DropResponse, Take, machine, client, requests, timers, network
<1>10. CASE OnResponse
  BY <1>10 DEF OnResponse, Take, Fire, machine, client, requests, timers, network
<1>11. CASE Subscribed
  BY <1>11 DEF Subscribed, machine, client, requests, timers, network
<1>12. CASE SubscribeOverrun
  BY <1>12 DEF SubscribeOverrun, machine, client, requests, timers, network
<1>13. CASE Disconnected
  BY <1>13 DEF Disconnected, Fault, machine, client, requests, timers, network
<1>14. CASE OpFails
  BY <1>14 DEF OpFails, Fault, machine, client, requests, timers, network
<1>15. ASSUME NEW rid \in unanswered, NEW status \in Statuses, Respond(rid, status) PROVE QueueServed'
  BY <1>15 DEF Respond, Fault, machine, client, requests, timers, network
<1>16. CASE UNCHANGED vars BY <1>16 DEF vars, machine, client, requests, timers, network
<1>17. QED
  BY <1>1, <1>2, <1>3, <1>4, <1>5, <1>6, <1>7, <1>8, <1>9,
     <1>10, <1>11, <1>12, <1>13, <1>14, <1>15, <1>16 DEF Next, RunTask

(* A callback is stored before it is called, and forgotten when it is.     *)
LEMMA StoredStep ==
  TypeOK /\ StoredUncalled /\ CalledOnce /\ [Next]_vars => (StoredUncalled /\ CalledOnce)'
<1> SUFFICES ASSUME TypeOK, StoredUncalled, CalledOnce, [Next]_vars
             PROVE  (StoredUncalled /\ CalledOnce)'
  OBVIOUS
<1> USE RegistrationAssumption DEF TypeOK, StoredUncalled, CalledOnce, Calls
<1>1. ASSUME NEW c \in Calls, Call(c) PROVE (StoredUncalled /\ CalledOnce)'
  BY <1>1 DEF Call, machine, client, requests, timers, network
<1>2. ASSUME NEW c \in Calls, CallFires(c) PROVE (StoredUncalled /\ CalledOnce)'
  BY <1>2 DEF CallFires, Fire, machine, client, requests, timers, network
<1>3. CASE Process BY <1>3 DEF Process, machine, client, requests, timers, network
<1>4. CASE ProcessRaises
  BY <1>4 DEF ProcessRaises, machine, client, requests, timers, network
<1>5. ASSUME NEW t \in armed, TimeUp(t) PROVE (StoredUncalled /\ CalledOnce)'
  BY <1>5 DEF TimeUp, machine, client, requests, timers, network
<1>6. ASSUME NEW t \in fired, RunTimer(t) PROVE (StoredUncalled /\ CalledOnce)'
  BY <1>6 DEF RunTimer, Fire, machine, client, requests, timers, network
<1>7. CASE OnSubscribeCompleted
  BY <1>7 DEF OnSubscribeCompleted, Take, Fire, machine, client, requests, timers, network
<1>8. CASE OnDisconnectCompleted
  BY <1>8 DEF OnDisconnectCompleted, Take, CallBack, ForgetCallback, machine, client,
         requests, timers, network
<1>9. CASE DropResponse
  BY <1>9 DEF DropResponse, Take, machine, client, requests, timers, network
<1>10. CASE OnResponse
  BY <1>10 DEF OnResponse, Take, Fire, machine, client, requests, timers, network
<1>11. CASE Subscribed
  BY <1>11 DEF Subscribed, machine, client, requests, timers, network
<1>12. CASE SubscribeOverrun
  BY <1>12 DEF SubscribeOverrun, machine, client, requests, timers, network
<1>13. CASE Disconnected
  BY <1>13 DEF Disconnected, Fault, machine, client, requests, timers, network
<1>14. CASE OpFails
  BY <1>14 DEF OpFails, Fault, machine, client, requests, timers, network
<1>15. ASSUME NEW rid \in unanswered, NEW status \in Statuses, Respond(rid, status) PROVE (StoredUncalled /\ CalledOnce)'
  BY <1>15 DEF Respond, Fault, machine, client, requests, timers, network
<1>16. CASE UNCHANGED vars BY <1>16 DEF vars, machine, client, requests, timers, network
<1>17. QED
  BY <1>1, <1>2, <1>3, <1>4, <1>5, <1>6, <1>7, <1>8, <1>9,
     <1>10, <1>11, <1>12, <1>13, <1>14, <1>15, <1>16 DEF Next, RunTask

-----------------------------------------------------------------------------
(* The queue of triggers has a thread that works on it and stored          *)
(* callbacks are uncalled, for any calls, answers and faults.              *)
THEOREM CallsCorrect == Spec => []CallsInv
<1>1. CallsInv /\ [Next]_vars => CallsInv'
  BY TypeStep, QueueStep, StoredStep DEF CallsInv
<1>2. QED BY InitInv, <1>1, PTL DEF Spec

(* No callback of register or cancel is called twice, however              *)
(* registrations, cancellations, timers and disconnects overlap.           *)
THEOREM CalledOnceHolds == Spec => []CalledOnce
<1>1. CallsInv => CalledOnce BY DEF CallsInv
<1>2. QED BY CallsCorrect, <1>1, PTL

-----------------------------------------------------------------------------
(* What a step does to the triggers in the queue.                          *)
LEMMA QueueIs ==
  ASSUME TypeOK
  PROVE  DOMAIN triggers = 1..Len(triggers) /\ Len(triggers) \in Nat
BY DEF TypeOK

LEMMA Pops ==
  ASSUME TypeOK, triggers # <<>>, triggers' = Tail(triggers), NEW some
  PROVE  /\ Only(some) => Only(some)'
         /\ Once(some) => Once(some)'
         /\ Queued(some)' => Queued(some)
         /\ Head(triggers) \in some => Queued(some)
         /\ Head(triggers) \in some /\ Once(some) => ~Queued(some)'
<1>1. triggers \in Seq(Triggers) BY DEF TypeOK
<1>2. /\ DOMAIN triggers = 1..Len(triggers) /\ Len(triggers) \in Nat \ {0}
      /\ Head(triggers) = triggers[1]
      /\ DOMAIN triggers' = 1..(Len(triggers) - 1)
      /\ \A i \in 1..(Len(triggers) - 1) : triggers'[i] = triggers[i + 1]
  BY <1>1
<1>3. \A i \in DOMAIN triggers' : i \in Nat /\ i + 1 \in DOMAIN triggers /\ i + 1 # 1 /\ triggers'[i] = triggers[i + 1]
  BY <1>2
<1>4. 1 \in DOMAIN triggers /\ Head(triggers) = triggers[1] BY <1>2
<1>5. Only(some) => Only(some)' BY <1>3 DEF Only
<1>6. Once(some) => Once(some)' BY <1>3 DEF Once
<1>7. Queued(some)' => Queued(some) BY <1>3 DEF Queued
<1>8. Head(triggers) \in some => Queued(some) BY <1>4 DEF Queued
<1>9. Head(triggers) \in some /\ Once(some) => ~Queued(some)' BY <1>3, <1>4 DEF Once, Queued
<1>10. QED BY <1>5, <1>6, <1>7, <1>8, <1>9

LEMMA Appends ==
  ASSUME TypeOK, NEW t, triggers' = Append(triggers, t), NEW some
  PROVE  /\ Only(some) /\ t \in some => Only(some)'
         /\ Once(some) /\ (t \notin some \/ ~Queued(some)) => Once(some)'
         /\ Queued(some)' => Queued(some) \/ t \in some
         /\ t \in some => Queued(some)'
<1>1. triggers \in Seq(Triggers) BY DEF TypeOK
<1>2. /\ DOMAIN triggers = 1..Len(triggers) /\ Len(triggers) \in Nat
      /\ DOMAIN triggers' = 1..(Len(triggers) + 1)
      /\ triggers'[Len(triggers) + 1] = t
      /\ \A i \in 1..Len(triggers) : triggers'[i] = triggers[i]
  BY <1>1
<1>3. \A i \in DOMAIN triggers' :
        \/ i \in DOMAIN triggers /\ triggers'[i] = triggers[i]
        \/ i = Len(triggers) + 1 /\ triggers'[i] = t
  BY <1>2
<1>4. Len(triggers) + 1 \in DOMAIN triggers' /\ triggers'[Len(triggers) + 1] = t BY <1>2
<1>5. Only(some) /\ t \in some => Only(some)' BY <1>3 DEF Only
<1>6. Once(some) /\ (t \notin some \/ ~Queued(some)) => Once(some)' BY <1>3 DEF Once, Queued
<1>7. Queued(some)' => Queued(some) \/ t \in some BY <1>3 DEF Queued
<1>8. t \in some => Queued(some)' BY <1>4 DEF Queued
<1>9. QED BY <1>5, <1>6, <1>7, <1>8

LEMMA Flushes ==
  ASSUME triggers' = <<>>, NEW some
  PROVE  Only(some)' /\ Once(some)' /\ ~Queued(some)'
BY DEF Only, Once, Queued

LEMMA Keeps ==
  ASSUME triggers' = triggers, NEW some
  PROVE  Only(some)' = Only(some) /\ Once(some)' = Once(some) /\ Queued(some)' = Queued(some)
BY DEF Only, Once, Queued

(* The tasks that report a disconnect.                                     *)
LEMMA Reports ==
  ASSUME TypeOK
  PROVE  /\ tasks # <<>> /\ tasks' = Tail(tasks) => (Reported' => Reported)
         /\ \A t \in Tasks : t.what # "disconnected" /\ tasks' = Append(tasks, t) => (Reported' => Reported)
         /\ tasks # <<>> /\ Head(tasks).what = "disconnected" => Reported
<1>1. tasks \in Seq(Tasks) /\ DOMAIN tasks = 1..Len(tasks) /\ Len(tasks) \in Nat BY DEF TypeOK
<1>2. ASSUME tasks # <<>>, tasks' = Tail(tasks), Reported' PROVE Reported
  <2>1. /\ DOMAIN tasks' = 1..(Len(tasks) - 1)
        /\ \A i \in 1..(Len(tasks) - 1) : tasks'[i] = tasks[i + 1] /\ i + 1 \in DOMAIN tasks
    BY <1>1, <1>2
  <2>2. QED BY <1>2, <2>1 DEF Reported
<1>3. ASSUME NEW t \in Tasks, t.what # "disconnected", tasks' = Append(tasks, t), Reported' PROVE Reported
  <2>1. /\ DOMAIN tasks' = 1..(Len(tasks) + 1) /\ tasks'[Len(tasks) + 1] = t
        /\ \A i \in 1..Len(tasks) : tasks'[i] = tasks[i]
    BY <1>1, <1>3
  <2>2. \A i \in DOMAIN tasks' : (i \in DOMAIN tasks /\ tasks'[i] = tasks[i]) \/ tasks'[i] = t BY <1>1, <2>1
  <2>3. QED BY <1>3, <2>2 DEF Reported
<1>4. ASSUME tasks # <<>>, Head(tasks).what = "disconnected" PROVE Reported
  <2>1. 1 \in DOMAIN tasks /\ tasks[1] = Head(tasks) BY <1>1, <1>4
  <2>2. QED BY <1>4, <2>1 DEF Reported
<1>5. QED BY <1>2, <1>3, <1>4

-----------------------------------------------------------------------------
(* Faults and calls only add up, so that a registration that is not        *)
(* disturbed after a step was not before it.                               *)
LEMMA WasUndisturbed ==
  ASSUME TypeOK, [Next]_vars, Undisturbed'
  PROVE  Undisturbed /\ faults' = faults
<1> USE DEF machine, client, requests, timers, network
<1>1. faults \in Nat /\ faults' \in {faults, faults + 1}
  <2>1. faults \in Nat BY RegistrationAssumption DEF TypeOK
  <2>2. ASSUME NEW trigger, Transition(trigger) PROVE faults' = faults
    BY <2>2 DEF Transition, InitializeRegister, RunOp, Stay, SendRequest, Publish, WaitForInterval, End, Disconnect
  <2>3. faults' = faults \/ faults' = faults + 1
    BY <2>2 DEF vars, Next, RunTask, Call, CallFires, Process, ProcessRaises, TimeUp, RunTimer, OnSubscribeCompleted,
           OnDisconnectCompleted, DropResponse, OnResponse, Take, Subscribed, SubscribeOverrun, Disconnected, OpFails,
           Respond, Fault
  <2>4. QED BY <2>1, <2>3
<1>2. faults = 0 /\ faults' = 0 BY <1>1 DEF Undisturbed
<1>3. \A c \in Calls : call[c] # "idle" => call'[c] # "idle"
  BY DEF TypeOK, vars, Next, RunTask, Call, CallFires, Process, ProcessRaises, TimeUp, RunTimer, OnSubscribeCompleted,
         OnDisconnectCompleted, DropResponse, OnResponse, Take, Subscribed, SubscribeOverrun, Disconnected, OpFails,
         Respond, Fault
<1>4. RegisteredTwice => RegisteredTwice' BY <1>3 DEF RegisteredTwice, Calls
<1>5. QED BY <1>2, <1>4 DEF Undisturbed

(* Nothing that is called a second time is a registration.                 *)
LEMMA NoSecondRegister ==
  ASSUME TypeOK, Undisturbed, BeginsOnce, NEW c \in Calls, CallFires(c),
         state # "disconnected" \/ Queued({"register"})
  PROVE  c \notin Registers
<1>1. SUFFICES ASSUME c \in Registers PROVE FALSE OBVIOUS
<1>2. PICK d \in Registers : call[d] \notin {"idle", "stored"} BY DEF BeginsOnce
<1>3. call[c] = "stored" /\ d # c BY <1>2 DEF CallFires
<1>4. QED BY <1>1, <1>2, <1>3 DEF Undisturbed, RegisteredTwice

(* The state machine leaves its first state by register only, and never    *)
(* returns to it.                                                          *)
LEMMA Leaves ==
  ASSUME NEW trigger, Transition(trigger)
  PROVE  /\ state' # "disconnected" \/ state' = state
         /\ state = "disconnected" => trigger = "register"
BY DEF Transition, InitializeRegister, Stay, SendRequest, WaitForInterval, End, To, Active

(* The trigger that begins a registration is fired once.                   *)
LEMMA BeginsStep ==
  ASSUME TypeOK, TypeOK', Undisturbed, BeginsOnce, [Next]_vars
  PROVE  BeginsOnce'
<1> DEFINE Made == \E c \in Registers : call[c] \notin {"idle", "stored"}
<1> USE DEF machine, client, requests, timers, network
<1>1. Made => Made'
  <2>1. \A c \in Calls : call[c] \notin {"idle", "stored"} => call'[c] \notin {"idle", "stored"}
    BY DEF TypeOK, vars, Next, RunTask, Call, CallFires, Process, ProcessRaises, TimeUp, RunTimer,
           OnSubscribeCompleted, OnDisconnectCompleted, DropResponse, OnResponse, Take, Subscribed, SubscribeOverrun,
           Disconnected, OpFails, Respond
  <2>2. QED BY <2>1 DEF Calls
<1>2. ASSUME UNCHANGED <<state, triggers>> PROVE BeginsOnce'
  <2>1. Once({"register"})' = Once({"register"}) /\ Queued({"register"})' = Queued({"register"})
    BY <1>2, Keeps
  <2>2. QED BY <1>1, <1>2, <2>1 DEF BeginsOnce
<1>3. ASSUME NEW t \in {"send", "retry", "wait", "poll", "complete", "error", "cancel"}, state' = state,
             triggers' = Append(triggers, t)
      PROVE  BeginsOnce'
  <2>1. /\ Once({"register"}) => Once({"register"})'
        /\ Queued({"register"})' => Queued({"register"})
    BY <1>3, Appends
  <2>2. QED BY <1>1, <1>3, <2>1 DEF BeginsOnce
<1>4. ASSUME NEW c \in Calls, CallFires(c) PROVE BeginsOnce'
  <2>1. CASE c \in Cancels
    <3>1. c \notin Registers BY <2>1, RegistrationAssumption
    <3>2. QED BY <1>3, <1>4, <3>1 DEF CallFires, Fire
  <2>2. CASE c \in Registers
    <3>1. state = "disconnected" /\ ~Queued({"register"}) BY <1>4, <2>2, NoSecondRegister
    <3>2. triggers' = Append(triggers, "register") /\ state' = state /\ call'[c] = "waiting"
      BY <1>4, <2>2 DEF CallFires, Fire, TypeOK
    <3>3. Once({"register"})' BY <3>1, <3>2, Appends DEF BeginsOnce
    <3>4. QED BY <2>2, <3>1, <3>2, <3>3 DEF BeginsOnce
  <2>3. QED BY <2>1, <2>2 DEF Calls
<1>5. CASE Process
  <2>1. /\ triggers # <<>> /\ triggers' = Tail(triggers) /\ Transition(Head(triggers))
        /\ call' = call
    BY <1>5 DEF Process
  <2>2. /\ Once({"register"}) => Once({"register"})'
        /\ Queued({"register"})' => Queued({"register"})
        /\ Head(triggers) \in {"register"} => Queued({"register"})
        /\ Head(triggers) \in {"register"} /\ Once({"register"}) => ~Queued({"register"})'
    BY <2>1, Pops
  <2>3. /\ state' # "disconnected" \/ state' = state
        /\ state = "disconnected" => Head(triggers) = "register"
    BY <2>1, Leaves
  <2>4. QED BY <1>1, <2>2, <2>3 DEF BeginsOnce
<1>6. CASE ProcessRaises
  <2>1. triggers' = <<>> /\ state' = state BY <1>6 DEF ProcessRaises
  <2>2. Once({"register"})' /\ ~Queued({"register"})' BY <2>1, Flushes
  <2>3. QED BY <1>1, <2>1, <2>2 DEF BeginsOnce
<1>7. ASSUME NEW t \in fired, RunTimer(t) PROVE BeginsOnce'
  <2>1. t.does \in {"error", "send", "poll"} BY <1>7 DEF TypeOK, Timers
  <2>2. QED BY <1>3, <1>7, <2>1 DEF RunTimer, Fire
<1>8. CASE OnSubscribeCompleted
  BY <1>3, <1>8 DEF OnSubscribeCompleted, Fire
<1>9. CASE OnResponse
  <2> DEFINE trigger == Handle(Head(tasks).rid, Head(tasks).status)
  <2>1. trigger \in {"none", "send", "retry", "wait", "poll", "complete", "error", "cancel"} BY DEF Handle
  <2>2. trigger = "none" => UNCHANGED <<state, triggers>> BY <1>9 DEF OnResponse
  <2>3. trigger # "none" => state' = state /\ triggers' = Append(triggers, trigger) BY <1>9 DEF OnResponse, Fire
  <2> HIDE DEF trigger
  <2>4. QED BY <1>2, <1>3, <2>1, <2>2, <2>3
<1>10. CASE UNCHANGED <<state, triggers>> BY <1>2, <1>10
<1>11. QED
  BY <1>4, <1>5, <1>6, <1>7, <1>8, <1>9, <1>10
     DEF vars, Next, RunTask, Call, TimeUp, OnDisconnectCompleted, DropResponse, Subscribed, SubscribeOverrun,
         Disconnected, OpFails, Respond

-----------------------------------------------------------------------------
(* Stages, one at a time.  Steps that leave alone what they are about.     *)
stageVars == <<state, triggers, ops, tasks, unanswered, armed, fired, queryTimer, pollTimer, open>>

LEMMA StagesKept == Stages /\ UNCHANGED stageVars => Stages'
BY DEF stageVars, Stages, NotBegun, Subscribing, Requesting, Waiting, Over, Only, Once, Queued, NonePolls, Reported

(* The application fires one more trigger.                                 *)
LEMMA StagesFired ==
  ASSUME TypeOK, Undisturbed, BeginsOnce, Stages, NEW c \in Calls, CallFires(c)
  PROVE  Stages'
<1> DEFINE t == IF c \in Registers THEN "register" ELSE "cancel"
<1>1. /\ triggers' = Append(triggers, t)
      /\ UNCHANGED <<state, ops, tasks, unanswered, armed, fired, queryTimer, pollTimer, open>>
  BY DEF CallFires, Fire, requests, timers, network
<1>2. state # "disconnected" => t = "cancel" BY NoSecondRegister
<1>3. t \in {"register", "cancel"} OBVIOUS
<1> HIDE DEF t
<1>4. \A some : /\ Only(some) /\ t \in some => Only(some)'
                /\ Once(some) /\ t \notin some => Once(some)'
                /\ Queued(some)' => Queued(some) \/ t \in some
  BY <1>1, Appends
<1>5. Once(Continues) => Once(Continues)' BY <1>3, <1>4 DEF Continues
<1>6. Queued(Continues)' => Queued(Continues) BY <1>3, <1>4 DEF Continues
<1>7. NotBegun => NotBegun' BY <1>1, <1>3, <1>4 DEF NotBegun
<1>8. Subscribing /\ t = "cancel" => Subscribing' BY <1>1, <1>4, <1>5, <1>6 DEF Subscribing
<1>9. Requesting /\ t = "cancel" => Requesting'
  <2>1. "cancel" \in {"retry", "wait"} \union Ends BY DEF Ends
  <2>2. NonePolls' = NonePolls BY <1>1 DEF NonePolls
  <2>3. QED BY <1>1, <1>4, <1>5, <1>6, <2>1, <2>2 DEF Requesting
<1>10. Waiting /\ t = "cancel" => Waiting'
  <2>1. "cancel" \in {"send", "poll"} \union Ends BY DEF Ends
  <2>2. NonePolls' = NonePolls BY <1>1 DEF NonePolls
  <2>3. QED BY <1>1, <1>4, <1>5, <1>6, <2>1, <2>2 DEF Waiting
<1>11. Over => Over' BY <1>1 DEF Over, Reported
<1>12. QED BY <1>1, <1>2, <1>7, <1>8, <1>9, <1>10, <1>11 DEF Stages

(* What is raised empties the queue.                                       *)
LEMMA StagesRaised ==
  ASSUME TypeOK, Stages, ProcessRaises
  PROVE  Stages'
<1>1. /\ triggers' = <<>>
      /\ UNCHANGED <<state, ops, tasks, unanswered, armed, fired, queryTimer, pollTimer, open>>
  BY DEF ProcessRaises, timers, network
<1>2. \A some : Only(some)' /\ Once(some)' /\ ~Queued(some)' BY <1>1, Flushes
<1>3. NonePolls' = NonePolls BY <1>1 DEF NonePolls
<1>4. NotBegun => NotBegun' BY <1>1, <1>2 DEF NotBegun
<1>5. Subscribing => Subscribing' BY <1>1, <1>2 DEF Subscribing
<1>6. Requesting => Requesting' BY <1>1, <1>2, <1>3 DEF Requesting
<1>7. Waiting => Waiting' BY <1>1, <1>2, <1>3 DEF Waiting
<1>8. Over => Over' BY <1>1 DEF Over, Reported
<1>9. QED BY <1>1, <1>4, <1>5, <1>6, <1>7, <1>8 DEF Stages

(* Which triggers are in the queue, put in another way.                    *)
LEMMA Others ==
  ASSUME NEW a, NEW b, NEW c, a \ b \subseteq c
  PROVE  /\ Only(a) /\ ~Queued(b) => Only(c)
         /\ Only(a)' /\ ~Queued(b)' => Only(c)'
BY DEF Only, Queued

LEMMA NoneOf ==
  ASSUME NEW a, NEW b, a \intersect b = {}
  PROVE  /\ Only(a)' => ~Queued(b)'
         /\ ~Queued(b)' => Once(b)'
BY DEF Only, Queued, Once

(* A cancelled subscription stays before its disconnect.                   *)
LEMMA TwoOps == Append(<<"subscribe">>, "cancel") = <<"subscribe", "cancel">>
<1> DEFINE a == Append(<<"subscribe">>, "cancel")
           b == <<"subscribe", "cancel">>
<1>1. <<"subscribe">> \in Seq({"subscribe", "cancel"}) /\ b \in Seq({"subscribe", "cancel"}) OBVIOUS
<1>2. a \in Seq({"subscribe", "cancel"}) BY <1>1
<1>3. Len(a) = 2 /\ Len(b) = 2 BY <1>1
<1>4. a[1] = "subscribe" /\ a[2] = "cancel" /\ b[1] = "subscribe" /\ b[2] = "cancel" BY <1>1
<1> HIDE DEF a, b
<1>5. \A i \in 1..Len(a) : a[i] = b[i] BY <1>3, <1>4
<1>6. a = b BY <1>1, <1>2, <1>3, <1>5, SeqEqual
<1>7. QED BY <1>6 DEF a, b

(* An end: timers are cleared, and the disconnect is the last operation.   *)
LEMMA StagesEnd ==
  ASSUME TypeOK, NEW dest \in {"completed", "error", "cancelling"}, NEW why \in Ends,
         End(dest, why), armed \subseteq {queryTimer, pollTimer}, ~Reported,
         ops = <<>> \/ (ops = <<"subscribe">> /\ why = "cancel")
  PROVE  Stages'
<1>1. /\ state' = dest /\ armed' = {} /\ ops' = Append(ops, why)
      /\ UNCHANGED tasks
  BY DEF End, To, ClearTimers, Disconnect, RunOp
<1>2. ~Reported' BY <1>1 DEF Reported
<1>3. ops' \in {<<>>, <<"subscribe", "cancel">>} \union {<<w>> : w \in Ends}
  <2>1. CASE ops = <<>>
    <3>1. ops' = <<why>> BY <1>1, <2>1
    <3>2. QED BY <3>1
  <2>2. CASE ops = <<"subscribe">> /\ why = "cancel"
    <3>1. ops' = Append(<<"subscribe">>, "cancel") BY <1>1, <2>2
    <3>2. Append(<<"subscribe">>, "cancel") = <<"subscribe", "cancel">> BY TwoOps
    <3>3. QED BY <3>1, <3>2
  <2>3. QED BY <2>1, <2>2
<1>4. Over' BY <1>1, <1>2, <1>3 DEF Over
<1>5. QED BY <1>1, <1>4 DEF Stages

(* A registration begins.                                                  *)
LEMMA StagesBegun ==
  ASSUME TypeOK, BeginsOnce, Stages, Process, state = "disconnected"
  PROVE  Stages'
<1>1. /\ triggers # <<>> /\ triggers' = Tail(triggers) /\ Head(triggers) = "register"
      /\ InitializeRegister
  BY DEF Process, Transition, Active
<1>2. NotBegun BY DEF Stages
<1>3. /\ state' = "initializing" /\ ops' = Append(ops, "subscribe")
      /\ UNCHANGED <<tasks, unanswered, armed, fired>>
  BY <1>1 DEF InitializeRegister, To, RunOp, timers
<1>4. ops' = <<"subscribe">> BY <1>2, <1>3 DEF NotBegun
<1>5. Only({"register", "cancel"})' /\ ~Queued({"register"})'
  BY <1>1, <1>2, Pops DEF NotBegun, BeginsOnce
<1>6. Only({"send", "cancel"})' BY <1>5, Others
<1>7. ~Queued(Continues)' /\ Once(Continues)' BY <1>5, NoneOf DEF Continues
<1>8. Subscribing' BY <1>2, <1>3, <1>4, <1>6, <1>7 DEF NotBegun, Subscribing
<1>9. QED BY <1>3, <1>8 DEF Stages

(* It subscribes, and then sends its first request, or is cancelled.       *)
LEMMA StagesSubscribed ==
  ASSUME TypeOK, Stages, Process, state = "initializing"
  PROVE  Stages'
<1>1. triggers # <<>> /\ triggers' = Tail(triggers) /\ Transition(Head(triggers)) BY DEF Process
<1>2. Subscribing BY DEF Stages
<1>3. CASE Head(triggers) = "send"
  <2>1. SendRequest(FALSE) BY <1>1, <1>3 DEF Transition, Ends
  <2>2. PICK rid : unanswered' = unanswered \union {rid} /\ queryTimer' = [does |-> "error", of |-> rid]
                   /\ armed' = armed \union {queryTimer'}
    BY <2>1 DEF SendRequest, Publish, SetQueryTimer
  <2>3. state' = "registering" /\ UNCHANGED <<fired, tasks, ops>> BY <2>1 DEF SendRequest, To
  <2>4. Head(triggers) \in Continues BY <1>3 DEF Continues
  <2>5. Queued(Continues) /\ ~Queued(Continues)' /\ Once(Continues)' /\ Only({"send", "cancel"})'
    BY <1>1, <1>2, <2>4, Pops DEF Subscribing
  <2>6. Only({"retry", "wait"} \union Ends)' BY <2>5, Others DEF Ends, Continues
  <2>7. ops = <<>> /\ tasks = <<>> /\ unanswered = {} /\ armed = {} /\ fired = {}
    BY <1>2, <2>5 DEF Subscribing
  <2>8. NonePolls' BY <2>3, <2>7 DEF NonePolls
  <2>9. Requesting' BY <2>2, <2>3, <2>5, <2>6, <2>7, <2>8 DEF Requesting
  <2>10. QED BY <2>3, <2>9 DEF Stages
<1>4. CASE Head(triggers) = "cancel"
  <2>1. End("cancelling", "cancel") BY <1>1, <1>4 DEF Transition
  <2>2. armed \subseteq {queryTimer, pollTimer} BY <1>2 DEF Subscribing
  <2>3. ~Reported BY <1>2 DEF Subscribing, Reported
  <2>4. ops = <<>> \/ ops = <<"subscribe">> BY <1>2 DEF Subscribing
  <2>5. "cancel" \in Ends BY DEF Ends
  <2>6. QED BY <2>1, <2>2, <2>3, <2>4, <2>5, StagesEnd
<1>5. QED BY <1>1, <1>3, <1>4, <1>2, Pops DEF Subscribing, Only

(* An answer makes it wait, or ends it.                                    *)
LEMMA StagesAnswered ==
  ASSUME TypeOK, Stages, Process, state \in {"registering", "polling"}
  PROVE  Stages'
<1>1. triggers # <<>> /\ triggers' = Tail(triggers) /\ Transition(Head(triggers)) BY DEF Process
<1>2. Requesting BY DEF Stages
<1>3. ASSUME NEW does \in {"send", "poll"}, WaitForInterval(does), Head(triggers) \in {"retry", "wait"}
      PROVE  Stages'
  <2>1. PICK timer : pollTimer' = timer /\ timer.does = does /\ armed' = armed \union {timer}
    BY <1>3 DEF WaitForInterval
  <2>2. state' = "waiting_to_poll" /\ UNCHANGED <<fired, tasks, ops, unanswered>>
    BY <1>3 DEF WaitForInterval, To, network
  <2>3. Head(triggers) \in Continues BY <1>3 DEF Continues
  <2>4. Queued(Continues) /\ ~Queued(Continues)' /\ Once(Continues)'
        /\ Only({"retry", "wait"} \union Ends)'
    BY <1>1, <1>2, <2>3, Pops DEF Requesting
  <2>5. Only({"send", "poll"} \union Ends)' BY <2>4, Others DEF Continues
  <2>6. ops = <<>> /\ tasks = <<>> /\ unanswered = {} /\ armed = {} /\ NonePolls
    BY <1>2, <2>4 DEF Requesting
  <2>7. armed' = {timer} /\ armed' \subseteq {pollTimer'} BY <2>1, <2>6
  <2>8. NonePolls' /\ \A t, u \in fired' : t.does # "error" /\ u.does # "error" => t = u
    BY <2>2, <2>6 DEF NonePolls
  <2>9. \A t \in armed' : t.does # "error" BY <2>1, <2>7, <1>3
  <2>10. Waiting' BY <2>2, <2>4, <2>5, <2>6, <2>7, <2>8, <2>9 DEF Waiting
  <2>11. QED BY <2>2, <2>10 DEF Stages
<1>4. ASSUME NEW dest \in {"completed", "error", "cancelling"}, NEW why \in Ends, End(dest, why)
      PROVE  Stages'
  <2>1. ops = <<>> /\ armed \subseteq {queryTimer, pollTimer} BY <1>2 DEF Requesting
  <2>2. ~Reported
    <3>1. DOMAIN tasks = {} \/ (DOMAIN tasks = {1} /\ tasks[1].what = "response")
      <4>1. tasks \in Seq(Tasks) BY DEF TypeOK
      <4>2. tasks = <<>> \/ (Len(tasks) = 1 /\ Head(tasks).what = "response") BY <1>2 DEF Requesting
      <4>3. QED BY <4>1, <4>2
    <3>2. QED BY <3>1 DEF Reported
  <2>3. QED BY <1>4, <2>1, <2>2, StagesEnd
<1>5. Head(triggers) \in {"retry", "wait"} \union Ends
  <2>1. Only({"retry", "wait"} \union Ends) BY <1>2 DEF Requesting
  <2>2. 1 \in DOMAIN triggers /\ Head(triggers) = triggers[1] BY <1>1 DEF TypeOK
  <2>3. QED BY <2>1, <2>2 DEF Only
<1>6. \/ Head(triggers) = "retry" /\ WaitForInterval("send")
      \/ Head(triggers) = "wait" /\ WaitForInterval("poll")
      \/ End("completed", "complete") \/ End("error", "error") \/ End("cancelling", "cancel")
  BY <1>1, <1>5 DEF Transition, Ends
<1>7. QED BY <1>3, <1>4, <1>6 DEF Ends

(* It sends another request, or ends.                                      *)
LEMMA StagesWaited ==
  ASSUME TypeOK, Stages, Process, state = "waiting_to_poll"
  PROVE  Stages'
<1>1. triggers # <<>> /\ triggers' = Tail(triggers) /\ Transition(Head(triggers)) BY DEF Process
<1>2. Waiting BY DEF Stages
<1>3. ASSUME NEW query \in BOOLEAN, SendRequest(query), Head(triggers) \in {"send", "poll"}
      PROVE  Stages'
  <2>1. PICK rid : unanswered' = unanswered \union {rid} /\ queryTimer' = [does |-> "error", of |-> rid]
                   /\ armed' = armed \union {queryTimer'}
    BY <1>3 DEF SendRequest, Publish, SetQueryTimer
  <2>2. state' \in {"registering", "polling"} /\ UNCHANGED <<fired, tasks, ops>>
    BY <1>3 DEF SendRequest, To
  <2>3. Head(triggers) \in Continues BY <1>3 DEF Continues
  <2>4. Queued(Continues) /\ ~Queued(Continues)' /\ Once(Continues)'
        /\ Only({"send", "poll"} \union Ends)'
    BY <1>1, <1>2, <2>3, Pops DEF Waiting
  <2>5. Only({"retry", "wait"} \union Ends)' BY <2>4, Others DEF Continues
  <2>6. ops = <<>> /\ tasks = <<>> /\ unanswered = {} /\ armed = {} /\ NonePolls
    BY <1>2, <2>4 DEF Waiting
  <2>7. NonePolls' BY <2>2, <2>6 DEF NonePolls
  <2>8. Requesting' BY <2>1, <2>2, <2>4, <2>5, <2>6, <2>7 DEF Requesting
  <2>9. QED BY <2>2, <2>8 DEF Stages
<1>4. ASSUME NEW dest \in {"completed", "error", "cancelling"}, NEW why \in Ends, End(dest, why)
      PROVE  Stages'
  <2>1. ops = <<>> /\ armed \subseteq {queryTimer, pollTimer} BY <1>2 DEF Waiting
  <2>2. ~Reported BY <1>2 DEF Waiting, Reported
  <2>3. QED BY <1>4, <2>1, <2>2, StagesEnd
<1>5. Head(triggers) \in {"send", "poll"} \union Ends
  <2>1. Only({"send", "poll"} \union Ends) BY <1>2 DEF Waiting
  <2>2. 1 \in DOMAIN triggers /\ Head(triggers) = triggers[1] BY <1>1 DEF TypeOK
  <2>3. QED BY <2>1, <2>2 DEF Only
<1>6. \/ Head(triggers) = "send" /\ SendRequest(FALSE)
      \/ Head(triggers) = "poll" /\ SendRequest(TRUE)
      \/ End("completed", "complete") \/ End("error", "error") \/ End("cancelling", "cancel")
  BY <1>1, <1>5 DEF Transition, Ends
<1>7. QED BY <1>3, <1>4, <1>6 DEF Ends

(* A registration that is over does not begin again.                       *)
LEMMA StagesOver ==
  ASSUME TypeOK, BeginsOnce, Stages, Process, state \in {"completed", "error", "cancelling"}
  PROVE  Stages'
<1>1. triggers # <<>> /\ Transition(Head(triggers)) BY DEF Process
<1>2. Head(triggers) # "register"
  <2>1. Head(triggers) \in {"register"} => Queued({"register"})
    <3>1. 1 \in DOMAIN triggers /\ Head(triggers) = triggers[1] BY <1>1 DEF TypeOK
    <3>2. QED BY <3>1 DEF Queued
  <2>2. ~Queued({"register"}) BY DEF BeginsOnce
  <2>3. QED BY <2>1, <2>2
<1>3. Stay BY <1>1, <1>2 DEF Transition, Active
<1>4. UNCHANGED <<state, ops, tasks, armed, open>> BY <1>3 DEF Stay, timers, network
<1>5. Over BY DEF Stages
<1>6. Over' BY <1>4, <1>5 DEF Over, Reported
<1>7. QED BY <1>4, <1>6 DEF Stages

-----------------------------------------------------------------------------
(* A timer runs out, and its thread fires.                                 *)
LEMMA StagesTimeUp ==
  ASSUME TypeOK, Stages, NEW t \in armed, TimeUp(t)
  PROVE  Stages'
<1>1. /\ armed' = armed \ {t} /\ fired' = fired \union {t}
      /\ UNCHANGED <<state, triggers, ops, tasks, unanswered, queryTimer, pollTimer, open>>
  BY DEF TimeUp, machine, network
<1>2. \A some : Only(some)' = Only(some) /\ Once(some)' = Once(some) /\ Queued(some)' = Queued(some)
  BY <1>1, Keeps
<1>3. ~NotBegun /\ ~Subscribing /\ ~Over BY DEF NotBegun, Subscribing, Over
<1>4. ASSUME Requesting PROVE Requesting'
  <2>1. t.does = "error" BY <1>4 DEF Requesting
  <2>2. NonePolls' BY <1>1, <1>4, <2>1 DEF Requesting, NonePolls
  <2>3. armed' \subseteq armed BY <1>1
  <2>4. QED BY <1>1, <1>2, <1>4, <2>2, <2>3 DEF Requesting
<1>5. ASSUME Waiting PROVE Waiting'
  <2>1. armed' = {} /\ ~Queued(Continues) /\ NonePolls BY <1>1, <1>5 DEF Waiting
  <2>2. \A u, v \in fired' : u.does # "error" /\ v.does # "error" => u = v
    BY <1>1, <2>1 DEF NonePolls
  <2>3. QED BY <1>1, <1>2, <1>5, <2>1, <2>2 DEF Waiting
<1>6. QED BY <1>1, <1>3, <1>4, <1>5 DEF Stages

LEMMA StagesTimer ==
  ASSUME TypeOK, Stages, NEW t \in fired, RunTimer(t)
  PROVE  Stages'
<1>1. /\ fired' = fired \ {t}
      /\ armed' = armed \ {IF t.does = "error" THEN queryTimer ELSE pollTimer}
      /\ triggers' = Append(triggers, t.does)
      /\ UNCHANGED <<state, ops, tasks, unanswered, queryTimer, pollTimer, open>>
  BY DEF RunTimer, Fire, network
<1>2. \A some : /\ Only(some) /\ t.does \in some => Only(some)'
                /\ Once(some) /\ (t.does \notin some \/ ~Queued(some)) => Once(some)'
                /\ Queued(some)' => Queued(some) \/ t.does \in some
  BY <1>1, Appends
<1>3. NonePolls => NonePolls' BY <1>1 DEF NonePolls
<1>4. t.does \in {"error", "send", "poll"} BY DEF TypeOK, Timers
<1>5. ~NotBegun /\ ~Subscribing BY DEF NotBegun, Subscribing
<1>6. ASSUME Requesting PROVE Requesting'
  <2>1. t.does = "error" BY <1>6 DEF Requesting, NonePolls
  <2>2. t.does \notin Continues /\ t.does \in Ends BY <2>1 DEF Continues, Ends
  <2>3. armed' = {} BY <1>1, <1>6, <2>1 DEF Requesting
  <2>4. Only({"retry", "wait"} \union Ends)' /\ Once(Continues)' BY <1>2, <1>6, <2>2 DEF Requesting
  <2>5. Queued(Continues)' => Queued(Continues) BY <1>2, <2>2
  <2>6. QED BY <1>1, <1>3, <1>6, <2>3, <2>4, <2>5 DEF Requesting
<1>7. ASSUME Waiting PROVE Waiting'
  <2>1. t.does \in {"send", "poll"} \union Ends BY <1>4 DEF Ends
  <2>2. Only({"send", "poll"} \union Ends)' BY <1>2, <1>7, <2>1 DEF Waiting
  <2>3. /\ armed' \subseteq {pollTimer'} /\ armed' \subseteq armed
        /\ \A u \in armed' : u.does # "error"
        /\ \A u, v \in fired' : u.does # "error" /\ v.does # "error" => u = v
    BY <1>1, <1>7 DEF Waiting
  <2>4. CASE t.does = "error"
    <3>1. t.does \notin Continues BY <2>4 DEF Continues
    <3>2. Once(Continues)' /\ (Queued(Continues)' => Queued(Continues)) BY <1>2, <1>7, <3>1 DEF Waiting
    <3>3. QED BY <1>1, <1>3, <1>7, <2>2, <2>3, <3>2 DEF Waiting
  <2>5. CASE t.does # "error"
    <3>1. armed = {} /\ ~Queued(Continues) BY <1>7, <2>5 DEF Waiting, NonePolls
    <3>2. Once(Continues)' BY <1>2, <1>7, <3>1 DEF Waiting
    <3>3. NonePolls' BY <1>1, <1>7, <2>5 DEF Waiting, NonePolls
    <3>4. armed' = {} BY <1>1, <3>1
    <3>5. QED BY <1>1, <1>7, <2>2, <2>3, <3>2, <3>3, <3>4 DEF Waiting
  <2>6. QED BY <2>4, <2>5
<1>8. Over => Over' BY <1>1 DEF Over, Reported
<1>9. QED BY <1>1, <1>5, <1>6, <1>7, <1>8 DEF Stages

(* What the callback thread may find, by the stage.                        *)
LEMMA TasksOf ==
  ASSUME TypeOK, tasks # <<>>, Stages
  PROVE  \/ /\ state = "initializing" /\ Subscribing /\ ops = <<>> /\ ~Queued(Continues)
            /\ Head(tasks).what = "subscribed" /\ Tail(tasks) = <<>>
         \/ /\ state \in {"registering", "polling"} /\ Requesting /\ ~Queued(Continues)
            /\ Head(tasks).what = "response" /\ Tail(tasks) = <<>> /\ unanswered = {}
         \/ /\ state \in {"completed", "error", "cancelling"} /\ Over
<1>1. state \in States BY DEF TypeOK
<1>2. CASE state = "disconnected" BY <1>2 DEF Stages, NotBegun
<1>3. CASE state = "initializing"
  <2>1. Subscribing /\ ops = <<>> /\ ~Queued(Continues) /\ tasks = <<[what |-> "subscribed"]>>
    BY <1>3 DEF Stages, Subscribing
  <2>2. QED BY <1>3, <2>1
<1>4. CASE state \in {"registering", "polling"}
  <2>1. Requesting /\ ~Queued(Continues) /\ unanswered = {} /\ Len(tasks) = 1 /\ Head(tasks).what = "response"
    BY <1>4 DEF Stages, Requesting
  <2>2. Tail(tasks) = <<>>
    <3>1. tasks \in Seq(Tasks) BY DEF TypeOK
    <3>2. Len(Tail(tasks)) = 0 /\ Tail(tasks) \in Seq(Tasks) BY <2>1, <3>1
    <3>3. QED BY <3>2, EmptySeq
  <2>3. QED BY <1>4, <2>1, <2>2
<1>5. CASE state = "waiting_to_poll" BY <1>5 DEF Stages, Waiting
<1>6. CASE state \in {"completed", "error", "cancelling"} BY <1>6 DEF Stages
<1>7. QED BY <1>1, <1>2, <1>3, <1>4, <1>5, <1>6 DEF States

(* The callback thread carries out a task.                                 *)
LEMMA StagesSubscribeTask ==
  ASSUME TypeOK, Stages, OnSubscribeCompleted
  PROVE  Stages'
<1>1. /\ tasks # <<>> /\ Head(tasks).what = "subscribed" /\ tasks' = Tail(tasks)
      /\ triggers' = Append(triggers, "send")
      /\ UNCHANGED <<state, ops, unanswered, armed, fired, queryTimer, pollTimer, open>>
  BY DEF OnSubscribeCompleted, Take, Fire, timers
<1>2. CASE state = "initializing" /\ Subscribing /\ ops = <<>> /\ ~Queued(Continues) /\ Tail(tasks) = <<>>
  <2>1. Only({"send", "cancel"})' /\ Once(Continues)' BY <1>1, <1>2, Appends DEF Subscribing
  <2>2. Subscribing' BY <1>1, <1>2, <2>1 DEF Subscribing
  <2>3. QED BY <1>1, <1>2, <2>2 DEF Stages
<1>3. CASE state \in {"completed", "error", "cancelling"} /\ Over
  <2>1. Reported' => Reported BY <1>1, Reports
  <2>2. Over' BY <1>1, <1>3, <2>1 DEF Over
  <2>3. QED BY <1>1, <1>3, <2>2 DEF Stages
<1>4. QED BY <1>1, <1>2, <1>3, TasksOf

LEMMA StagesDisconnectTask ==
  ASSUME TypeOK, Stages, OnDisconnectCompleted
  PROVE  Stages' /\ state \in {"completed", "error", "cancelling"} /\ ~open
<1>1. /\ tasks # <<>> /\ Head(tasks).what = "disconnected" /\ tasks' = Tail(tasks)
      /\ UNCHANGED <<state, triggers, ops, unanswered, armed, fired, queryTimer, pollTimer, open>>
  BY DEF OnDisconnectCompleted, Take, machine, timers
<1>2. state \in {"completed", "error", "cancelling"} /\ Over BY <1>1, TasksOf
<1>3. Reported /\ (Reported' => Reported) BY <1>1, Reports
<1>4. Over' /\ ~open BY <1>1, <1>2, <1>3 DEF Over
<1>5. QED BY <1>1, <1>2, <1>4 DEF Stages

LEMMA StagesDropTask ==
  ASSUME TypeOK, Stages, DropResponse
  PROVE  Stages'
<1>1. /\ tasks # <<>> /\ Head(tasks).what = "response" /\ tasks' = Tail(tasks)
      /\ UNCHANGED <<state, triggers, ops, unanswered, armed, fired, queryTimer, pollTimer, open>>
  BY DEF DropResponse, Take, machine, timers
<1>2. CASE /\ state \in {"registering", "polling"} /\ Requesting /\ ~Queued(Continues)
           /\ Tail(tasks) = <<>> /\ unanswered = {}
  <2>1. \A some : Only(some)' = Only(some) /\ Once(some)' = Once(some) /\ Queued(some)' = Queued(some)
    BY <1>1, Keeps
  <2>2. NonePolls' = NonePolls BY <1>1 DEF NonePolls
  <2>3. Requesting' BY <1>1, <1>2, <2>1, <2>2 DEF Requesting
  <2>4. QED BY <1>1, <1>2, <2>3 DEF Stages
<1>3. CASE state \in {"completed", "error", "cancelling"} /\ Over
  <2>1. Reported' => Reported BY <1>1, Reports
  <2>2. Over' BY <1>1, <1>3, <2>1 DEF Over
  <2>3. QED BY <1>1, <1>3, <2>2 DEF Stages
<1>4. QED BY <1>1, <1>2, <1>3, TasksOf

LEMMA StagesResponseTask ==
  ASSUME TypeOK, Stages, OnResponse
  PROVE  Stages'
<1> DEFINE trigger == Handle(Head(tasks).rid, Head(tasks).status)
<1>1. /\ tasks # <<>> /\ Head(tasks).what = "response" /\ tasks' = Tail(tasks)
      /\ armed' = armed \ StopsFor(Head(tasks).rid)
      /\ UNCHANGED <<state, ops, unanswered, fired, queryTimer, pollTimer, open>>
  BY DEF OnResponse, Take, Fire, machine
<1>2. trigger \in {"none", "retry", "wait", "complete", "error"} BY DEF Handle
<1>3. queryTimer \in StopsFor(Head(tasks).rid) BY DEF StopsFor
<1>4. triggers' = triggers \/ (triggers' = Append(triggers, trigger) /\ trigger # "none")
  BY DEF OnResponse, Fire, machine
<1> HIDE DEF trigger
<1>5. CASE /\ state \in {"registering", "polling"} /\ Requesting /\ ~Queued(Continues)
           /\ Tail(tasks) = <<>> /\ unanswered = {}
  <2>1. armed' = {} BY <1>1, <1>3, <1>5 DEF Requesting
  <2>2. NonePolls' BY <1>1, <1>5 DEF Requesting, NonePolls
  <2>3. Only({"retry", "wait"} \union Ends)' /\ Once(Continues)'
    <3>1. CASE triggers' = triggers BY <1>5, <3>1, Keeps DEF Requesting
    <3>2. CASE triggers' = Append(triggers, trigger) /\ trigger # "none"
      <4>1. trigger \in {"retry", "wait"} \union Ends BY <1>2, <3>2 DEF Ends
      <4>2. QED BY <1>5, <3>2, <4>1, Appends DEF Requesting
    <3>3. QED BY <1>4, <3>1, <3>2
  <2>4. Requesting' BY <1>1, <1>5, <2>1, <2>2, <2>3 DEF Requesting
  <2>5. QED BY <1>1, <1>5, <2>4 DEF Stages
<1>6. CASE state \in {"completed", "error", "cancelling"} /\ Over
  <2>1. Reported' => Reported BY <1>1, Reports
  <2>2. Over' BY <1>1, <1>6, <2>1 DEF Over
  <2>3. QED BY <1>1, <1>6, <2>2 DEF Stages
<1>7. QED BY <1>1, <1>5, <1>6, TasksOf

-----------------------------------------------------------------------------
(* The pipeline ends an operation.                                         *)
LEMMA OpsOf ==
  ASSUME TypeOK, ops # <<>>, Stages
  PROVE  \/ /\ state = "initializing" /\ Subscribing /\ ops = <<"subscribe">>
            /\ tasks = <<>> /\ ~Queued(Continues)
         \/ state \in {"completed", "error", "cancelling"} /\ Over /\ ~Reported
<1>1. state \in States BY DEF TypeOK
<1>2. CASE state = "disconnected" BY <1>2 DEF Stages, NotBegun
<1>3. CASE state = "initializing" BY <1>3 DEF Stages, Subscribing
<1>4. CASE state \in {"registering", "polling"} BY <1>4 DEF Stages, Requesting
<1>5. CASE state = "waiting_to_poll" BY <1>5 DEF Stages, Waiting
<1>6. CASE state \in {"completed", "error", "cancelling"} BY <1>6 DEF Stages, Over
<1>7. QED BY <1>1, <1>2, <1>3, <1>4, <1>5, <1>6 DEF States

(* The operations that are left then.                                      *)
LEMMA OpsLeft ==
  ASSUME Over, ops # <<>>
  PROVE  /\ Tail(ops) \in {<<>>} \union {<<why>> : why \in Ends}
         /\ Head(ops) \in Ends => Tail(ops) = <<>>
<1>1. CASE ops = <<"subscribe", "cancel">>
  <2>1. Head(ops) = "subscribe" /\ Tail(ops) = <<"cancel">> BY <1>1
  <2>2. "cancel" \in Ends /\ "subscribe" \notin Ends BY DEF Ends
  <2>3. QED BY <2>1, <2>2
<1>2. ASSUME NEW why \in Ends, ops = <<why>>
      PROVE  Tail(ops) = <<>>
  BY <1>2
<1>3. QED BY <1>1, <1>2 DEF Over

LEMMA StagesSubscribe ==
  ASSUME TypeOK, Stages, Subscribed \/ SubscribeOverrun
  PROVE  Stages'
<1>1. /\ ops # <<>> /\ ops' = Tail(ops) /\ Head(ops) = "subscribe"
      /\ UNCHANGED <<state, triggers, unanswered, armed, fired, queryTimer, pollTimer>>
  <2>1. CASE Subscribed BY <2>1 DEF Subscribed, machine, timers
  <2>2. CASE SubscribeOverrun
    <3>1. ops # <<>> BY <2>2 DEF SubscribeOverrun, TypeOK
    <3>2. QED BY <2>2, <3>1 DEF SubscribeOverrun, machine, timers
  <2>3. QED BY <2>1, <2>2
<1>2. tasks' = Append(tasks, [what |-> "subscribed"]) \/ (Len(ops) > 1 /\ tasks' = tasks)
  BY DEF Subscribed, SubscribeOverrun
<1>3. CASE /\ state = "initializing" /\ Subscribing /\ ops = <<"subscribe">>
           /\ tasks = <<>> /\ ~Queued(Continues)
  <2>1. ops' = <<>> BY <1>1, <1>3
  <2>2. tasks' = <<[what |-> "subscribed"]>> BY <1>2, <1>3
  <2>3. \A some : Only(some)' = Only(some) /\ Once(some)' = Once(some) /\ Queued(some)' = Queued(some)
    BY <1>1, Keeps
  <2>4. Subscribing' BY <1>1, <1>3, <2>1, <2>2, <2>3 DEF Subscribing
  <2>5. QED BY <1>1, <1>3, <2>4 DEF Stages
<1>4. CASE state \in {"completed", "error", "cancelling"} /\ Over /\ ~Reported
  <2>1. ops' \in {<<>>} \union {<<why>> : why \in Ends} BY <1>1, <1>4, OpsLeft
  <2>2. ~Reported'
    <3>1. CASE tasks' = tasks BY <1>4, <3>1 DEF Reported
    <3>2. CASE tasks' = Append(tasks, [what |-> "subscribed"])
      <4>1. [what |-> "subscribed"] \in Tasks /\ [what |-> "subscribed"].what # "disconnected" BY NewTask
      <4>2. Reported' => Reported BY <3>2, <4>1, Reports
      <4>3. QED BY <1>4, <4>2
    <3>3. QED BY <1>2, <3>1, <3>2
  <2>3. Over' BY <1>1, <1>4, <2>1, <2>2 DEF Over
  <2>4. QED BY <1>1, <1>4, <2>3 DEF Stages
<1>5. QED BY <1>1, <1>3, <1>4, OpsOf

LEMMA StagesDisconnect ==
  ASSUME TypeOK, Stages, Disconnected
  PROVE  Stages'
<1>1. /\ ops # <<>> /\ ops' = Tail(ops) /\ Head(ops) \in Ends /\ open' = FALSE
      /\ UNCHANGED <<state, armed>>
  BY DEF Disconnected, machine, timers
<1>2. CASE ops = <<"subscribe">> BY <1>1, <1>2 DEF Ends
<1>3. CASE state \in {"completed", "error", "cancelling"} /\ Over /\ ~Reported
  <2>1. ops' = <<>> BY <1>1, <1>3, OpsLeft
  <2>2. Over' BY <1>1, <1>3, <2>1 DEF Over
  <2>3. QED BY <1>1, <1>3, <2>2 DEF Stages
<1>4. QED BY <1>1, <1>2, <1>3, OpsOf

(* The service answers.                                                    *)
LEMMA StagesAnswer ==
  ASSUME TypeOK, Stages, NEW rid \in unanswered, NEW status \in Statuses, Respond(rid, status),
         faults' = faults
  PROVE  Stages'
<1> DEFINE task == [what |-> "response", rid |-> rid, status |-> status]
<1>1. /\ tasks' = Append(tasks, task) /\ unanswered' = unanswered \ {rid}
      /\ UNCHANGED <<state, triggers, ops, armed, fired, queryTimer, pollTimer, open>>
  <2>1. faults \in Nat BY RegistrationAssumption DEF TypeOK
  <2>2. unanswered' = unanswered \ {rid} BY <2>1 DEF Respond, Fault
  <2>3. QED BY <2>2 DEF Respond, machine, timers
<1>2. task \in Tasks /\ task.what = "response"
  <2>1. rid \in Nat BY DEF TypeOK
  <2>2. QED BY <2>1, NewTask
<1> HIDE DEF task
<1>3. state \in States /\ ~NotBegun /\ ~Subscribing /\ ~Waiting BY DEF TypeOK, NotBegun, Subscribing, Waiting
<1>4. ASSUME Requesting PROVE Requesting'
  <2>1. tasks = <<>> /\ unanswered = {rid} /\ ~Queued(Continues) BY <1>4 DEF Requesting
  <2>2. tasks' = <<task>> /\ unanswered' = {} BY <1>1, <2>1
  <2>3. Len(tasks') = 1 /\ Head(tasks').what = "response" BY <1>2, <2>2
  <2>4. \A some : Only(some)' = Only(some) /\ Once(some)' = Once(some) /\ Queued(some)' = Queued(some)
    BY <1>1, Keeps
  <2>5. NonePolls' = NonePolls BY <1>1 DEF NonePolls
  <2>6. QED BY <1>1, <1>4, <2>1, <2>2, <2>3, <2>4, <2>5 DEF Requesting
<1>5. ASSUME Over PROVE Over'
  <2>1. Reported' => Reported BY <1>1, <1>2, Reports
  <2>2. QED BY <1>1, <1>5, <2>1 DEF Over
<1>6. QED BY <1>1, <1>3, <1>4, <1>5 DEF Stages, States

-----------------------------------------------------------------------------
(* A registration that nothing disturbs goes from stage to stage.          *)
LEMMA StagesStep ==
  ASSUME TypeOK, TypeOK', StagesInv, [Next]_vars
  PROVE  StagesInv'
<1> SUFFICES ASSUME Undisturbed' PROVE (BeginsOnce /\ Stages)'
  BY DEF StagesInv
<1>1. Undisturbed /\ faults' = faults BY WasUndisturbed
<1>2. BeginsOnce /\ Stages BY <1>1 DEF StagesInv
<1>3. BeginsOnce' BY <1>1, <1>2, BeginsStep
<1>4. ASSUME UNCHANGED stageVars PROVE Stages' BY <1>2, <1>4, StagesKept
<1>5. CASE Process
  <2>1. state \in States BY DEF TypeOK
  <2>2. QED
    BY <1>2, <1>3, <1>5, <2>1, StagesBegun, StagesSubscribed, StagesAnswered, StagesWaited, StagesOver DEF States
<1>6. ASSUME NEW c \in Calls, CallFires(c) PROVE Stages' BY <1>1, <1>2, <1>6, StagesFired
<1>7. CASE ProcessRaises BY <1>2, <1>3, <1>7, StagesRaised
<1>8. ASSUME NEW t \in armed, TimeUp(t) PROVE Stages' BY <1>2, <1>8, StagesTimeUp
<1>9. ASSUME NEW t \in fired, RunTimer(t) PROVE Stages' BY <1>2, <1>9, StagesTimer
<1>10. CASE RunTask
  BY <1>2, <1>3, <1>10, StagesSubscribeTask, StagesDisconnectTask, StagesDropTask, StagesResponseTask DEF RunTask
<1>11. CASE Subscribed \/ SubscribeOverrun BY <1>2, <1>3, <1>11, StagesSubscribe
<1>12. CASE Disconnected BY <1>2, <1>3, <1>12, StagesDisconnect
<1>13. CASE OpFails
  <2>1. faults \in Nat BY RegistrationAssumption DEF TypeOK
  <2>2. FALSE BY <1>1, <1>13, <2>1 DEF OpFails, Fault
  <2>3. QED BY <2>2
<1>14. ASSUME NEW rid \in unanswered, NEW status \in Statuses, Respond(rid, status) PROVE Stages'
  BY <1>1, <1>2, <1>14, StagesAnswer
<1>15. ASSUME NEW c \in Calls, Call(c) PROVE Stages'
  <2>1. UNCHANGED stageVars BY <1>15 DEF Call, stageVars, machine, timers, network
  <2>2. QED BY <1>4, <2>1
<1>16. CASE UNCHANGED vars
  <2>1. UNCHANGED stageVars BY <1>16 DEF vars, stageVars, machine, timers, network
  <2>2. QED BY <1>3, <1>4, <2>1
<1>17. Stages'
  BY <1>5, <1>6, <1>7, <1>8, <1>9, <1>10, <1>11, <1>12, <1>13, <1>14, <1>15, <1>16 DEF Next
<1>18. QED BY <1>3, <1>17

LEMMA InitStages == Init => StagesInv
<1> SUFFICES ASSUME Init PROVE BeginsOnce /\ Stages BY DEF StagesInv
<1>1. \A some : Only(some) /\ Once(some) /\ ~Queued(some) BY DEF Init, Only, Once, Queued
<1>2. BeginsOnce BY <1>1 DEF BeginsOnce, Init
<1>3. NotBegun BY <1>1 DEF NotBegun, Init
<1>4. Stages BY <1>3 DEF Stages, Init
<1>5. QED BY <1>2, <1>4

(* One thing at a time carries on a registration that neither a fault nor  *)
(* a second call of register disturbs, however timers, answers and         *)
(* cancellations cross.                                                    *)
THEOREM StagesHold == Spec => []StagesInv
<1>1. TypeOK /\ TypeOK' /\ StagesInv /\ [Next]_vars => StagesInv' BY StagesStep
<1>2. CallsInv => TypeOK BY DEF CallsInv
<1>3. QED BY InitStages, CallsCorrect, <1>1, <1>2, PTL DEF Spec

(* The invariant of the registration, for any calls, answers and faults.   *)
THEOREM RegistrationCorrect == Spec => []RegistrationInv
<1>1. CallsInv /\ StagesInv => RegistrationInv BY DEF RegistrationInv
<1>2. QED BY CallsCorrect, StagesHold, <1>1, PTL

(* No timer runs once such a registration completed, failed or was         *)
(* cancelled.                                                              *)
THEOREM TimersStoppedHolds == Spec => []TimersStopped
<1>1. TypeOK /\ StagesInv => TimersStopped
  <2> SUFFICES ASSUME TypeOK, StagesInv, Undisturbed, armed # {} PROVE state \in Active
    BY DEF TimersStopped, Undisturbed
  <2>1. state \in States /\ Stages BY DEF TypeOK, StagesInv
  <2>2. state # "disconnected" BY <2>1 DEF Stages, NotBegun
  <2>3. state # "initializing" BY <2>1 DEF Stages, Subscribing
  <2>4. state \notin {"completed", "error", "cancelling"} BY <2>1 DEF Stages, Over
  <2>5. QED BY <2>1, <2>2, <2>3, <2>4 DEF States, Active
<1>2. CallsInv => TypeOK BY DEF CallsInv
<1>3. QED BY StagesHold, CallsCorrect, <1>1, <1>2, PTL

(* "Before returning the client will also disconnect": there is no         *)
(* connection when the callback of such a registration, or of its          *)
(* cancellation, is called.                                                *)
THEOREM ReturnsDisconnectedHolds == Spec => ReturnsDisconnected
<1> DEFINE Step == called' # called /\ faults = 0 /\ ~RegisteredTwice => ~open
<1>1. TypeOK /\ StagesInv /\ [Next]_vars => [Step]_vars
  <2> SUFFICES ASSUME TypeOK, StagesInv, [Next]_vars, called' # called, Undisturbed
               PROVE  ~open
    BY DEF Undisturbed
  <2>1. Stages BY DEF StagesInv
  <2>2. OnDisconnectCompleted
    BY DEF vars, machine, client, requests, timers, network, Next, RunTask, Call, CallFires, Process, ProcessRaises,
           TimeUp, RunTimer, OnSubscribeCompleted, DropResponse, OnResponse, Subscribed, SubscribeOverrun,
           Disconnected, OpFails, Respond
  <2>3. QED BY <2>1, <2>2, StagesDisconnectTask
<1>2. CallsInv => TypeOK BY DEF CallsInv
<1>3. QED BY StagesHold, CallsCorrect, <1>1, <1>2, PTL DEF Spec, ReturnsDisconnected
=============================================================================
