---------------------------- MODULE Registration ----------------------------
(***************************************************************************)
(* The registration of a device: PollingMachine, RequestResponseProvider   *)
(* and ProvisioningPipeline under the clients that wait for them.          *)
(*                                                                         *)
(* A trigger of the state machine is put into a queue (queued=True).  The  *)
(* thread that finds the queue empty, `processor`, carries out its own     *)
(* trigger and all that arrive meanwhile; the others return at once.  What *)
(* a trigger raises empties the queue and reaches the processor, whoever   *)
(* fired it.  Triggers come from the application, from the callback thread *)
(* (`tasks` is its queue) and from the threads of two kinds of timers.     *)
(* Of _trig_wait there are two: "retry" carries no operation id, "wait"    *)
(* does.                                                                   *)
(***************************************************************************)
EXTENDS Naturals, Sequences, FiniteSets

CONSTANTS
  Registers,  (* calls of register                                         *)
  Cancels,    (* calls of cancel                                           *)
  MaxCalls,   (* bound on the calls the application makes                  *)
  MaxAgain,   (* bound on the answers that ask for another request         *)
  MaxFaults,  (* bound on the faults of pipeline and broker                *)
  CallbackThread, None

Calls    == Registers \union Cancels
States   == {"disconnected", "initializing", "registering", "waiting_to_poll",
             "polling", "completed", "error", "cancelling"}
Active   == {"registering", "waiting_to_poll", "polling"}
Triggers == {"register", "send", "retry", "wait", "poll", "complete", "error", "cancel"}
Ends     == {"complete", "error", "cancel"}
Statuses == {"retry", "failure", "assigning", "unnamed", "finished", "other", "unreadable"}
Timers   == [does : {"error", "send", "poll"}, of : Nat]
Tasks    == [what : {"response"}, rid : Nat, status : Statuses]
              \union [what : {"subscribed"}]
              \union [what : {"disconnected"}, why : Ends]

ASSUME RegistrationAssumption ==
  /\ Registers \intersect Cancels = {}
  /\ MaxCalls \in Nat /\ MaxAgain \in Nat /\ MaxFaults \in Nat
  /\ CallbackThread \notin Calls \union Timers
  /\ \A c \in Calls : c \notin Timers
  /\ None \notin Calls \union Timers \union {CallbackThread}

VARIABLES
  state,             (* of the state machine                               *)
  triggers,          (* its queue                                          *)
  processor,         (* the thread that works on the queue, or None        *)
  call,              (* how far each call of the application is            *)
  called,            (* how often the callback of each call was called     *)
  registerCallback,  (* _register_callback: the call it belongs to         *)
  cancelCallback,    (* _cancel_callback                                   *)
  sent,              (* requests sent so far; the last one is their id     *)
  queries,           (* the requests that poll, the others register        *)
  operations,        (* _operations                                        *)
  pending,           (* _pending_requests                                  *)
  queryTimer,        (* _query_timer                                       *)
  pollTimer,         (* _polling_timer                                     *)
  armed,             (* timers that run                                    *)
  fired,             (* timers whose function is about to run              *)
  tasks,             (* what the callback thread still has to run          *)
  handled,           (* the request whose answer it is handling, or 0      *)
  ops,               (* operations of the pipeline that have not ended     *)
  open,              (* whether there is a connection                      *)
  unanswered,        (* requests the service has yet to answer             *)
  again, faults      (* counters of the two bounds                         *)

machine  == <<state, triggers, processor>>
client   == <<call, called, registerCallback, cancelCallback>>
requests == <<sent, queries, operations, pending, handled>>
timers   == <<queryTimer, pollTimer, armed, fired>>
network  == <<tasks, ops, open, unanswered, again, faults>>
vars     == <<machine, client, requests, timers, network>>

TypeOK ==
  /\ state \in States
  /\ triggers \in Seq(Triggers)
  /\ processor \in Calls \union Timers \union {CallbackThread, None}
  /\ call \in [Calls -> {"idle", "stored", "waiting", "raised"}]
  /\ called \in [Calls -> Nat]
  /\ registerCallback \in Registers \union {None}
  /\ cancelCallback \in Cancels \union {None}
  /\ sent \in Nat /\ handled \in Nat
  /\ queries \subseteq Nat /\ operations \subseteq Nat /\ pending \subseteq Nat
  /\ queryTimer \in Timers \union {None} /\ pollTimer \in Timers \union {None}
  /\ armed \subseteq Timers /\ fired \subseteq Timers
  /\ tasks \in Seq(Tasks)
  /\ ops \in Seq({"subscribe"} \union Ends)
  /\ open \in BOOLEAN
  /\ unanswered \subseteq Nat
  /\ again \in 0..MaxAgain /\ faults \in 0..MaxFaults

Init ==
  /\ state = "disconnected" /\ triggers = <<>> /\ processor = None
  /\ call = [c \in Calls |-> "idle"] /\ called = [c \in Calls |-> 0]
  /\ registerCallback = None /\ cancelCallback = None
  /\ sent = 0 /\ queries = {} /\ operations = {} /\ pending = {} /\ handled = 0
  /\ queryTimer = None /\ pollTimer = None /\ armed = {} /\ fired = {}
  /\ tasks = <<>> /\ ops = <<>> /\ open = FALSE /\ unanswered = {}
  /\ again = 0 /\ faults = 0

-----------------------------------------------------------------------------
(* Thread t fires a trigger.  The append and the test whether the queue    *)
(* was empty, both of the library, are one step.                           *)
Fire(t, trigger) ==
  /\ triggers' = Append(triggers, trigger)
  /\ processor' = IF triggers = <<>> THEN t ELSE processor
  /\ UNCHANGED state

(* register and cancel store their callback before anything else ...       *)
(* Idle calls of register differ in nothing, so the next is any of them.   *)
Call(c) ==
  /\ call[c] = "idle" /\ Cardinality({d \in Calls : call[d] # "idle"}) < MaxCalls
  /\ c \in Registers => c = CHOOSE d \in Registers : call[d] = "idle"
  /\ call' = [call EXCEPT ![c] = "stored"]
  /\ registerCallback' = IF c \in Registers THEN c ELSE registerCallback
  /\ cancelCallback' = IF c \in Cancels THEN c ELSE cancelCallback
  /\ UNCHANGED <<machine, called, requests, timers, network>>

(* ... and then fire; the client waits for the callback after that.        *)
CallFires(c) ==
  /\ call[c] = "stored"
  /\ call' = [call EXCEPT ![c] = "waiting"]
  /\ Fire(c, IF c \in Registers THEN "register" ELSE "cancel")
  /\ UNCHANGED <<called, registerCallback, cancelCallback, requests, timers, network>>

(* The pipeline of the provisioning client carries out operations in their *)
(* order; the end of one is a task of the callback thread.                 *)
RunOp(op) ==
  /\ ops' = Append(ops, op)
  /\ UNCHANGED <<tasks, open, unanswered, again, faults>>

(* Mutant: the end is reported without waiting for the disconnect.         *)
DisconnectAtOnce(why) ==
  /\ ops' = Append(ops, why)
  /\ tasks' = Append(tasks, [what |-> "disconnected", why |-> why])
  /\ UNCHANGED <<open, unanswered, again, faults>>
Disconnect(why) == RunOp(why)

-----------------------------------------------------------------------------
(* The transitions, each with what it calls.                               *)
To(dest) == state' = dest

Stay == UNCHANGED <<state, sent, queries, operations, timers, network>>

InitializeRegister ==
  /\ To("initializing")
  /\ RunOp("subscribe")
  /\ UNCHANGED <<sent, queries, operations, timers>>

(* Mutant: only the first request of a registration is timed.              *)
SetTimerUnlessPoll(query, timer) ==
  /\ queryTimer' = timer
  /\ armed' = IF query THEN armed ELSE armed \union {timer}
SetQueryTimer(query, timer) ==
  /\ queryTimer' = timer
  /\ armed' = armed \union {timer}

(* send_request of the pipeline, which converts it to a publish.           *)
Publish(rid) == unanswered' = unanswered \union {rid}

SendRequest(query) ==
  LET rid == sent + 1 IN
  /\ To(IF query THEN "polling" ELSE "registering")
  /\ sent' = rid
  /\ queries' = IF query THEN queries \union {rid} ELSE queries
  /\ operations' = operations \union {rid}
  /\ Publish(rid)
  /\ SetQueryTimer(query, [does |-> "error", of |-> rid])
  /\ UNCHANGED <<pollTimer, fired, tasks, ops, open, again, faults>>

WaitForInterval(does) ==
  LET timer == [does |-> does, of |-> sent] IN
  /\ To("waiting_to_poll")
  /\ pollTimer' = timer /\ armed' = armed \union {timer}
  /\ UNCHANGED <<sent, queries, operations, queryTimer, fired, network>>

(* Mutant: only the query timer is cleared.                                *)
ClearQueryTimer == armed' = armed \ {queryTimer}
ClearTimers == armed' = armed \ {queryTimer, pollTimer}

(* _call_complete, _call_error, _call_cancel.                              *)
End(dest, why) ==
  /\ To(dest)
  /\ ClearTimers
  /\ Disconnect(why)
  /\ UNCHANGED <<sent, queries, operations, queryTimer, pollTimer, fired>>

Transition(trigger) ==
  \/ trigger = "register" /\ state \in {"disconnected", "error"} /\ InitializeRegister
  \/ trigger = "register" /\ state = "registering" /\ Stay
  \/ trigger = "send" /\ state \in {"initializing", "waiting_to_poll"} /\ SendRequest(FALSE)
  \/ trigger = "retry" /\ state \in {"registering", "polling"} /\ WaitForInterval("send")
  \/ trigger = "wait" /\ state \in {"registering", "polling"} /\ WaitForInterval("poll")
  \/ trigger = "poll" /\ state = "waiting_to_poll" /\ SendRequest(TRUE)
  \/ trigger = "complete" /\ state \in Active /\ End("completed", "complete")
  \/ trigger = "error" /\ state \in Active /\ End("error", "error")
  \/ trigger = "cancel" /\ state \in Active \union {"initializing"} /\ End("cancelling", "cancel")
  \/ trigger \in {"retry", "wait", "poll", "error"} /\ state = "cancelling" /\ Stay

(* The table has no entry (MachineError), or _inform_no_process raises.    *)
Raises(trigger) ==
  CASE trigger = "register"          -> state \notin {"disconnected", "error", "registering"}
    [] trigger = "send"              -> state \notin {"initializing", "waiting_to_poll"}
    [] trigger \in {"retry", "wait"} -> state \notin {"registering", "polling", "cancelling"}
    [] trigger = "poll"              -> state \notin {"waiting_to_poll", "cancelling"}
    [] trigger = "complete"          -> state \notin Active
    [] trigger = "error"             -> state \notin Active \union {"cancelling"}
    [] trigger = "cancel"            -> state \notin Active \union {"initializing"}

NewRequest == IF sent' = sent THEN {} ELSE {sent'}

(* The processor carries out the trigger at the head of the queue, and     *)
(* leaves when that was the last; the callback thread then forgets the     *)
(* request whose answer it handled.                                        *)
Process ==
  LET last  == Len(triggers) = 1
      ended == last /\ processor = CallbackThread IN
  /\ triggers # <<>>
  /\ Transition(Head(triggers))
  /\ triggers' = Tail(triggers)
  /\ processor' = IF last THEN None ELSE processor
  /\ pending' = NewRequest \union (IF ended THEN pending \ {handled} ELSE pending)
  /\ handled' = IF ended THEN 0 ELSE handled
  /\ UNCHANGED client

(* What is raised empties the queue.  A call of the application raises it; *)
(* the callback thread and timers drop it.                                 *)
ProcessRaises ==
  /\ triggers # <<>> /\ Raises(Head(triggers))
  /\ triggers' = <<>> /\ processor' = None
  /\ call' = IF processor \in Calls THEN [call EXCEPT ![processor] = "raised"] ELSE call
  /\ handled' = IF processor = CallbackThread THEN 0 ELSE handled
  /\ UNCHANGED <<state, called, registerCallback, cancelCallback, sent, queries, operations,
                 pending, timers, network>>

-----------------------------------------------------------------------------
(* A timer runs out.  From then on cancel() does not stop its function.    *)
TimeUp(t) ==
  /\ t \in armed
  /\ armed' = armed \ {t} /\ fired' = fired \union {t}
  /\ UNCHANGED <<machine, client, requests, queryTimer, pollTimer, network>>

(* time_up_query and time_up_polling cancel the timer that is current now. *)
RunTimer(t) ==
  /\ t \in fired
  /\ fired' = fired \ {t}
  /\ armed' = armed \ {IF t.does = "error" THEN queryTimer ELSE pollTimer}
  /\ Fire(t, t.does)
  /\ UNCHANGED <<client, requests, queryTimer, pollTimer, network>>

-----------------------------------------------------------------------------
(* The callback thread takes its next task.                                *)
Take(what) ==
  /\ tasks # <<>> /\ Head(tasks).what = what
  /\ processor # CallbackThread
  /\ tasks' = Tail(tasks)
  /\ UNCHANGED <<ops, open, unanswered, again, faults>>

OnSubscribeCompleted ==
  /\ Take("subscribed")
  /\ Fire(CallbackThread, "send")
  /\ UNCHANGED <<client, requests, timers>>

(* Mutant: the callback stays stored when it is called.                    *)
KeepCallback(stored) == stored
ForgetCallback(stored) == None

(* The client's Event is set: the call returns once its trigger has.       *)
CallBack(c) == called' = IF c = None THEN called ELSE [called EXCEPT ![c] = @ + 1]

OnDisconnectCompleted ==
  /\ Take("disconnected")
  /\ IF Head(tasks).why = "cancel"
     THEN /\ CallBack(cancelCallback)
          /\ cancelCallback' = ForgetCallback(cancelCallback)
          /\ UNCHANGED registerCallback
     ELSE /\ CallBack(registerCallback)
          /\ registerCallback' = ForgetCallback(registerCallback)
          /\ UNCHANGED cancelCallback
  /\ UNCHANGED <<machine, call, requests, timers>>

(* The answer to a request: the trigger it fires, or "none" when its       *)
(* handler raises: a KeyError because the request is not in _operations,   *)
(* or because the body is no JSON, "unreadable".  "unnamed" is "assigning" *)
(* without an operation id, after which the machine registers again.       *)
Handle(rid, status) ==
  CASE rid \notin operations /\ status = "retry" /\ rid \in queries -> "error"
    [] rid \notin operations /\ status # "failure"                  -> "none"
    [] status = "unreadable"                                        -> "none"
    [] status = "unnamed"                                           -> "retry"
    [] status = "retry" /\ rid \notin queries                       -> "retry"
    [] status = "retry" /\ rid \in queries                          -> "wait"
    [] status = "assigning"                                         -> "wait"
    [] status = "finished"                                          -> "complete"
    [] OTHER                                                        -> "error"

StopsFor(rid) == IF rid \in queries THEN {queryTimer, pollTimer} ELSE {queryTimer}

DropResponse ==
  /\ Take("response")
  /\ Head(tasks).rid \notin pending
  /\ UNCHANGED <<machine, client, requests, timers>>

OnResponse ==
  LET rid     == Head(tasks).rid
      status  == Head(tasks).status
      trigger == Handle(rid, status) IN
  /\ Take("response")
  /\ rid \in pending
  /\ armed' = armed \ StopsFor(rid)
  /\ operations' = IF status = "failure" THEN operations ELSE operations \ {rid}
  /\ \/ trigger = "none" /\ UNCHANGED <<machine, pending, handled>>
     \/ /\ trigger # "none" /\ triggers = <<>>
        /\ Fire(CallbackThread, trigger)
        /\ handled' = rid
        /\ UNCHANGED pending
     \/ /\ trigger # "none" /\ triggers # <<>>
        /\ Fire(CallbackThread, trigger)
        /\ pending' = pending \ {rid}
        /\ UNCHANGED handled
  /\ UNCHANGED <<client, sent, queries, queryTimer, pollTimer, fired>>

-----------------------------------------------------------------------------
(* The pipeline and the service.  A disconnect takes a subscribe before it *)
(* along.  A response is kept for the next connection only by a fault.     *)
Fault == faults < MaxFaults /\ faults' = faults + 1

Subscribed ==
  /\ ops # <<>> /\ Head(ops) = "subscribe"
  /\ ops' = Tail(ops) /\ open' = TRUE
  /\ tasks' = Append(tasks, [what |-> "subscribed"])
  /\ UNCHANGED <<machine, client, requests, timers, unanswered, again, faults>>

SubscribeOverrun ==
  /\ Len(ops) > 1 /\ Head(ops) = "subscribe"
  /\ ops' = Tail(ops)
  /\ UNCHANGED <<machine, client, requests, timers, tasks, open, unanswered, again, faults>>

Disconnected ==
  /\ ops # <<>> /\ Head(ops) \in Ends
  /\ ops' = Tail(ops) /\ open' = FALSE
  /\ tasks' = Append(tasks, [what |-> "disconnected", why |-> Head(ops)])
  /\ \/ unanswered' = {} /\ UNCHANGED faults
     \/ unanswered # {} /\ Fault /\ UNCHANGED unanswered
  /\ UNCHANGED <<machine, client, requests, timers, again>>

(* pipeline_callback of the failed operation calls exit(1) on the callback *)
(* thread, where the exception is dropped.                                 *)
OpFails ==
  /\ ops # <<>> /\ Fault
  /\ ops' = Tail(ops)
  /\ UNCHANGED <<machine, client, requests, timers, tasks, open, unanswered, again>>

(* A response that asks for another request.                               *)
Again(status) == status \in {"retry", "assigning", "unnamed"}

Respond(rid, status) ==
  /\ open /\ rid \in unanswered
  /\ Again(status) => again < MaxAgain
  /\ again' = IF Again(status) THEN again + 1 ELSE again
  /\ tasks' = Append(tasks, [what |-> "response", rid |-> rid, status |-> status])
  /\ \/ unanswered' = unanswered \ {rid} /\ UNCHANGED faults
     \/ Fault /\ UNCHANGED unanswered
  /\ UNCHANGED <<machine, client, requests, timers, ops, open>>

-----------------------------------------------------------------------------
RunTask == OnSubscribeCompleted \/ OnDisconnectCompleted \/ DropResponse \/ OnResponse

Next ==
  \/ \E c \in Calls : Call(c) \/ CallFires(c)
  \/ Process \/ ProcessRaises
  \/ \E t \in armed : TimeUp(t)
  \/ \E t \in fired : RunTimer(t)
  \/ RunTask
  \/ Subscribed \/ SubscribeOverrun \/ Disconnected \/ OpFails
  \/ \E rid \in unanswered, status \in Statuses : Respond(rid, status)

Spec == Init /\ [][Next]_vars

(* Threads go on, timers run out and the pipeline ends what it was given   *)
(* (or fails, which is a fault).  Nothing obliges the service to answer.   *)
FairSpec ==
  /\ Spec
  /\ \A c \in Calls : WF_vars(CallFires(c))
  /\ WF_vars(Process \/ ProcessRaises)
  /\ WF_vars(\E t \in armed : TimeUp(t))
  /\ WF_vars(\E t \in fired : RunTimer(t))
  /\ WF_vars(RunTask)
  /\ WF_vars(Subscribed \/ Disconnected)

-----------------------------------------------------------------------------
Ended(c) == call[c] = "raised" \/ (call[c] = "waiting" /\ called[c] > 0)

(* Nothing interferes with the registration of c: no other call of the     *)
(* application, no fault.                                                  *)
Lone(c) == faults = 0 /\ \A d \in Calls \ {c} : call[d] = "idle"

(* The handler of the answer to the last request raised: the operation is  *)
(* gone, the request is still pending, and nothing else goes on.           *)
LastUnread ==
  /\ state \in {"registering", "polling"}
  /\ sent \in pending \ operations /\ handled # sent
  /\ triggers = <<>> /\ armed = {} /\ fired = {}

(* register returns: whether the service answers or never does, and        *)
(* however timers and answers cross, a registration nothing interferes     *)
(* with calls its callback, or the last answer had no readable body.       *)
RegisterReturns ==
  \A c \in Registers : call[c] = "stored" ~> Ended(c) \/ ~Lone(c) \/ LastUnread

(* "Before returning the client will also disconnect from the provisioning *)
(* service": there is no connection when a callback is called, as long as  *)
(* the application does not register twice.                                *)
RegisteredTwice ==
  \E c, d \in Registers : c # d /\ call[c] # "idle" /\ call[d] # "idle"

ReturnsDisconnected ==
  [][called' # called /\ faults = 0 /\ ~RegisteredTwice => ~open]_vars

(* The callback of a call is called once, however many registrations and   *)
(* disconnects overlap.                                                    *)
CalledOnce == \A c \in Calls : called[c] <= 1

(* A trigger in the queue has a thread that will carry it out, which is    *)
(* inside its own call, timer or task meanwhile.                           *)
QueueServed ==
  /\ processor = None <=> triggers = <<>>
  /\ processor \in Calls => call[processor] = "waiting"
  /\ handled # 0 => processor = CallbackThread

(* A callback that is stored was not called, and a call that was not made  *)
(* stored none.                                                            *)
StoredUncalled ==
  /\ \A c \in Calls : registerCallback = c \/ cancelCallback = c => called[c] = 0
  /\ \A c \in Calls : call[c] = "idle" =>
       called[c] = 0 /\ registerCallback # c /\ cancelCallback # c

(* These conjuncts are inductive, whatever disturbs a registration.        *)
CallsInv == TypeOK /\ QueueServed /\ StoredUncalled /\ CalledOnce

(* No timer runs once a registration ended in whatever way: none can send  *)
(* a request, or report an error, for a registration that is over, as long *)
(* as the application does not register twice.  (A second registration may *)
(* send while the query timer of the first runs, and replaces it.)         *)
TimersStopped ==
  faults = 0 /\ ~RegisteredTwice => (armed # {} => state \in Active)

(* "In case there is no registration in process it will throw an error":   *)
(* cancel returns or raises.                                               *)
CancelEnds == \A c \in Cancels : call[c] = "stored" ~> Ended(c) \/ faults > 0

-----------------------------------------------------------------------------
(* Why TimersStopped and ReturnsDisconnected hold: a registration that no  *)
(* fault and no second registration disturbs is carried on by one thing at *)
(* a time.  Before each request that is the subscription, the task of its  *)
(* end or a trigger; after it the service, its answer or a trigger; and    *)
(* while it waits a timer, the thread of that timer or a trigger.          *)
Undisturbed == faults = 0 /\ ~RegisteredTwice

Continues == {"send", "retry", "wait", "poll"}
Queued(some) == \E i \in DOMAIN triggers : triggers[i] \in some
Only(some)   == \A i \in DOMAIN triggers : triggers[i] \in some
Once(some)   ==
  \A i, j \in DOMAIN triggers : triggers[i] \in some /\ triggers[j] \in some => i = j
NonePolls    == \A t \in fired : t.does = "error"

NotBegun ==
  /\ Only({"register", "cancel"})
  /\ ops = <<>> /\ tasks = <<>> /\ unanswered = {} /\ armed = {} /\ fired = {}

Subscribing ==
  /\ Only({"send", "cancel"}) /\ Once(Continues)
  /\ unanswered = {} /\ armed = {} /\ fired = {}
  /\ \/ ops = <<"subscribe">> /\ tasks = <<>> /\ ~Queued(Continues)
     \/ ops = <<>> /\ tasks = <<[what |-> "subscribed"]>> /\ ~Queued(Continues)
     \/ ops = <<>> /\ tasks = <<>>

Requesting ==
  /\ Only({"retry", "wait"} \union Ends) /\ Once(Continues)
  /\ ops = <<>>
  /\ armed \subseteq {queryTimer} /\ NonePolls
  /\ \A t \in armed : t.does = "error"
  /\ \/ tasks = <<>> /\ (\A r, s \in unanswered : r = s) /\ ~Queued(Continues)
     \/ Len(tasks) = 1 /\ Head(tasks).what = "response" /\ unanswered = {} /\ ~Queued(Continues)
     \/ tasks = <<>> /\ unanswered = {} /\ (Queued(Continues) => armed = {})

Waiting ==
  /\ Only({"send", "poll"} \union Ends) /\ Once(Continues)
  /\ ops = <<>> /\ tasks = <<>> /\ unanswered = {}
  /\ armed \subseteq {pollTimer}
  /\ \A t \in armed : t.does # "error"
  /\ \A t, u \in fired : t.does # "error" /\ u.does # "error" => t = u
  /\ armed # {} \/ Queued(Continues) => NonePolls
  /\ armed # {} => ~Queued(Continues)

(* What a registration that is over leaves behind starts nothing: only a   *)
(* subscription that was cancelled is before the last disconnect.          *)
Reported == \E i \in DOMAIN tasks : tasks[i].what = "disconnected"
Over ==
  /\ armed = {}
  /\ ops \in {<<>>, <<"subscribe", "cancel">>} \union {<<why>> : why \in Ends}
  /\ Reported => ops = <<>> /\ ~open

(* The one call of register fires one trigger, which begins it.            *)
BeginsOnce ==
  /\ Once({"register"})
  /\ state # "disconnected" \/ Queued({"register"}) =>
       \E c \in Registers : call[c] \notin {"idle", "stored"}
  /\ state # "disconnected" => ~Queued({"register"})

Stages ==
  /\ state = "disconnected"                => NotBegun
  /\ state = "initializing"                => Subscribing
  /\ state \in {"registering", "polling"}  => Requesting
  /\ state = "waiting_to_poll"             => Waiting
  /\ state \in {"completed", "error", "cancelling"} => Over

StagesInv == Undisturbed => BeginsOnce /\ Stages

(* The inductive invariant.                                                *)
RegistrationInv == CallsInv /\ StagesInv
=============================================================================
