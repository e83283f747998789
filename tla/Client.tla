-------------------------------- MODULE Client --------------------------------
(***************************************************************************)
(* The receiving side of the IoT Hub clients: receive_method_request,      *)
(* receive_input_message, receive_c2d_message and the receiving of twin    *)
(* patches, InboxManager with its inboxes, and the handlers that           *)
(* IoTHubPipeline runs on the callback thread.                             *)
(*                                                                         *)
(* A call of the application is a thread of its own.  What the pipeline    *)
(* hands to the callback thread (messages, the end of an operation, the    *)
(* loss of the connection) it hands over in the order in which it met it:  *)
(* `tasks`.  A named inbox is identified by the call that made it.         *)
(***************************************************************************)
EXTENDS Naturals, Sequences, FiniteSets

CONSTANTS
  Receivers,    (* calls of the receiving methods                          *)
  Disconnects,  (* calls of disconnect                                     *)
  Sends,        (* calls of the methods that connect first: connect, send  *)
  Messages,     (* messages of the service                                 *)
  Methods,      (* names of methods                                        *)
  Inputs,       (* names of inputs                                         *)
  Target,       (* what each call asks for and each message is for         *)
  MaxCalls,     (* bound on the calls that are made                        *)
  MaxFaults,    (* bound on the faults                                     *)
  None

Commands == Disconnects \union Sends
Calls    == Receivers \union Commands
Names    == Methods \union Inputs

(* The inboxes that InboxManager makes in its constructor; "methods" is    *)
(* the generic one.                                                        *)
Fixed    == {"c2d", "patches", "methods"}
Inboxes  == Fixed \union Receivers
Features == Fixed \union {"inputs"}

Feature(target) ==
  CASE target \in Methods -> "methods"
    [] target \in Inputs  -> "inputs"
    [] OTHER              -> target

ASSUME ClientAssumption ==
  /\ Receivers \intersect Commands = {} /\ Disconnects \intersect Sends = {}
  /\ Methods \intersect Inputs = {} /\ Names \intersect Features = {}
  /\ Target \in [Receivers \union Messages -> Names \union Fixed]
  /\ \A m \in Messages : Target[m] # "methods"
  /\ Receivers \intersect Fixed = {}
  /\ None \notin Inboxes \union Messages
  /\ MaxCalls \in Nat /\ MaxFaults \in Nat

Tasks == [what : {"message"}, message : Messages]
           \union [what : {"done"}, of : Calls]
           \union [what : {"disconnected"}]

Routings == [message : Messages, to : Inboxes]

(* None is no set of inboxes and no routing either.                        *)
ASSUME NoneAssumption ==
  /\ \A set \in SUBSET Receivers : set # None
  /\ \A r \in Routings : r # None

VARIABLES
  at,              (* how far each call is                                 *)
  featureEnabled,  (* the features with feature_enabled                    *)
  named,           (* named_method_request_inboxes, input_message_inboxes  *)
  inbox,           (* the inbox each call waits on                         *)
  contents,        (* what is in each inbox                                *)
  received,        (* what each call returned                              *)
  tasks,           (* what the callback thread still has to run            *)
  routing,         (* the message it has looked up an inbox for, and that  *)
                   (* inbox, or None                                       *)
  clearing,        (* the inboxes clear_all_method_requests has yet to     *)
                   (* clear, or None                                       *)
  grown,           (* a named inbox was made since it began                *)
  interrupted,     (* it was once left unfinished                          *)
  ops,             (* calls whose operation is in the pipeline             *)
  connected,       (* there is a connection                                *)
  subscribed,      (* the features that the broker sends messages for      *)
  toCome,          (* messages the broker has yet to send                  *)
  faults

threads  == <<at, received>>
manager  == <<named, inbox, contents>>
clear    == <<clearing, grown, interrupted>>
pipeline == <<ops, connected, subscribed, toCome, faults>>
vars     == <<threads, featureEnabled, manager, tasks, routing, clear, pipeline>>

TypeOK ==
  /\ at \in [Calls -> {"idle", "enabling", "subscribing", "lookup", "create", "waiting",
                       "running", "returned", "empty"}]
  /\ featureEnabled \subseteq Features /\ subscribed \subseteq Features
  /\ named \in [Names -> Receivers \union {None}]
  /\ inbox \in [Receivers -> Inboxes \union {None}]
  /\ contents \in [Inboxes -> Seq(Messages)]
  /\ received \in [Receivers -> Messages \union {None}]
  /\ tasks \in Seq(Tasks) /\ routing \in Routings \union {None}
  /\ clearing = None \/ clearing \subseteq Receivers
  /\ grown \in BOOLEAN /\ interrupted \in BOOLEAN /\ connected \in BOOLEAN
  /\ ops \subseteq Calls /\ toCome \subseteq Messages
  /\ faults \in 0..MaxFaults

Init ==
  /\ at = [c \in Calls |-> "idle"] /\ received = [c \in Receivers |-> None]
  /\ featureEnabled = {} /\ named = [n \in Names |-> None]
  /\ inbox = [c \in Receivers |-> None] /\ contents = [i \in Inboxes |-> <<>>]
  /\ tasks = <<>> /\ routing = None /\ clearing = None /\ grown = FALSE /\ interrupted = FALSE
  /\ ops = {} /\ connected = FALSE /\ subscribed = {} /\ toCome = Messages
  /\ faults = 0

Fault == faults < MaxFaults /\ faults' = faults + 1

Go(c, from, to) == at[c] = from /\ at' = [at EXCEPT ![c] = to]

FeatureOf(c) == Feature(Target[c])

-----------------------------------------------------------------------------
(* The calls.                                                              *)
MayCall == Cardinality({c \in Calls : at[c] # "idle"}) < MaxCalls

(* Idle calls that ask for the same differ in nothing, so the next is any  *)
(* of them.                                                                *)
NextIdle(target) == CHOOSE d \in Receivers : at[d] = "idle" /\ Target[d] = target

CheckFeature(c) ==
  /\ MayCall
  /\ at[c] = "idle" /\ c = NextIdle(Target[c])
  /\ Go(c, "idle", IF FeatureOf(c) \in featureEnabled THEN "lookup" ELSE "enabling")
  /\ UNCHANGED <<received, featureEnabled, manager, tasks, routing, clear, pipeline>>

(* enable_feature sets feature_enabled before it runs the operation.       *)
EnableFeature(c) ==
  /\ Go(c, "enabling", "subscribing")
  /\ featureEnabled' = featureEnabled \union {FeatureOf(c)}
  /\ ops' = ops \union {c}
  /\ UNCHANGED <<received, manager, tasks, routing, clear, connected, subscribed, toCome, faults>>

(* get_method_request_inbox and its like: look the name up ...             *)
Lookup(c) ==
  LET target == Target[c] IN
  /\ IF target \in Fixed
     THEN Go(c, "lookup", "waiting") /\ inbox' = [inbox EXCEPT ![c] = target]
     ELSE IF named[target] # None
     THEN Go(c, "lookup", "waiting") /\ inbox' = [inbox EXCEPT ![c] = named[target]]
     ELSE Go(c, "lookup", "create") /\ UNCHANGED inbox
  /\ UNCHANGED <<received, featureEnabled, named, contents, tasks, routing, clear, pipeline>>

(* ... and make the inbox when it was not there.                           *)
(* Mutant: the new inbox is not put into the dictionary.                   *)
Unregistered(c) == UNCHANGED named
Register(c) == named' = [named EXCEPT ![Target[c]] = c]

Create(c) ==
  /\ Go(c, "create", "waiting")
  /\ Register(c)
  /\ inbox' = [inbox EXCEPT ![c] = c]
  /\ grown' = (grown \/ (clearing # None /\ Target[c] \in Methods /\ named[Target[c]] = None))
  /\ UNCHANGED <<received, featureEnabled, contents, tasks, routing, clearing, interrupted, pipeline>>

Get(c) ==
  LET waiting == contents[inbox[c]] IN
  /\ at[c] = "waiting" /\ waiting # <<>>
  /\ at' = [at EXCEPT ![c] = "returned"]
  /\ received' = [received EXCEPT ![c] = Head(waiting)]
  /\ contents' = [contents EXCEPT ![inbox[c]] = Tail(waiting)]
  /\ UNCHANGED <<featureEnabled, named, inbox, tasks, routing, clear, pipeline>>

(* block=False, or the timeout: InboxEmpty.                                *)
GiveUp(c) ==
  /\ at[c] = "waiting" /\ contents[inbox[c]] = <<>>
  /\ at' = [at EXCEPT ![c] = "empty"]
  /\ UNCHANGED <<received, featureEnabled, manager, tasks, routing, clear, pipeline>>

RunCommand(c) ==
  /\ MayCall /\ Go(c, "idle", "running")
  /\ ops' = ops \union {c}
  /\ UNCHANGED <<received, featureEnabled, manager, tasks, routing, clear, connected, subscribed, toCome,
                 faults>>

-----------------------------------------------------------------------------
(* The pipeline.  An operation that needs a connection opens it, and       *)
(* _on_mqtt_disconnected runs on_disconnected before it completes the      *)
(* operation that waits for it.                                            *)
Done(c) == [what |-> "done", of |-> c]
Lost == [what |-> "disconnected"]

(* Mutant: the operation is completed first.                               *)
CompleteFirst(c) == <<Done(c), Lost>>
DisconnectTasks(c) == <<Lost, Done(c)>>

(* Mutant: without a connection nothing is subscribed to.                  *)
SubscribeIfConnected(c) ==
  subscribed' = IF connected /\ c \in Receivers THEN subscribed \union {FeatureOf(c)} ELSE subscribed
Subscribe(c) ==
  subscribed' = IF c \in Receivers THEN subscribed \union {FeatureOf(c)} ELSE subscribed

RunOp(c) ==
  /\ c \in ops
  /\ ops' = ops \ {c}
  /\ connected' = (c \notin Disconnects)
  /\ Subscribe(c)
  /\ tasks' = tasks \o (IF c \in Disconnects /\ connected THEN DisconnectTasks(c) ELSE <<Done(c)>>)
  /\ UNCHANGED <<threads, featureEnabled, manager, routing, clear, toCome, faults>>

(* on_complete of the client calls sys.exit on the callback thread, which  *)
(* drops the exception: the Event of the call is never set.                *)
OpFails(c) ==
  /\ c \in ops /\ Fault
  /\ ops' = ops \ {c}
  /\ UNCHANGED <<threads, featureEnabled, manager, tasks, routing, clear, connected, subscribed, toCome>>

ConnectionLost ==
  /\ connected /\ Fault
  /\ connected' = FALSE
  /\ tasks' = Append(tasks, Lost)
  /\ UNCHANGED <<threads, featureEnabled, manager, routing, clear, ops, subscribed, toCome>>

(* The broker sends messages over a connection, for a subscription.        *)
MayCome(m) == connected /\ m \in toCome /\ FeatureOf(m) \in subscribed

(* A fault of the service: the payload of a method request or of a patch   *)
(* is no JSON.  The pipeline thread drops the error, and the message.      *)
CannotParse(m) ==
  /\ MayCome(m) /\ Fault
  /\ Target[m] \in Methods \union {"patches"}
  /\ toCome' = toCome \ {m}
  /\ UNCHANGED <<threads, featureEnabled, manager, tasks, routing, clear, ops, connected,
                 subscribed>>

Deliver(m) ==
  /\ MayCome(m)
  /\ toCome' = toCome \ {m}
  /\ tasks' = Append(tasks, [what |-> "message", message |-> m])
  /\ UNCHANGED <<threads, featureEnabled, manager, routing, clear, ops, connected, subscribed, faults>>

-----------------------------------------------------------------------------
(* The callback thread.                                                    *)
Take(what) ==
  /\ clearing = None /\ routing = None
  /\ tasks # <<>> /\ Head(tasks).what = what
  /\ tasks' = Tail(tasks)

(* The Event of the call is set.                                           *)
Complete ==
  LET c == Head(tasks).of IN
  /\ Take("done")
  /\ at' = [at EXCEPT ![c] = IF c \in Receivers THEN "lookup" ELSE "returned"]
  /\ UNCHANGED <<received, featureEnabled, manager, routing, clear, pipeline>>

(* The route_* methods: where a message goes, or None if it is dropped.    *)
(* Mutant: method requests go to the generic inbox only.                   *)
RouteGeneric(target) == IF target \in Fixed THEN target ELSE "methods"
Route(target) ==
  CASE target \in Fixed                            -> target
    [] target \in Names /\ named[target] # None    -> named[target]
    [] target \in Methods /\ named[target] = None  -> "methods"
    [] target \in Inputs /\ named[target] = None   -> None

(* They look the inbox up ...                                              *)
RouteLookup ==
  LET m == Head(tasks).message
      to == Route(Target[m]) IN
  /\ Take("message")
  /\ routing' = IF to = None THEN None ELSE [message |-> m, to |-> to]
  /\ UNCHANGED <<threads, featureEnabled, manager, clear, pipeline>>

(* ... and put the message into it, whatever the calls made meanwhile.     *)
Put ==
  /\ routing # None
  /\ contents' = [contents EXCEPT ![routing.to] = Append(@, routing.message)]
  /\ routing' = None
  /\ UNCHANGED <<threads, featureEnabled, named, inbox, tasks, clear, pipeline>>

(* clear_all_method_requests: the generic inbox, then those in the         *)
(* dictionary one by one.                                                  *)
(* Mutant: only the generic inbox is cleared.                              *)
NoneToClear == {}
NamedToClear == {named[n] : n \in Methods} \ {None}

ClearGeneric ==
  /\ Take("disconnected")
  /\ contents' = [contents EXCEPT !["methods"] = <<>>]
  /\ clearing' = NamedToClear
  /\ UNCHANGED <<threads, featureEnabled, named, inbox, routing, grown, interrupted, pipeline>>

ClearNamed(i) ==
  /\ clearing # None /\ i \in clearing /\ ~grown
  /\ contents' = [contents EXCEPT ![i] = <<>>]
  /\ clearing' = clearing \ {i}
  /\ UNCHANGED <<threads, featureEnabled, named, inbox, tasks, routing, grown, interrupted, pipeline>>

(* An inbox that was made meanwhile: RuntimeError, dropped by the thread.  *)
(* Mutant: the error ends the thread.                                      *)
AllCleared == clearing = {}
LoopEnds == clearing = {} \/ grown

ClearEnds ==
  /\ clearing # None /\ LoopEnds
  /\ clearing' = None /\ grown' = FALSE
  /\ interrupted' = (interrupted \/ clearing # {})
  /\ UNCHANGED <<threads, featureEnabled, manager, tasks, routing, pipeline>>

-----------------------------------------------------------------------------
CallbackThread ==
  \/ Complete
  \/ RouteLookup \/ Put
  \/ ClearGeneric \/ (\E i \in Receivers : ClearNamed(i)) \/ ClearEnds

Receive(c) == CheckFeature(c) \/ EnableFeature(c) \/ Lookup(c) \/ Create(c) \/ Get(c)

Next ==
  \/ \E c \in Receivers : Receive(c) \/ GiveUp(c)
  \/ \E c \in Commands : RunCommand(c)
  \/ \E c \in Calls : RunOp(c) \/ OpFails(c)
  \/ ConnectionLost
  \/ \E m \in Messages : Deliver(m) \/ CannotParse(m)
  \/ CallbackThread

Spec == Init /\ [][Next]_vars

(* A call that waits takes what its inbox holds, and the callback thread   *)
(* runs its tasks.                                                         *)
FairSpec ==
  /\ Spec
  /\ \A c \in Receivers : WF_vars(Get(c))
  /\ WF_vars(CallbackThread)

-----------------------------------------------------------------------------
(* Some call waits on the inbox that messages like m are put into.         *)
Wanted(m) == \E c \in Receivers : at[c] = "waiting" /\ inbox[c] = Route(Target[m])

OnItsWay(m) ==
  \/ \E k \in 1..Len(tasks) : tasks[k].what = "message" /\ tasks[k].message = m
  \/ routing # None /\ routing.message = m

LiesIn(m, i) == \E k \in 1..Len(contents[i]) : contents[i][k] = m

(* Nothing of the client holds m: it was returned to a call, or deleted.   *)
Gone(m) == m \notin toCome /\ ~OnItsWay(m) /\ \A i \in Inboxes : ~LiesIn(m, i)

(* m lies in an inbox that is no longer the one for messages like it.      *)
LeftBehind(m) == \E i \in Inboxes : LiesIn(m, i) /\ i # Route(Target[m])

(* A call that is past the subscription of its feature has it, or another  *)
(* call is still busy with it, or that failed.                             *)
EnablesFirst ==
  \A c \in Receivers :
    /\ at[c] \in {"lookup", "create", "waiting", "returned", "empty"}
    /\ FeatureOf(c) \notin subscribed
    => \E d \in Receivers : FeatureOf(d) = FeatureOf(c) /\ at[d] = "subscribing"

(* A call waits on the inbox that messages for it are put into, unless     *)
(* two calls for the same name both made one.                              *)
WaitsWhereRouted ==
  \A c \in Receivers : at[c] = "waiting" =>
    \/ inbox[c] = Route(Target[c])
    \/ \E d \in Receivers \ {c} : /\ Target[d] = Target[c]
                                  /\ named[Target[c]] = d /\ inbox[d] = d

(* Every inbox holds, and every call returns, only messages meant for it:  *)
(* the generic inbox requests of any method, the others those of a name.   *)
MeantFor(m, target) ==
  Target[m] = target \/ (target = "methods" /\ Target[m] \in Methods)

Purpose(i) == IF i \in Receivers THEN Target[i] ELSE i

OnlyOwnMessages ==
  /\ \A i \in Inboxes : \A k \in 1..Len(contents[i]) : MeantFor(contents[i][k], Purpose(i))
  /\ routing # None => MeantFor(routing.message, Purpose(routing.to))
  /\ \A c \in Receivers : received[c] # None => MeantFor(received[c], Target[c])

(* A feature that is enabled is subscribed to, or a call waits for that    *)
(* subscription; a call that is past it has the feature enabled.           *)
FlagsTrue ==
  /\ \A f \in featureEnabled \ subscribed :
       \E d \in Receivers : at[d] = "subscribing" /\ FeatureOf(d) = f
  /\ \A c \in Receivers : at[c] \notin {"idle", "enabling"} => FeatureOf(c) \in featureEnabled

(* The subscription of a call is in the pipeline, or its end is a task,    *)
(* once; and its feature is subscribed to by then.                         *)
EndsOnce ==
  /\ \A c \in Receivers \intersect ops :
       at[c] = "subscribing" /\ \A k \in 1..Len(tasks) : tasks[k] # Done(c)
  /\ \A c \in Receivers : \A k \in 1..Len(tasks) : tasks[k] = Done(c) =>
       /\ at[c] = "subscribing" /\ FeatureOf(c) \in subscribed
       /\ \A j \in 1..Len(tasks) : tasks[j] = Done(c) => j = k

(* A named inbox belongs to the call that made it and still has it; a call *)
(* has an inbox of its target once it waits, and the dictionary has one.   *)
InboxesNamed ==
  /\ \A n \in Names : named[n] # None =>
       /\ Target[named[n]] = n /\ inbox[named[n]] = named[n]
       /\ at[named[n]] \in {"waiting", "returned", "empty"}
  /\ \A c \in Receivers :
       /\ at[c] = "create" => Target[c] \in Names
       /\ at[c] \in {"waiting", "returned", "empty"} <=> inbox[c] # None
       /\ inbox[c] # None => Purpose(inbox[c]) = Target[c]
       /\ inbox[c] # None /\ Target[c] \in Fixed => inbox[c] = Target[c]
       /\ inbox[c] # None /\ Target[c] \in Names => named[Target[c]] # None /\ inbox[c] \in Receivers
  /\ routing # None /\ routing.to \in Receivers => inbox[routing.to] = routing.to

(* The inductive invariant: the types, and what makes the properties hold. *)
ClientInv == TypeOK /\ FlagsTrue /\ EndsOnce /\ InboxesNamed /\ OnlyOwnMessages

(* Some call has an inbox for the name of m.                               *)
Targeted(m) == \E c \in Receivers : Target[c] = Target[m] /\ inbox[c] # None

(* A message that is looked up when a call has an inbox for its name is    *)
(* meant for the inbox of such a call, whatever inboxes were replaced by   *)
(* then: no request for the generic one, no input message is dropped.  A   *)
(* call that makes the inbox after the lookup does not change that.        *)
TargetedIsFound ==
  [][\A m \in Messages :
       /\ RouteLookup /\ Head(tasks).message = m
       /\ Target[m] \in Names /\ Targeted(m)
       => /\ routing' # None /\ routing'.to \in Receivers
          /\ Target[routing'.to] = Target[m] /\ inbox[routing'.to] = routing'.to]_vars

(* When disconnect returns, no inbox of the manager holds a method request *)
(* of the connection that ended, unless an inbox was made while they were  *)
(* cleared.                                                                *)
ClearedOnDisconnect ==
  [][\A c \in Disconnects : at[c] = "running" /\ at'[c] = "returned" /\ ~interrupted =>
       \A i \in {"methods"} \union NamedToClear : contents[i] = <<>>]_vars

(* A message that calls wait for reaches one of them, or is deleted for a  *)
(* disconnect, unless they all stop waiting or a call made an inbox for    *)
(* its name after the message was routed.                                  *)
MessagesArrive ==
  \A m \in Messages :
    OnItsWay(m) /\ Wanted(m) ~> Gone(m) \/ ~Wanted(m) \/ LeftBehind(m)
=============================================================================
