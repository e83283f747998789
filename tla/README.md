# A TLA+ verification of the Azure IoT device SDK for Python (preview)

The specifications here model the part of the SDK that is hard to test: how the
operations of a client travel down the pipeline to the MQTT library, and how
registrations, twin requests, incoming messages and token renewals are carried
on above it, while the application's threads, timers, the callback thread, the
library's network thread and the network act at the same time. TLC checks them
on small instances; TLAPS proves every invariant, action property and refinement
that holds there for every value of the constants.

Paths are under `azure-iot-device/azure/iot/device/` of the repository.

## 1. Inventory

### Components, their state and their operations

| Component | Code | State | Operations |
|---|---|---|---|
| Operations and flow | `common/pipeline/pipeline_ops_*.py`, `operation_flow.py` | `error`, `callback` of each operation | `pass_op_to_next_stage`, `complete_op`, `delegate_to_different_op` |
| PipelineStage, PipelineRootStage | `common/pipeline/pipeline_stages_base.py` | `connected`, `next`, `previous` | `run_op`, `on_connected`, `on_disconnected`, `handle_pipeline_event` |
| EnsureConnectionStage | same | none (the waiting operation lives in a callback) | `_execute_op`, `_do_connect`, `on_connect_op_complete` |
| SerializeConnectOpsStage | same | `blocked`, `queue` | `_execute_op`, `_block`, `_unblock`, `on_operation_complete` |
| CoordinateRequestAndResponseStage | same | `pending_responses` | send a request, `on_send_request_done`, match a response |
| MQTTTransportStage | `common/pipeline/pipeline_stages_mqtt.py` | `_pending_connection_op`, `sas_token` | connect, reconnect, disconnect, publish, subscribe, unsubscribe, four event handlers |
| MQTTTransport | `common/mqtt_transport.py` | the Paho client | the same requests, the library's callbacks |
| OperationManager | same | `_pending_operation_callbacks`, `_unknown_operation_completions`, `_lock` | `establish_operation`, `complete_operation` |
| pipeline_thread | `common/pipeline/pipeline_thread.py` | `_executors` | `invoke_on_*` decorators |
| IoTHubPipeline, IoTHub stages | `iothub/pipeline/` | `feature_enabled`, handlers | one method per client operation, `get_twin` and patches, routing of events |
| IoTHub topics | `iothub/pipeline/mqtt_topic_iothub.py` | none | which event a topic becomes |
| IoTHub clients, inboxes | `iothub/*.py`, `iothub/aio/` | inboxes by name | blocking and async client methods, `get_*_inbox`, `route_*`, clearing |
| Token renewal | `iothub/auth/base_renewable_token_authentication_provider.py` | the renewal timer, the token | generate, schedule, cancel |
| PollingMachine, RequestResponseProvider | `provisioning/internal/` | state, two timers, callbacks, pending requests | register, cancel, responses, time-outs |
| Provisioning pipeline and clients | `provisioning/` | handlers | connect, disconnect, send request |
| Async adapter, models, parsing | `common/`, `iothub/models/` | none over time | |

### How they interact

A client method calls `run_op` of its pipeline from an application thread. The
decorator moves the call to the *pipeline thread*, the only worker of a
`ThreadPoolExecutor`, and every stage runs there. Operations go down:
Root, authentication, twin and request stages, converter, EnsureConnection,
SerializeConnectOps, MQTTTransport. Completion goes up through callbacks, events
through `previous`. The MQTT library has a *network thread* of its own; its
callbacks (`on_connect`, `on_disconnect`, `on_publish`, ...) only put functions
into the executor of the pipeline thread. Callbacks of the application run on
the *callback thread*, the worker of another executor. `OperationManager` is the
one structure two threads touch directly, under a lock.

### What is hard

* The stages decide by `PipelineRootStage.connected`, which is set by events that
  wait in the executor's queue: it lags behind the socket in both directions.
* `on_operation_complete` runs inside the callback of the operation that ended
  and releases a queue whose operations may block the stage again, all before
  the callback of the first one is called.
* The library reconnects by itself, keeps publishes over a lost socket and
  forgets subscribes.
* An acknowledgement may be read before the pipeline thread has stored the
  callback it belongs to.
* Blocking decorators wait for another thread, and could wait for their own.
* The response to a request and the acknowledgement of its publish are unordered;
  either may be missing, and a response may come twice.
* The provisioning state machine is worked on by whichever thread found its queue
  empty: the application, the callback thread or a timer. That thread also gets
  what the triggers of the others raise.
* Two timers of a registration cross the answers they time.
* Inboxes are made by application threads while the callback thread routes to
  them and clears them; `feature_enabled` is set before the subscribe is sent.
* The renewal timer starts only once the signature is there, and every thread that
  renews replaces a timer it read before.

`PROJECT.json` lists the hazards, each at its line, with the properties about it.

### What makes each component correct

* SerializeConnectOpsStage: one connect, disconnect or reconnect below it at a
  time; nothing that waits is lost, completed twice or left waiting.
* EnsureConnectionStage: an operation that needs a connection finds one or fails.
* MQTTTransportStage: every connection operation is completed exactly once, and
  a connect or disconnect that succeeds agrees with the flag; a cancelled
  operation is forgotten.
* OperationManager: a callback is called exactly once, and only after its own
  acknowledgement.
* pipeline_thread: one function at a time per name; whoever waits is woken by the
  end of its own function, by a thread that never waits; every blocking call
  returns.
* Twin stages: a call returns the answer to its own request; a call that waits
  can still be answered; with the subscription in place every call ends.
* Registration: a registration nothing interferes with returns, whether the
  service answers or not, unless the body of its last answer cannot be read; it
  returns disconnected; no callback is called twice; no timer outlives it.
* Receiving clients: a call waits only when its feature is (being) subscribed to,
  and on the inbox its messages are routed to, unless two calls made that inbox at
  once; what is looked up after an inbox was made for its name is put into it; a
  request a call waits for reaches one, or is deleted by a disconnect, unless an
  inbox for its name is made after it was routed; requests of an ended connection
  are gone when `disconnect` returns, unless an inbox was made meanwhile.
* Token renewal: the token never expires while nothing disturbs its renewal; one
  timer at most is running, unless two threads renew at once. (`disconnect` does not
  end the renewals when a timer has just fired: see section 6.)

## 2. Modules

| Module | Models | State and actions against the code |
|---|---|---|
| `PipelineOps` | operations, `operation_flow`, the pipeline thread | `tasks` is the executor's queue; `stack` the calls the running task still has to make; `failed` the operations with an `error`; `outcome` what their callback was called with; `connected` the root's flag |
| `EnsureConnectionStage` | that stage | `EnsureConnection` is `_execute_op`; the ConnectOperation it makes for `o` is `<<o, "auto">>`; `OnConnectOpComplete` is its callback |
| `SerializeConnectOpsStage` | that stage | one action per branch of `_execute_op`; `wrapped` holds the operations whose callback is `on_operation_complete`; `OnOperationComplete` includes `_unblock` |
| `MQTTTransportStage` | the stage, MQTTTransport and the Paho client under them | `pending` is `_pending_connection_op`; `sock`, `loop`, `inflight` are the library's; one action for each way an operation can go, each event handler and each thing the library does |
| `ConnectionPipeline` | the composition of the three stages | `CompleteOp` chooses the callback the operation has |
| `ConnectionGate` | abstract specification of SerializeConnectOpsStage | a gate with one holder |
| `TransportStageAlone` | MQTTTransportStage without the stages above, as its unit tests use it | connection operations may cancel each other |
| `OperationManager` | OperationManager | both methods split where the lock is released; `mid` values wrap around |
| `PipelineThread` | pipeline_thread | `_executors`, the executors' queues and workers, how far each thread is inside the wrapper |
| `Registration` | PollingMachine, RequestResponseProvider, ProvisioningPipeline, both provisioning clients | `triggers` is the queue of the state machine, `processor` the thread that works on it; `Transition` has a disjunct per row of the table with all its handlers call; `Process` and `ProcessRaises` are the two ways a trigger goes; timers are `armed`, then `fired`, and `RunTimer` is their function; `Handle` is what the answers lead to, those that ask to register again (`unnamed`: assigning, without an operation id) and those whose body is no JSON (`unreadable`) among them; `tasks` is the queue of the callback thread, `OnResponse` and its companions its tasks |
| `TwinRequests` | `get_twin`, `patch_twin_reported_properties`, HandleTwinOperationsStage, CoordinateRequestAndResponseStage | `pendingResponses` is `pending_responses`; `SendRequest` is `_execute_op` of both stages, `OnPublished` and `SendFails` are `on_send_request_done`, `OnResponse` is `_handle_pipeline_event` with the callback above it |
| `RequestExchange` | abstract specification of a request | asked, served, ended, once each |
| `Client` | the receiving methods of both kinds of clients, InboxManager, the inboxes, the handlers IoTHubPipeline runs | `named` is the dictionary of inboxes, `contents` what the inboxes hold; `Lookup` and `Create` are the two steps of `get_*_inbox`; `RouteLookup` and `Put` those of the `route_*` methods, with `routing` between them; `CannotParse` is a payload that is no JSON; `ClearGeneric`, `ClearNamed`, `ClearEnds` are `clear_all_method_requests` step by step; `tasks` is the queue of the callback thread |
| `TokenRenewal` | BaseRenewableTokenAuthenticationProvider | `sasToken` is the time the token expires; `timer` is `_token_update_timer` and `old` the local variable of `_cancel_token_update_timer`; `Tick` is time |
| `MC...` | | model values, sets of kinds and symmetry |
| `...Proofs` | | the theorems and their proofs |

`ConnectionPipeline` composes the three stages below; the modules above it
(`Registration`, `TwinRequests`, `Client`) take from it what a pipeline does with
an operation: it opens a connection when one is needed, ends in time or fails,
and hands its end to the callback thread.

### Abstractions

* *A task is a sequence of calls.* A stage calls the next one, or a callback, and
  returns; nothing follows such a call but the return, or the next call of
  `_unblock`. So the calls that are still to be made describe the Python stack,
  and `OnOperationComplete` puts the release of the queue before the operation's
  own callback. Other threads may act between any two calls.
* *Payloads, topics, tokens and error classes* are left out: an operation has a
  kind, and an error is only whether there is one.
* *The stages above EnsureConnectionStage* only pass the modelled operations on.
* *Submitting does not wait* in `ConnectionPipeline`: the wait of `run_op`
  restricts the order of submissions only, and several application threads
  submit. The wait itself is in `PipelineThread`.
* *Paho is external*, modelled from how MQTTTransport uses it
  (`clean_session=False`, `connect`, `loop_start`, `loop_stop`). A new connect
  closes an old socket without a call of `on_disconnect`. Without a socket,
  requests return an error code but a publish is kept. The library's own reopening
  of a lost socket is one step, so an application's disconnect does not fall
  inside it. In the pipeline each request has a mid of its own; reuse of mids is
  the subject of `OperationManager`.
* *Without a network thread* `on_disconnect` is called inside `disconnect`, on
  the pipeline thread, where the handler runs at once (`DisconnectInline`): this
  happens after a reconnect that followed a disconnect.
* *Topics are kinds.* A message carries what it is for (a name, or one of the
  fixed inboxes), a response its request id; the text of topics, bodies and
  properties is left out. Whether a body can be parsed is kept: a twin response
  (`json` in `TwinRequests`), the answer to a registration (`unreadable`), and a
  method request or patch, which is lost (`CannotParse`, a fault). The topic itself, the
  status code and `retry-after` in it are taken to be well formed.
* *The pipeline under the upper modules.* In `Registration` its operations end in
  their order or fail; in `TwinRequests` what is to be sent is a set, because an
  operation that waits for a connection may be overtaken by a later one; in
  `Client` an operation that is in the pipeline ends in one step, which puts what
  it hands to the callback thread into `tasks` in the order of the code.
* *Tasks of the callback thread* are one step, but for the three that another thread
  can come between: the answer of a registration that starts to work on the queue
  of triggers, the routing of a message (the inbox is looked up, then the message
  is put into it), and the clearing of the inboxes, one by one.
* *Firing a trigger* is one step in `Registration`: the state machine library, which
  is external, appends to its queue and then tests whether the queue holds more than
  that. The machine is the one with a queue and no lock, so two threads that fire at
  once could both append before either tests, and then neither works on the queue;
  these runs are left out.
* *Stages run on one thread*, so in `TwinRequests` a task of the pipeline is one
  step, with the callback of the client that ends a call.
* *Both kinds of clients.* An asynchronous method looks an inbox up and makes it in
  the event loop without giving it up in between; a synchronous one is a thread.
  The interleavings of `Client` are those of threads, which include those of the
  event loop.
* *Service and broker are external.* In `Registration` the service answers anything
  (retry, failure, assigning with or without an operation id, finished, a status the
  client does not know, a body it cannot read), once, several times or never; in `TwinRequests` a response may be lost, repeated or
  unreadable.
* *Time* in `TokenRenewal` is discrete. Signing takes up to `MaxSign`; timers are
  punctual and the rest of the code takes no time, but steps of different threads
  still interleave. In `Registration` a timer may run out at any moment, before or
  after the answer it waits for; its length is left out.
* *`sys.exit` on the callback thread* (the error path of every callback) raises an
  exception which that thread drops: the call it belongs to waits for ever. Every
  module has these paths, as faults.
* *Calls that differ in nothing* (those of `register`, and receiving calls with the
  same target) are made in one order: the next one is a chosen idle one.

## 3. Runs

| Run | Bounds | What it shows |
|---|---|---|
| `pipeline_safety` | 3 operations of any of six kinds, 1 fault | `PipelineInv`, the inductive invariant; serialization, no operation lost or completed twice, a connect or disconnect that succeeds agrees with the flag, an open socket is known above, the refinement of `ConnectionGate` |
| `pipeline_live` | 2 operations of four kinds, 2 faults | connects and disconnects end, accepted publishes are confirmed |
| `send_opens_connection` | 2 operations, no fault | *violated* |
| `connect_establishes` | 4 connects and disconnects, 2 faults | *violated* |
| `transport_alone` | 3 operations of four kinds, 1 fault | cancellation: each operation in one place and completed once, a call about to succeed finds the connection as it says (`AloneInv`), and nothing waits for ever |
| `operation_manager` | 4 requests, 3 mids | each callback once, after its own acknowledgement |
| `pipeline_thread` | 2 outside threads, 3 executors, 2 calls each | one function per name at a time, no circle of threads that wait for each other, blocking calls return |
| `registration` | 2 calls among two registers and a cancel, 1 answer that asks for another request, 1 fault | an undisturbed registration returns, disconnected, or its last answer could not be read; callbacks once; no timer outlives a registration |
| `cancel_ends` | 1 register, 1 cancel, no fault | *violated* |
| `twin_requests` | 2 `get_twin`, 1 patch, 3 ids, 1 fault | each call returns its own answer, none is forgotten, all end, the refinement of `RequestExchange` |
| `client` | 3 calls of 5 receiving ones and a disconnect, 2 requests, 1 fault | calls wait where messages are put, after their feature is enabled; a named inbox that was made is found; messages arrive, are deleted or are left behind by a new inbox; `disconnect` returns with the requests deleted |
| `token_renewal` | validity 5, margin 3, signing up to 1, 4 timers, time up to 9, 1 fault | the token does not expire; one timer |

**Why the bounds are enough.** Three operations are the smallest number with one
connection operation below the stage, one queued that blocks again when it is
released, and one queued behind both. One fault gives every error path of the
transport; two are needed where an event and an error of the library meet.
Four connection operations with two faults were checked once for
`ResultMatchesConnected` alone (`UserKinds <- ConnectionKinds`, 417,474 states):
there a completion can release a queued disconnect that ends at once, inside the
callbacks of the operation that released it.
Three mids for four requests make the mids wrap around. Three executors leave one
to spare when two are wanted, so the exclusion of a second one is not due to the
bound.

Two calls to the provisioning client are a registration that is cancelled, or that
is registered again while or after it runs; the answer that asks for another request
is what starts the second timer and the polling. Two `get_twin` calls could get each
other's answers, and the patch is the call whose answer is not parsed. Three calls
to a client are two that make an inbox for the same name, or one that makes another
while the first is cleared, and a disconnect; or, after a connection that was lost,
one that waits, one that makes an inbox and one that connects again. The calls to
choose from are two of one method, another method, an input, and any method. The
messages are a request for the first method and one for a method that no call names,
which only the call for any method can take: so that call may take the one and leave
the other in the generic inbox, while the call it is for has made an inbox of its
own. Input calls make their inboxes and wait in the run, but no message for them
comes. With an input message as a third (two of the three sent, 568,224 states), and
with three receiving calls beside the disconnect (1,148,211 states), the same
properties were checked once. Nine units of time hold four renewals (every two
units, or three with a slow signature) and the end of the validity of the first
token (five), so a renewal that is left out shows. With a longest signature of 1 and
a margin of 3 two signatures are just within the margin.

The bounds are `MaxFaults`, `MaxCalls`, `MaxExecutors`, `MaxMid`, `MaxAgain`,
`MaxTimers`, `MaxTime` and the sets of operations, calls, ids and
messages. Symmetry is used where no liveness is checked.

**Deadlock** is not checked: an idle pipeline, or one whose bounded
submissions are used up, really stops, and so do calls that wait for a message
nobody sends, and time at its bound. The liveness properties
(`ConnectionOpsComplete`, `AloneOpsComplete`, `AckedIsCalled`,
`BlockingCallsReturn`, `RegisterReturns`, `RequestsEnd`, `MessagesArrive`) say
that nothing stops in the middle.

**Fairness.** The worker of an executor takes what is in its queue and a call
that was started goes on (weak fairness of the pipeline thread as a whole, which
is one thread). The network thread reopens a lost socket and a broker answers
what it received (`AutoReconnect`, `Connack`, `Ack`); faults, of which there
are `MaxFaults`, may come before each answer and are never fair. Nothing is assumed of the
application. In `PipelineThread`, threads inside the wrapper and workers go on;
in `OperationManager`, threads inside a method go on, and nothing obliges the
broker to acknowledge.

* `Registration`: a call that stored its callback fires its trigger, the thread
  that works on the queue goes on, timers run out and their functions run, the
  callback thread takes its tasks, and the pipeline ends what it was given
  (`ConnectionOpsComplete` is why; its failure is a fault). Nothing obliges the
  service to answer: that is what the query timer is for, and `RegisterReturns`
  holds without any answer.
* `TwinRequests`: the steps of a call go on, what was given to the pipeline is
  sent, and the service answers each request. There is no time-out in this code,
  so without that assumption a call may wait for ever; `RequestsEnd` leaves out
  the runs with a fault for the same reason.
* `Client`: a call that waits takes what its inbox holds, and the
  callback thread goes on (one thread, one conjunct). Nothing is assumed of the
  service.
* `TokenRenewal` is checked for safety: punctual timers are in the guard of `Tick`.

`ConnectionOpsComplete` is checked for connect, disconnect, publish and subscribe.
A reconnect after a disconnect starts no network thread, so its answer would
never be read; no production code submits a ReconnectOperation yet, and it is
in the safety run only.

**What the properties leave out.** `RegisterReturns` is about a registration without
another call of the application and without a fault: `cancelling` has no way out and
cancelling never calls the callback of `register`
(`provisioning/internal/polling_machine.py:307`), so the caller of a registration
that is cancelled waits for ever. It also excepts `LastUnread`, the state after an
answer whose body is no JSON, which nothing leaves. `ReturnsDisconnected` leaves out
two registrations at a time: the second connects while the first one's end is being
reported. `TokenFresh` names what disturbs a renewal: a signature that fails, which
nothing retries, two signatures longer than the margin, and a `disconnect`.
`OneTimer` excepts two threads at the timer at once, where both timers go on and one
is out of reach. `WaitsWhereRouted` excepts two calls that both make an inbox for a
name, where the first one's is out of reach. `EnablesFirst` excepts a call that goes
on while another one is busy with the subscription of their feature, or was when it
failed. `TargetedIsFound` is about the lookup: between it and the put a call may
make the inbox the message should have gone to. For the same reason `MessagesArrive`
excepts messages that are `LeftBehind`: they lie in the generic inbox, or in one
that was replaced, and the call that waits is on the new one. `CallbackAfterAck`
holds in `operation_manager` without reuse of abandoned mids, `OneAtATime` in
`pipeline_thread` with one thread that constructs the first client. `TimersStopped`
is about one registration: the request of a second one can overwrite `_query_timer`
while the timer of the first runs, which nothing can then cancel
(`polling_machine.py:340`). `ResultMatchesConnected` leaves out reconnects: the
success of one may release a queued disconnect that ends at once, before the
callback of the reconnect is called. `ClearedOnDisconnect` excepts a clearing that
was interrupted by a new inbox (RuntimeError: dictionary changed size during
iteration). What the code does in the states these exceptions name is listed at the
end of section 6.

### What the violated runs show

* **send_opens_connection.** `EnsureConnectionStage` is above
  `SerializeConnectOpsStage`. A publish that passes the first while connected
  and is queued behind a disconnect is run again by `_unblock`, below
  `EnsureConnectionStage`: it fails, with no fault of network or broker.
* **connect_establishes.** An attempt is refused, the network thread reconnects
  by itself and its CONNACK is queued while the next connect raises, which closes
  that socket. The queued event then sets `connected`. A disconnect finds no
  socket, raises and stops the network thread; `connected` stays true, and every
  later connect is completed early.
* **cancel_ends.** A `cancel` whose trigger is queued while another thread works on
  the state machine returns from firing it and waits for its callback. When the
  registration ends first, the trigger raises in that other thread, which drops
  the exception: the cancel neither raises nor returns.

## 4. Theorems

For any operations, kinds, calls, answers and bounds; the assumptions are those
declared with the constants, which TLC evaluates in the runs, and the two
hypotheses named below. Each proof has one step, or lemma, per action.

* **ConnectionPipelineProofs**: `TypeCorrect` (`Spec => []TypeOK`), `Inductive`
  (`Spec => []IInv`) and `OneConnectionOpHolds`. `OneConnectionOp` is not inductive:
  that a connection operation reaching the stage is not the one already below needs
  to know where operations can be. `IInv` adds that each is in one place (the stack
  once, the queue once, or pending), that the ConnectOperation made for an operation
  does not exist before that operation reaches EnsureConnectionStage, that an
  operation is run once, and that it enters EnsureConnectionStage on an otherwise
  empty stack, so that the operations a release puts on the stack are never mixed
  with new ones. The lemmas `Advance`, `Pop`, `ReleaseIndex` and their companions
  say what each kind of step does to the places.
* **ConnectionResultsProofs**, on top of it:
  * `HeldOnceHolds`: an operation is in exactly one place until its callback is
    called, then in none. The proof counts: `Count` is the number of positions of a
    sequence that are in a set, and lemmas say what `Append`, `Tail` and
    concatenation do to it. `HeldInv` adds that an operation whose ConnectOperation
    has ended is past EnsureConnectionStage for good (`AutoOnce`); else a second one
    could be made.
  * `OpenIsConnectedHolds`, from `SocketKnown`: while a socket is open, its report
    was heard or is in the executor's queue, behind every report of an earlier loss.
  * `ResultMatchesConnectedHolds`, from `ResultInv`: a connect that is about to
    succeed finds the flag set, and stays `Safe` from a disconnect that its callbacks
    release and that completes inside the same call, which takes a socket without a
    network thread.
  * `PipelineCorrect`: `IInv` and these three together are `PipelineInv`.
  * `ImplementsGateHolds`, the refinement: each step of the composition blocks or
    releases the gate, or moves nothing of it. It needs `HeldInv`: an operation below
    the stage has not ended.
  * `AloneInvHolds`, `CancelledOnceHolds` and `AloneResultsHold` for
    `TransportStageAlone`, where connection operations cancel each other, so that
    `IInv` does not hold. There a task makes one call at a time, but for the
    operation that waits for the callback of the one it cancels (`OneCallAtATime`).
* **OperationManagerProofs**: `ManagerCorrect`, under `~ReuseAbandoned`, and from it
  `CallbackAfterAckHolds`, `CallbackOnceHolds` and `AckNotLostHolds`. The
  inductive part says that, for a request that is held anywhere, a dictionary
  entry of its mid is its own. The hypothesis is needed: the acknowledgement of a
  publish that was raised to its caller leaves its mid among the unknown
  completions, and when the library gives that mid again (after 65535 requests)
  the new request is reported as done before its acknowledgement.
* **PipelineThreadProofs**: `ThreadCorrect` (`Spec => []ThreadInv`), `OneAtATimeHolds`
  and `WaitersServedHolds`, under `OneStarter` (one thread only may come before there
  is a pipeline executor): then one thread only ever finds a name without an
  executor. The hypothesis is what a program does that constructs its first client
  in one thread, because the constructor runs an operation on the pipeline
  (`iothub/pipeline/iothub_pipeline.py:112`); two threads that construct the first
  clients at once each make an executor. `WaitersServed` is the safety part of
  `BlockingCallsReturn`: whoever waits does so for one function that is queued or runs
  on the pipeline thread, and that thread never waits, for itself or for another. It
  needs that a worker does not call through the wrapper what it could run
  (`NotItself`).
* **TwinRequestsProofs**: `TwinCorrect` (`Spec => []TwinInv`), `OwnAnswerHolds` and
  `NotForgottenHolds` from it, and `TwinImplementsExchange`
  (`Spec => ImplementsExchange`), for any calls, ids and faults. `OwnAnswer` is not
  inductive: `IdsMatch` adds that an id was made for one call, that a request on
  the list waits, that one still to be sent was not served, and that a response is
  for the call its id was made for; `CallsOrdered` adds that only requests that
  exist are served, and only waiting calls end. The refinement follows from the
  invariant by one step per action: each moves the `Stage` of one call along an
  edge of `RequestExchange`, or no stage at all.
* **TokenRenewalProofs**: `TokenCorrect` (`Spec => []TokenInv`), `TokenFreshHolds` and
  `OneTimerHolds`, for any periods, threads and number of timers. `TokenFresh` follows from `Renewed`: after every token a thread at the
  timer, a running timer or a signature is early enough for the next, which `Tick`
  keeps because a due timer stops the clock. `OneTimer` needs `AloneAtTimer`: a
  thread that is alone between reading and starting the timer read the current
  one.
* **ClientProofs**: `ClientCorrect` (`Spec => []ClientInv`), `EnablesFirstHolds`,
  `WaitsWhereRoutedHolds` and `TargetedIsFoundHolds`. `FlagsTrue` ties `feature_enabled` to a
  subscription or a call that waits for it, `EndsOnce` says that the end of a
  subscription is in the pipeline or among the tasks, once, so that a call which
  goes on is subscribed, `InboxesNamed` that the dictionary is never without the
  inbox of a name some call has one for, and `OnlyOwnMessages` that inboxes hold, and
  are about to get, what is meant for them. `ClearedOnDisconnectHolds` follows from `ClearingCorrect`
  (`Spec => []ClearInv`): the end of a disconnect is in the queue of the callback
  thread behind the clearing, and no message is between, neither queued nor looked up (`EndsCleared`). Either the
  same disconnect put both there, or there was no connection any more, and then
  no message is behind the last loss of one (`QuietOffline`); once that loss is
  taken from the queue the inboxes are empty until a message comes.
* **RegistrationProofs**: `CallsCorrect` (`Spec => []CallsInv`) and `CalledOnceHolds`.
  `QueueServed` says who works on the queue, `StoredUncalled` that a stored callback
  was not called yet, which is what makes `CalledOnce` inductive.
  `RegistrationCorrect` adds `StagesInv`, from which `TimersStoppedHolds` and
  `ReturnsDisconnectedHolds` follow: a registration that no fault and no second
  `register` disturbs is carried on by one thing at a time. Before a request that is
  the subscription, the task of its end or a trigger; after it the request at the
  service, the task of its answer or a trigger; while it waits the polling timer, its
  thread or a trigger. So whatever ends it finds no other timer than the two it
  clears, and nothing behind the disconnect. What is needed to keep this, and no
  test shows, is `Once`: that two triggers which go on are never queued together,
  although cancellations and time-outs may be queued at any place between.

Only model-checked are the liveness properties (`ConnectionOpsComplete`,
`PublishConfirmed`, `AloneOpsComplete`, `AckedIsCalled`, `BlockingCallsReturn`,
`RegisterReturns`, `RequestsEnd`, `MessagesArrive`): fairness and `ENABLED` are outside
the prover's reach.

## 5. Plan

Done: the connection half of the pipeline and its refinement, the transport stage
alone, OperationManager, pipeline_thread, the twin requests with their refinement,
the receiving clients, the renewal of tokens and the registration, each with its
invariants and action properties proved. In order, what is left:

1. The safety parts of the other liveness properties, as `WaitersServed` is for
   `BlockingCallsReturn`: that in the connection pipeline a queue which holds
   something is behind a connection operation that is pending or on the stack, and
   that an undisturbed registration that has not ended has something that goes on.
2. `OneAtATime` and `WaitersServed` without a hypothesis on who starts, for the names
   of which one executor was made.
3. `Client` over `ConnectionPipeline` instead of its summary, for the runs with a
   connection that is lost while operations wait.

## 6. Not modelled

* The factories `from_connection_string`, `from_shared_access_signature` and their
  like, connection strings and certificates: construction of values, without
  behaviour over time.
* `disable_feature`: no client calls it.
* The event loop of asyncio and the cancellation of an asynchronous call.
* The text of topics, their encoding and the parsing of bodies and tokens.
* TLS set-up, and HTTP to the edge daemon (a signature that takes time or fails).
* `SetMQTTConnectionArgsOperation` only constructs the transport object.
* Unhandled events and the reporting of background exceptions.

Some statements of the documentation are contradicted by a single line of the code,
and no run is spent on them:

* Every operation completes (`common/pipeline/pipeline_stages_base.py:89-91`): a
  publish that waits for its acknowledgement when the application disconnects does
  not, since `_on_mqtt_disconnected` looks at a pending disconnect only.
* An exception reaches the caller of a blocking pipeline function
  (`common/pipeline/pipeline_thread.py:42-43`): the wrapper drops it.
* A patch that fails raises an error (`iothub/sync_clients.py:223-224`): the callback calls
  `sys.exit` on the callback thread, and the call waits.
* `token_update_callback` is called with a new token
  (`iothub/auth/base_renewable_token_authentication_provider.py:82-86`): nothing sets
  it; the transport keeps the token that was read when the pipeline was set up
  (`iothub/pipeline/pipeline_stages_iothub.py:42`).
* The body of a twin response is parsed also when the service reports an error
  (`iothub/pipeline/pipeline_stages_iothub.py:92`): when that body is no JSON, the
  error is lost and the call waits. `NotForgotten` excepts these calls by name
  (`garbled`).

Others are contradicted by states which the properties above except, or which the
values of a run leave out. Each was found once by checking the formula given here,
without its exception, on the instance of its run or a smaller one:

* `register` returns when "the attempt has resulted in a failure"
  (`provisioning/provisioning_device_client.py:37-38`): the handler of an answer first
  cancels the query timer and deletes the request, then reads the body
  (`provisioning/internal/polling_machine.py:408`). When that is no JSON the callback
  thread drops the exception, and no trigger and no timer is left.
  (`RegisterReturns` without `LastUnread`.)
* A call without a method name receives "all methods not already being specifically
  targeted by a different call" (`iothub/sync_clients.py:126-127`): a request finds no
  inbox for its method, a call makes one and waits on it, and the request is put into
  the generic inbox (`iothub/inbox_manager.py:139`). (`Put` puts nothing into "methods"
  that is `Targeted`.)
* "Delete all method requests currently in inboxes" (`iothub/inbox_manager.py:88`): a
  call that makes an inbox meanwhile ends the iteration, and requests stay in the
  inboxes it did not reach. (`ClearedOnDisconnect` without `interrupted`.)
* "Cancel updates to the SAS Token"
  (`iothub/auth/base_renewable_token_authentication_provider.py:66`, also 141): when a
  timer has fired, `disconnect` finds nothing to stop and returns, and the thread of
  that timer starts the next one when it has signed. (When `disconnect` returns no
  thread of a timer is signing.)
* A scheduled update is cancelled when another is scheduled (same file, 152-153): two
  threads that renew at once both cancel the timer they read and start one each.
  (`OneTimer` without `overlapped`.)
* A callback is called "if the operation has already been completed"
  (`common/mqtt_transport.py:355`): when the mid of a publish that raised to its caller,
  and was acknowledged later, comes up again, the callback of the new request is
  called at once. (`CallbackAfterAck` with `ReuseAbandoned = TRUE`.)
* "All pipeline functions execute in a single thread"
  (`common/pipeline/pipeline_thread.py:22`): two threads that construct the first clients
  each make an executor. (`OneAtATime` with two `Starters`.)
