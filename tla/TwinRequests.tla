---------------------------- MODULE TwinRequests ----------------------------
(***************************************************************************)
(* Twin requests: get_twin and patch_twin_reported_properties of the       *)
(* clients, HandleTwinOperationsStage and, below it,                       *)
(* CoordinateRequestAndResponseStage, which matches each response with its *)
(* request by id.                                                          *)
(*                                                                         *)
(* Stages run on the pipeline thread, one task at a time: a task is one    *)
(* step here, and so is the callback of the client that ends a call.  An   *)
(* operation that waits for a connection may be overtaken by a later one,  *)
(* so what is to be sent is a set.                                         *)
(***************************************************************************)
EXTENDS Naturals, FiniteSets

CONSTANTS
  Calls,      (* calls of the two methods, each by a thread of its own     *)
  Gets,       (* those of get_twin                                         *)
  Rids,       (* request ids                                               *)
  MaxFaults,  (* bound on the faults                                       *)
  None

ASSUME TwinAssumption ==
  /\ Gets \subseteq Calls
  /\ None \notin Calls
  /\ MaxFaults \in Nat

Responses == [rid : Rids, of : Calls, ok : BOOLEAN, json : BOOLEAN]

VARIABLES
  featureEnabled,    (* feature_enabled[TWIN]                              *)
  at,                (* how far each call is                               *)
  pendingResponses,  (* pending_responses: the call of each request id     *)
  owner,             (* the call each request id was made for              *)
  done,              (* how the twin operation of each call was completed  *)
  answer,            (* the call whose answer a call returned              *)
  subscribes,        (* calls whose subscribe is still to be sent          *)
  publishes,         (* requests still to be sent                          *)
  subacks, pubacks,  (* sent, and not acknowledged                         *)
  subscribed,        (* the broker knows the subscription                  *)
  unanswered,        (* requests the service has                           *)
  served,            (* calls whose request the service answered           *)
  arrived,           (* responses on their way to the pipeline thread      *)
  garbled,           (* get_twin calls whose answer could not be parsed    *)
  faults

client  == <<featureEnabled, at, answer>>
stages  == <<pendingResponses, owner, done, garbled>>
network == <<subscribes, publishes, subacks, pubacks, subscribed, unanswered, served, arrived>>
vars    == <<client, stages, network, faults>>

TypeOK ==
  /\ featureEnabled \in BOOLEAN /\ subscribed \in BOOLEAN
  /\ at \in [Calls -> {"idle", "enabling", "subscribing", "request", "waiting", "returned"}]
  /\ pendingResponses \in [Rids -> Calls \union {None}]
  /\ owner \in [Rids -> Calls \union {None}]
  /\ done \in [Calls -> {"no", "ok", "refused", "failed"}]
  /\ answer \in [Calls -> Calls \union {None}]
  /\ subscribes \subseteq Calls /\ subacks \subseteq Calls
  /\ publishes \subseteq Rids /\ pubacks \subseteq Rids /\ unanswered \subseteq Rids
  /\ served \subseteq Calls /\ garbled \subseteq Calls
  /\ arrived \subseteq Responses
  /\ faults \in 0..MaxFaults

Init ==
  /\ featureEnabled = FALSE /\ subscribed = FALSE
  /\ at = [c \in Calls |-> "idle"]
  /\ pendingResponses = [r \in Rids |-> None]
  /\ owner = [r \in Rids |-> None]
  /\ done = [c \in Calls |-> "no"]
  /\ answer = [c \in Calls |-> None]
  /\ subscribes = {} /\ publishes = {} /\ subacks = {} /\ pubacks = {}
  /\ unanswered = {} /\ served = {} /\ arrived = {} /\ garbled = {}
  /\ faults = 0

Fault == faults < MaxFaults /\ faults' = faults + 1

-----------------------------------------------------------------------------
(* The client: enable the feature unless it is enabled, then ask.          *)
Go(c, from, to) == at[c] = from /\ at' = [at EXCEPT ![c] = to]

CheckFeature(c) ==
  /\ Go(c, "idle", IF featureEnabled THEN "request" ELSE "enabling")
  /\ UNCHANGED <<featureEnabled, answer, stages, network, faults>>

(* enable_feature says so before anything is sent.                         *)
EnableFeature(c) ==
  /\ Go(c, "enabling", "subscribing")
  /\ featureEnabled' = TRUE
  /\ subscribes' = subscribes \union {c}
  /\ UNCHANGED <<answer, stages, publishes, subacks, pubacks, subscribed, unanswered,
                 served, arrived, faults>>

OnSubscribed(c) ==
  /\ c \in subacks
  /\ Go(c, "subscribing", "request")
  /\ subacks' = subacks \ {c}
  /\ UNCHANGED <<featureEnabled, answer, stages, subscribes, publishes, pubacks, subscribed,
                 unanswered, served, arrived, faults>>

(* A new uuid.  Mutant: an id may come again.                              *)
AnyRid(r) == TRUE
NewRid(r) == owner[r] = None

(* GetTwinOperation or PatchTwinReportedPropertiesOperation becomes a      *)
(* SendIotRequestAndWaitForResponseOperation, that a SendIotRequestOper-   *)
(* ation, and that an MQTTPublishOperation.                                *)
SendRequest(c, r) ==
  /\ NewRid(r)
  /\ Go(c, "request", "waiting")
  /\ pendingResponses' = [pendingResponses EXCEPT ![r] = c]
  /\ owner' = [owner EXCEPT ![r] = c]
  /\ publishes' = publishes \union {r}
  /\ UNCHANGED <<featureEnabled, answer, done, garbled, subscribes, subacks, pubacks,
                 subscribed, unanswered, served, arrived, faults>>

-----------------------------------------------------------------------------
(* Completing the operation of call c.  After an error, on_complete calls  *)
(* sys.exit on the callback thread, which drops the exception: the Event   *)
(* of the call is never set.                                               *)
CompleteOk(c, of) ==
  /\ done' = [done EXCEPT ![c] = "ok"]
  /\ at' = [at EXCEPT ![c] = "returned"]
  /\ answer' = [answer EXCEPT ![c] = of]
  /\ UNCHANGED <<featureEnabled, garbled>>

CompleteError(c, how) ==
  /\ done' = [done EXCEPT ![c] = how]
  /\ UNCHANGED <<client, garbled>>

Forget(r) == pendingResponses' = [pendingResponses EXCEPT ![r] = None]

(* on_send_request_done without an error: the response is still to come.   *)
(* Mutant: the request is removed from the list whatever the error.        *)
ForgetWhenSent(r) == Forget(r)
WaitForResponse(r) == UNCHANGED pendingResponses

OnPublished(r) ==
  /\ r \in pubacks
  /\ pubacks' = pubacks \ {r}
  /\ WaitForResponse(r)
  /\ UNCHANGED <<client, owner, done, garbled, subscribes, publishes, subacks, subscribed,
                 unanswered, served, arrived, faults>>

(* on_send_request_done with an error.  The library may have kept what it  *)
(* could not send, and sends it later.                                     *)
SendFails(r) ==
  /\ r \in publishes /\ Fault
  /\ Forget(r)
  /\ CompleteError(pendingResponses[r], "failed")
  /\ publishes' = publishes \ {r}
  /\ \/ unanswered' = unanswered \union {r} /\ UNCHANGED served
     \/ UNCHANGED <<unanswered, served>>
  /\ UNCHANGED <<owner, subscribes, subacks, pubacks, subscribed, arrived>>

(* on_twin_response of get_twin parses the body also after an error of the *)
(* service; a body it cannot parse raises inside complete_op, which drops  *)
(* it, and the operation is not completed at all.                          *)
OnTwinResponse(c, response) ==
  \/ /\ c \in Gets /\ ~response.json
     /\ garbled' = garbled \union {c}
     /\ UNCHANGED <<client, done>>
  \/ /\ c \in Gets => response.json
     /\ response.ok
     /\ CompleteOk(c, response.of)
  \/ /\ c \in Gets => response.json
     /\ ~response.ok
     /\ CompleteError(c, "refused")

(* Mutant: a response completes its request and leaves it in the list.     *)
KeepPending(r) == UNCHANGED pendingResponses
DeletePending(r) == Forget(r)

(* _handle_pipeline_event: a response nobody waits for is dropped.         *)
OnResponse(response) ==
  /\ response \in arrived
  /\ \/ /\ pendingResponses[response.rid] # None
        /\ DeletePending(response.rid)
        /\ OnTwinResponse(pendingResponses[response.rid], response)
     \/ /\ pendingResponses[response.rid] = None
        /\ UNCHANGED <<client, pendingResponses, done, garbled>>
  /\ \/ arrived' = arrived \ {response} /\ UNCHANGED faults
     \/ Fault /\ UNCHANGED arrived  \* delivered again
  /\ UNCHANGED <<owner, subscribes, publishes, subacks, pubacks, subscribed, unanswered, served>>

-----------------------------------------------------------------------------
(* The connection, the broker and the service.                             *)
Subscribe(c) ==
  /\ c \in subscribes
  /\ subscribes' = subscribes \ {c} /\ subacks' = subacks \union {c}
  /\ subscribed' = TRUE
  /\ UNCHANGED <<client, stages, publishes, pubacks, unanswered, served, arrived, faults>>

(* The error of a subscribe ends in sys.exit too; the feature stays on.    *)
SubscribeFails(c) ==
  /\ c \in subscribes /\ Fault
  /\ subscribes' = subscribes \ {c}
  /\ UNCHANGED <<client, stages, publishes, subacks, pubacks, subscribed, unanswered, served, arrived>>

Publish(r) ==
  /\ r \in publishes
  /\ publishes' = publishes \ {r} /\ pubacks' = pubacks \union {r}
  /\ unanswered' = unanswered \union {r}
  /\ UNCHANGED <<client, stages, subscribes, subacks, subscribed, served, arrived, faults>>

(* Without the subscription nobody hears the answer.                       *)
Respond(r, response) ==
  /\ r \in unanswered /\ response.rid = r /\ response.of = owner[r]
  /\ unanswered' = unanswered \ {r}
  /\ served' = served \union {owner[r]}
  /\ \/ /\ subscribed /\ response.json
        /\ arrived' = arrived \union {response} /\ UNCHANGED faults
     \/ subscribed /\ ~response.json /\ Fault /\ arrived' = arrived \union {response}
     \/ ~subscribed /\ UNCHANGED <<arrived, faults>>
     \/ Fault /\ UNCHANGED arrived  \* lost
  /\ UNCHANGED <<client, stages, subscribes, publishes, subacks, pubacks, subscribed>>

-----------------------------------------------------------------------------
Next ==
  \/ \E c \in Calls : \/ CheckFeature(c) \/ EnableFeature(c) \/ OnSubscribed(c)
                      \/ Subscribe(c) \/ SubscribeFails(c)
                      \/ \E r \in Rids : SendRequest(c, r)
  \/ \E r \in Rids : OnPublished(r) \/ SendFails(r) \/ Publish(r)
  \/ \E response \in Responses : Respond(response.rid, response)
  \/ \E response \in arrived : OnResponse(response)

Spec == Init /\ [][Next]_vars

(* Calls go on, what was given to the pipeline is sent (or fails, which is *)
(* a fault), and the service answers.                                      *)
FairSpec ==
  /\ Spec
  /\ \A c \in Calls : /\ WF_vars(EnableFeature(c)) /\ WF_vars(OnSubscribed(c))
                      /\ WF_vars(Subscribe(c)) /\ WF_vars(\E r \in Rids : SendRequest(c, r))
  /\ \A r \in Rids : /\ WF_vars(Publish(r))
                     /\ WF_vars(\E response \in Responses : Respond(r, response))
                     /\ WF_vars(\E response \in arrived : response.rid = r /\ OnResponse(response))

-----------------------------------------------------------------------------
(* A call returns the answer to its own request, and no other.             *)
OwnAnswer == \A c \in Calls : at[c] = "returned" => answer[c] = c

(* A call that waits and whose operation was not completed is on the list, *)
(* so that a response can still complete it.                               *)
NotForgotten ==
  \A c \in Calls \ garbled : at[c] = "waiting" /\ done[c] = "no" =>
    \E r \in Rids : pendingResponses[r] = c

(* With the subscription in place when the request is made, a call returns *)
(* or its operation ends with the error of the service.                    *)
RequestsEnd ==
  \A c \in Calls : at[c] = "request" /\ subscribed ~> done[c] # "no" \/ faults > 0

(* Every id was made for one request.  A request on the list waits for its *)
(* answer, one still to be sent is on the list and was not served, and a   *)
(* response answers the request its id was made for.                       *)
IdsMatch ==
  /\ \A r, s \in Rids : owner[r] = owner[s] /\ owner[r] # None => r = s
  /\ \A r \in Rids :
       /\ owner[r] # None => at[owner[r]] \in {"waiting", "returned"}
       /\ pendingResponses[r] # None =>
            owner[r] = pendingResponses[r] /\ at[owner[r]] = "waiting"
              /\ done[owner[r]] = "no" /\ owner[r] \notin garbled
       /\ r \in publishes =>
            pendingResponses[r] # None /\ owner[r] \notin served /\ r \notin unanswered
       /\ r \in unanswered => owner[r] # None /\ owner[r] \notin served
  /\ \A response \in arrived :
       response.of = owner[response.rid] /\ response.of \in served

(* A call is asked, served and ended in that order.                        *)
CallsOrdered ==
  /\ \A c \in Calls : c \in served => \E r \in Rids : owner[r] = c
  /\ \A c \in Calls : done[c] # "no" \/ c \in garbled => at[c] \in {"waiting", "returned"}
  /\ \A c \in Calls : at[c] = "returned" => done[c] = "ok"

(* The inductive invariant.                                                *)
TwinInv == TypeOK /\ IdsMatch /\ CallsOrdered /\ OwnAnswer /\ NotForgotten

(* The abstract specification: each request is an exchange that ends once, *)
(* after its own service.                                                  *)
Stage(c) ==
  CASE done[c] = "ok"                               -> "answered"
    [] done[c] \in {"refused", "failed"}            -> done[c]
    [] done[c] = "no" /\ c \in served               -> "served"
    [] done[c] = "no" /\ c \notin served /\ at[c] = "waiting" -> "asked"
    [] OTHER                                        -> "idle"

Exchange == INSTANCE RequestExchange WITH stage <- [c \in Calls |-> Stage(c)]

(* Every step of the twin stages is a step of the exchange of one request. *)
ImplementsExchange == Exchange!Spec
=============================================================================
