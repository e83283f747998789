-------------------------- MODULE TwinRequestsProofs --------------------------
(***************************************************************************)
(* Proofs about TwinRequests: calls are answered by their own response and *)
(* are never forgotten, and the stages implement RequestExchange.          *)
(***************************************************************************)
EXTENDS TwinRequests, TLAPS

(* The initial states satisfy the invariant.                               *)
LEMMA InitInv == Init => TwinInv
<1> SUFFICES ASSUME Init PROVE TwinInv OBVIOUS
<1> USE TwinAssumption
<1>1. TypeOK
  <2>1. at \in [Calls -> {"idle", "enabling", "subscribing", "request", "waiting", "returned"}]
    BY DEF Init
  <2>2. /\ pendingResponses \in [Rids -> Calls \union {None}]
        /\ owner \in [Rids -> Calls \union {None}]
    BY DEF Init
  <2>3. done \in [Calls -> {"no", "ok", "refused", "failed"}]
    BY DEF Init
  <2>4. answer \in [Calls -> Calls \union {None}]
    BY DEF Init
  <2>5. faults \in 0..MaxFaults BY DEF Init
  <2>6. QED BY <2>1, <2>2, <2>3, <2>4, <2>5 DEF Init, TypeOK
<1>2. IdsMatch BY DEF Init, IdsMatch
<1>3. CallsOrdered BY DEF Init, CallsOrdered
<1>4. OwnAnswer BY DEF Init, OwnAnswer
<1>5. NotForgotten BY DEF Init, NotForgotten
<1>6. QED BY <1>1, <1>2, <1>3, <1>4, <1>5 DEF TwinInv

(* Each step leaves the variables in their types.                          *)
LEMMA TypeStep == TypeOK /\ [Next]_vars => TypeOK'
<1> SUFFICES ASSUME TypeOK, [Next]_vars PROVE TypeOK' OBVIOUS
<1> USE TwinAssumption DEF TypeOK, Responses
<1>1. ASSUME NEW c \in Calls, CheckFeature(c) PROVE TypeOK'
  BY <1>1 DEF CheckFeature, Go, client, stages, network
<1>2. ASSUME NEW c \in Calls, EnableFeature(c) PROVE TypeOK'
  BY <1>2 DEF EnableFeature, Go, client, stages, network
<1>3. ASSUME NEW c \in Calls, OnSubscribed(c) PROVE TypeOK'
  BY <1>3 DEF OnSubscribed, Go, client, stages, network
<1>4. ASSUME NEW c \in Calls, Subscribe(c) PROVE TypeOK'
  BY <1>4 DEF Subscribe, client, stages, network
<1>5. ASSUME NEW c \in Calls, SubscribeFails(c) PROVE TypeOK'
  BY <1>5 DEF SubscribeFails, Fault, client, stages, network
<1>6. ASSUME NEW c \in Calls, NEW r \in Rids, SendRequest(c, r) PROVE TypeOK'
  BY <1>6 DEF SendRequest, NewRid, Go, client, stages, network
<1>7. ASSUME NEW r \in Rids, OnPublished(r) PROVE TypeOK'
  BY <1>7 DEF OnPublished, WaitForResponse, client, stages, network
<1>8. ASSUME NEW r \in Rids, SendFails(r) PROVE TypeOK'
  <2>1. /\ done' \in [Calls -> {"no", "ok", "refused", "failed"}]
        /\ pendingResponses' \in [Rids -> Calls \union {None}]
    BY <1>8 DEF SendFails, Forget, CompleteError
  <2>2. /\ publishes' \subseteq Rids /\ unanswered' \subseteq Rids /\ served' = served
        /\ faults' \in 0..MaxFaults
    BY <1>8 DEF SendFails, Fault
  <2>3. QED BY <1>8, <2>1, <2>2 DEF SendFails, CompleteError, client
<1>9. ASSUME NEW r \in Rids, Publish(r) PROVE TypeOK'
  BY <1>9 DEF Publish, client, stages, network
<1>10. ASSUME NEW m \in Responses, Respond(m.rid, m) PROVE TypeOK'
  BY <1>10 DEF Respond, Fault, client, stages, network
<1>11. ASSUME NEW m \in arrived, OnResponse(m) PROVE TypeOK'
  BY <1>11 DEF OnResponse, DeletePending, Forget, OnTwinResponse, CompleteOk,
          CompleteError, Fault, client, stages, network
<1>12. CASE UNCHANGED vars BY <1>12 DEF vars, client, stages, network
<1>13. QED
  BY <1>1, <1>2, <1>3, <1>4, <1>5, <1>6, <1>7, <1>8, <1>9, <1>10, <1>11, <1>12 DEF Next

(* A request keeps its id, and every id its request: what is still to be   *)
(* sent, what the service has and what it answered stay apart.             *)
LEMMA IdsStep ==
  TypeOK /\ IdsMatch /\ CallsOrdered /\ [Next]_vars => IdsMatch'
<1> SUFFICES ASSUME TypeOK, IdsMatch, CallsOrdered, [Next]_vars PROVE IdsMatch' OBVIOUS
<1> USE TwinAssumption DEF TypeOK, Responses, IdsMatch, CallsOrdered
<1>1. ASSUME NEW c \in Calls, CheckFeature(c) PROVE IdsMatch'
  BY <1>1 DEF CheckFeature, Go, client, stages, network
<1>2. ASSUME NEW c \in Calls, EnableFeature(c) PROVE IdsMatch'
  BY <1>2 DEF EnableFeature, Go, client, stages, network
<1>3. ASSUME NEW c \in Calls, OnSubscribed(c) PROVE IdsMatch'
  BY <1>3 DEF OnSubscribed, Go, client, stages, network
<1>4. ASSUME NEW c \in Calls, Subscribe(c) PROVE IdsMatch'
  BY <1>4 DEF Subscribe, client, stages, network
<1>5. ASSUME NEW c \in Calls, SubscribeFails(c) PROVE IdsMatch'
  BY <1>5 DEF SubscribeFails, Fault, client, stages, network
<1>6. ASSUME NEW c \in Calls, NEW r \in Rids, SendRequest(c, r) PROVE IdsMatch'
  BY <1>6 DEF SendRequest, NewRid, Go, client, stages, network
<1>7. ASSUME NEW r \in Rids, OnPublished(r) PROVE IdsMatch'
  BY <1>7 DEF OnPublished, WaitForResponse, client, stages, network
<1>8. ASSUME NEW r \in Rids, SendFails(r) PROVE IdsMatch'
  BY <1>8 DEF SendFails, Forget, CompleteError, Fault, client, stages, network
<1>9. ASSUME NEW r \in Rids, Publish(r) PROVE IdsMatch'
  BY <1>9 DEF Publish, client, stages, network
<1>10. ASSUME NEW m \in Responses, Respond(m.rid, m) PROVE IdsMatch'
  BY <1>10 DEF Respond, Fault, client, stages, network
<1>11. ASSUME NEW m \in arrived, OnResponse(m) PROVE IdsMatch'
  BY <1>11 DEF OnResponse, DeletePending, Forget, OnTwinResponse, CompleteOk,
          CompleteError, Fault, client, stages, network
<1>12. CASE UNCHANGED vars BY <1>12 DEF vars, client, stages, network
<1>13. QED
  BY <1>1, <1>2, <1>3, <1>4, <1>5, <1>6, <1>7, <1>8, <1>9, <1>10, <1>11, <1>12 DEF Next

(* A call is asked, served and ended in that order.                        *)
LEMMA OrderStep ==
  TypeOK /\ IdsMatch /\ CallsOrdered /\ [Next]_vars => CallsOrdered'
<1> SUFFICES ASSUME TypeOK, IdsMatch, CallsOrdered, [Next]_vars PROVE CallsOrdered' OBVIOUS
<1> USE TwinAssumption DEF TypeOK, Responses, IdsMatch, CallsOrdered
<1>1. ASSUME NEW c \in Calls, CheckFeature(c) PROVE CallsOrdered'
  BY <1>1 DEF CheckFeature, Go, client, stages, network
<1>2. ASSUME NEW c \in Calls, EnableFeature(c) PROVE CallsOrdered'
  BY <1>2 DEF EnableFeature, Go, client, stages, network
<1>3. ASSUME NEW c \in Calls, OnSubscribed(c) PROVE CallsOrdered'
  BY <1>3 DEF OnSubscribed, Go, client, stages, network
<1>4. ASSUME NEW c \in Calls, Subscribe(c) PROVE CallsOrdered'
  BY <1>4 DEF Subscribe, client, stages, network
<1>5. ASSUME NEW c \in Calls, SubscribeFails(c) PROVE CallsOrdered'
  BY <1>5 DEF SubscribeFails, Fault, client, stages, network
<1>6. ASSUME NEW c \in Calls, NEW r \in Rids, SendRequest(c, r) PROVE CallsOrdered'
  BY <1>6 DEF SendRequest, NewRid, Go, client, stages, network
<1>7. ASSUME NEW r \in Rids, OnPublished(r) PROVE CallsOrdered'
  BY <1>7 DEF OnPublished, WaitForResponse, client, stages, network
<1>8. ASSUME NEW r \in Rids, SendFails(r) PROVE CallsOrdered'
  BY <1>8 DEF SendFails, Forget, CompleteError, Fault, client, stages, network
<1>9. ASSUME NEW r \in Rids, Publish(r) PROVE CallsOrdered'
  BY <1>9 DEF Publish, client, stages, network
<1>10. ASSUME NEW m \in Responses, Respond(m.rid, m) PROVE CallsOrdered'
  BY <1>10 DEF Respond, Fault, client, stages, network
<1>11. ASSUME NEW m \in arrived, OnResponse(m) PROVE CallsOrdered'
  BY <1>11 DEF OnResponse, DeletePending, Forget, OnTwinResponse, CompleteOk,
          CompleteError, Fault, client, stages, network
<1>12. CASE UNCHANGED vars BY <1>12 DEF vars, client, stages, network
<1>13. QED
  BY <1>1, <1>2, <1>3, <1>4, <1>5, <1>6, <1>7, <1>8, <1>9, <1>10, <1>11, <1>12 DEF Next

(* A response completes the call that its id was made for, and it carries  *)
(* the answer to that call.                                                *)
LEMMA AnswerStep ==
  TypeOK /\ IdsMatch /\ OwnAnswer /\ [Next]_vars => OwnAnswer'
<1> SUFFICES ASSUME TypeOK, IdsMatch, OwnAnswer, [Next]_vars PROVE OwnAnswer' OBVIOUS
<1> USE TwinAssumption DEF TypeOK, Responses, IdsMatch, OwnAnswer
<1>1. ASSUME NEW c \in Calls, CheckFeature(c) PROVE OwnAnswer'
  BY <1>1 DEF CheckFeature, Go, client, stages, network
<1>2. ASSUME NEW c \in Calls, EnableFeature(c) PROVE OwnAnswer'
  BY <1>2 DEF EnableFeature, Go, client, stages, network
<1>3. ASSUME NEW c \in Calls, OnSubscribed(c) PROVE OwnAnswer'
  BY <1>3 DEF OnSubscribed, Go, client, stages, network
<1>4. ASSUME NEW c \in Calls, Subscribe(c) PROVE OwnAnswer'
  BY <1>4 DEF Subscribe, client, stages, network
<1>5. ASSUME NEW c \in Calls, SubscribeFails(c) PROVE OwnAnswer'
  BY <1>5 DEF SubscribeFails, Fault, client, stages, network
<1>6. ASSUME NEW c \in Calls, NEW r \in Rids, SendRequest(c, r) PROVE OwnAnswer'
  BY <1>6 DEF SendRequest, NewRid, Go, client, stages, network
<1>7. ASSUME NEW r \in Rids, OnPublished(r) PROVE OwnAnswer'
  BY <1>7 DEF OnPublished, WaitForResponse, client, stages, network
<1>8. ASSUME NEW r \in Rids, SendFails(r) PROVE OwnAnswer'
  BY <1>8 DEF SendFails, Forget, CompleteError, Fault, client, stages, network
<1>9. ASSUME NEW r \in Rids, Publish(r) PROVE OwnAnswer'
  BY <1>9 DEF Publish, client, stages, network
<1>10. ASSUME NEW m \in Responses, Respond(m.rid, m) PROVE OwnAnswer'
  BY <1>10 DEF Respond, Fault, client, stages, network
<1>11. ASSUME NEW m \in arrived, OnResponse(m) PROVE OwnAnswer'
  BY <1>11 DEF OnResponse, DeletePending, Forget, OnTwinResponse, CompleteOk,
          CompleteError, Fault, client, stages, network
<1>12. CASE UNCHANGED vars BY <1>12 DEF vars, client, stages, network
<1>13. QED
  BY <1>1, <1>2, <1>3, <1>4, <1>5, <1>6, <1>7, <1>8, <1>9, <1>10, <1>11, <1>12 DEF Next

(* A request leaves the list only when its call is completed, or when its  *)
(* answer cannot be parsed.                                                *)
LEMMA ForgottenStep ==
  TypeOK /\ IdsMatch /\ NotForgotten /\ [Next]_vars => NotForgotten'
<1> SUFFICES ASSUME TypeOK, IdsMatch, NotForgotten, [Next]_vars PROVE NotForgotten' OBVIOUS
<1> USE TwinAssumption DEF TypeOK, Responses, IdsMatch, NotForgotten
<1>1. ASSUME NEW c \in Calls, CheckFeature(c) PROVE NotForgotten'
  BY <1>1 DEF CheckFeature, Go, client, stages, network
<1>2. ASSUME NEW c \in Calls, EnableFeature(c) PROVE NotForgotten'
  BY <1>2 DEF EnableFeature, Go, client, stages, network
<1>3. ASSUME NEW c \in Calls, OnSubscribed(c) PROVE NotForgotten'
  BY <1>3 DEF OnSubscribed, Go, client, stages, network
<1>4. ASSUME NEW c \in Calls, Subscribe(c) PROVE NotForgotten'
  BY <1>4 DEF Subscribe, client, stages, network
<1>5. ASSUME NEW c \in Calls, SubscribeFails(c) PROVE NotForgotten'
  BY <1>5 DEF SubscribeFails, Fault, client, stages, network
<1>6. ASSUME NEW c \in Calls, NEW r \in Rids, SendRequest(c, r) PROVE NotForgotten'
  BY <1>6 DEF SendRequest, NewRid, Go, client, stages, network
<1>7. ASSUME NEW r \in Rids, OnPublished(r) PROVE NotForgotten'
  BY <1>7 DEF OnPublished, WaitForResponse, client, stages, network
<1>8. ASSUME NEW r \in Rids, SendFails(r) PROVE NotForgotten'
  BY <1>8 DEF SendFails, Forget, CompleteError, Fault, client, stages, network
<1>9. ASSUME NEW r \in Rids, Publish(r) PROVE NotForgotten'
  BY <1>9 DEF Publish, client, stages, network
<1>10. ASSUME NEW m \in Responses, Respond(m.rid, m) PROVE NotForgotten'
  BY <1>10 DEF Respond, Fault, client, stages, network
<1>11. ASSUME NEW m \in arrived, OnResponse(m) PROVE NotForgotten'
  BY <1>11 DEF OnResponse, DeletePending, Forget, OnTwinResponse, CompleteOk,
          CompleteError, Fault, client, stages, network
<1>12. CASE UNCHANGED vars BY <1>12 DEF vars, client, stages, network
<1>13. QED
  BY <1>1, <1>2, <1>3, <1>4, <1>5, <1>6, <1>7, <1>8, <1>9, <1>10, <1>11, <1>12 DEF Next

-----------------------------------------------------------------------------
(* The invariant of the requests, for any calls, ids and faults.           *)
THEOREM TwinCorrect == Spec => []TwinInv
<1>1. TwinInv /\ [Next]_vars => TwinInv'
  BY TypeStep, IdsStep, OrderStep, AnswerStep, ForgottenStep DEF TwinInv
<1>2. QED BY InitInv, <1>1, PTL DEF Spec

(* A call returns the answer to its own request, however responses are     *)
(* delayed, repeated or lost and whatever other calls wait.                *)
THEOREM OwnAnswerHolds == Spec => []OwnAnswer
<1>1. TwinInv => OwnAnswer BY DEF TwinInv
<1>2. QED BY TwinCorrect, <1>1, PTL

(* A call that waits is on the list of those a response can complete,      *)
(* unless its answer came and could not be parsed.                         *)
THEOREM NotForgottenHolds == Spec => []NotForgotten
<1>1. TwinInv => NotForgotten BY DEF TwinInv
<1>2. QED BY TwinCorrect, <1>1, PTL

-----------------------------------------------------------------------------
(* A call whose stage changes while that of the others does not makes a    *)
(* move of the exchange.                                                   *)
LEMMA OneMoves ==
  ASSUME NEW c \in Calls, NEW from, NEW to,
         Stage(c) = from, Stage(c)' = to,
         \A d \in Calls \ {c} : Stage(d)' = Stage(d)
  PROVE  Exchange!Move(c, from, to)
BY DEF Exchange!Move

(* Calls whose stage stays what it was.                                    *)
LEMMA NobodyMoves ==
  ASSUME \A d \in Calls : Stage(d)' = Stage(d)
  PROVE  UNCHANGED [d \in Calls |-> Stage(d)]
OBVIOUS

(* The stage of a call is what done, served and at say of it.              *)
LEMMA StageOf ==
  ASSUME NEW c \in Calls, TypeOK
  PROVE  /\ done[c] = "ok" => Stage(c) = "answered"
         /\ done[c] \in {"refused", "failed"} => Stage(c) = done[c]
         /\ done[c] = "no" /\ c \in served => Stage(c) = "served"
         /\ done[c] = "no" /\ c \notin served /\ at[c] = "waiting" => Stage(c) = "asked"
         /\ done[c] = "no" /\ c \notin served /\ at[c] # "waiting" => Stage(c) = "idle"
BY DEF Stage, TypeOK

(* A call about which the step changes nothing keeps its stage.            *)
LEMMA StageKept ==
  ASSUME NEW c \in Calls, done'[c] = done[c], c \in served' <=> c \in served,
         at'[c] = "waiting" <=> at[c] = "waiting"
  PROVE  Stage(c)' = Stage(c)
BY DEF Stage

(* Every step is a step of the exchange of one request, or none.           *)
LEMMA ExchangeStep ==
  TwinInv /\ TwinInv' /\ [Next]_vars => [Exchange!Next]_[c \in Calls |-> Stage(c)]
<1> SUFFICES ASSUME TwinInv, TwinInv', [Next]_vars
             PROVE  [Exchange!Next]_[c \in Calls |-> Stage(c)]
  OBVIOUS
<1> DEFINE Step == [Exchange!Next]_[c \in Calls |-> Stage(c)]
<1>a. TypeOK /\ TypeOK' /\ IdsMatch /\ CallsOrdered BY DEF TwinInv
<1>b. ASSUME UNCHANGED <<done, served>>,
             \A d \in Calls : at'[d] = "waiting" <=> at[d] = "waiting"
      PROVE  Step
  BY <1>b, StageKept, NobodyMoves
<1> USE TwinAssumption DEF Responses
<1>1. ASSUME NEW c \in Calls, CheckFeature(c) PROVE Step
  BY <1>a, <1>b, <1>1 DEF TypeOK, CheckFeature, Go, client, stages, network
<1>2. ASSUME NEW c \in Calls, EnableFeature(c) PROVE Step
  BY <1>a, <1>b, <1>2 DEF TypeOK, EnableFeature, Go, client, stages, network
<1>3. ASSUME NEW c \in Calls, OnSubscribed(c) PROVE Step
  BY <1>a, <1>b, <1>3 DEF TypeOK, OnSubscribed, Go, client, stages, network
<1>4. ASSUME NEW c \in Calls, Subscribe(c) PROVE Step
  BY <1>a, <1>b, <1>4 DEF TypeOK, Subscribe, client, stages, network
<1>5. ASSUME NEW c \in Calls, SubscribeFails(c) PROVE Step
  BY <1>a, <1>b, <1>5 DEF TypeOK, SubscribeFails, Fault, client, stages, network
<1>6. ASSUME NEW c \in Calls, NEW r \in Rids, SendRequest(c, r) PROVE Step
  <2>1. done[c] = "no" /\ c \notin served /\ at[c] = "request"
    BY <1>a, <1>6 DEF TypeOK, IdsMatch, CallsOrdered, SendRequest, Go
  <2>2. UNCHANGED <<done, served>> /\ at' = [at EXCEPT ![c] = "waiting"]
    BY <1>6 DEF SendRequest, Go
  <2>3. Stage(c) = "idle" /\ Stage(c)' = "asked"
    BY <2>1, <2>2, <1>a, StageOf DEF TypeOK, Stage
  <2>4. \A d \in Calls \ {c} : Stage(d)' = Stage(d)
    BY <2>2, <1>a, StageKept DEF TypeOK
  <2>5. Exchange!Move(c, "idle", "asked") BY <2>3, <2>4, OneMoves
  <2>6. QED BY <2>5 DEF Exchange!Next
<1>7. ASSUME NEW r \in Rids, OnPublished(r) PROVE Step
  BY <1>a, <1>b, <1>7 DEF TypeOK, OnPublished, WaitForResponse, client, stages, network
<1>8. ASSUME NEW r \in Rids, SendFails(r) PROVE Step
  <2>1. PICK c \in Calls : /\ c = pendingResponses[r] /\ done[c] = "no"
                           /\ c \notin served /\ at[c] = "waiting"
    BY <1>a, <1>8 DEF TypeOK, IdsMatch, SendFails
  <2>2. UNCHANGED <<at, served>> /\ done' = [done EXCEPT ![c] = "failed"]
    <3>1. served' = served BY <1>8, <1>a DEF SendFails
    <3>2. QED BY <2>1, <3>1, <1>8 DEF SendFails, CompleteError, client
  <2>3. Stage(c) = "asked" /\ Stage(c)' = "failed"
    BY <2>1, <2>2, <1>a DEF TypeOK, Stage
  <2>4. \A d \in Calls \ {c} : Stage(d)' = Stage(d)
    BY <2>2, <1>a, StageKept DEF TypeOK
  <2>5. Exchange!Move(c, "asked", "failed") BY <2>1, <2>3, <2>4, OneMoves
  <2>6. QED BY <2>1, <2>5 DEF Exchange!Next
<1>9. ASSUME NEW r \in Rids, Publish(r) PROVE Step
  BY <1>a, <1>b, <1>9 DEF TypeOK, Publish, client, stages, network
<1>10. ASSUME NEW m \in Responses, Respond(m.rid, m) PROVE Step
  <2>1. PICK c \in Calls : c = owner[m.rid] /\ c \notin served
    BY <1>a, <1>10 DEF TypeOK, IdsMatch, Respond
  <2>2. UNCHANGED <<at, done>> /\ served' = served \union {c}
    BY <2>1, <1>10 DEF Respond, client, stages
  <2>3. at[c] \in {"waiting", "returned"} /\ (at[c] = "returned" => done[c] = "ok")
    BY <2>1, <1>10, <1>a DEF TypeOK, IdsMatch, CallsOrdered, Respond
  <2>4. \A d \in Calls \ {c} : Stage(d)' = Stage(d)
    BY <2>2, StageKept
  <2>5. CASE done[c] = "no"
    <3>1. Stage(c) = "asked" /\ Stage(c)' = "served"
      BY <2>1, <2>2, <2>3, <2>5, <1>a DEF TypeOK, Stage
    <3>2. Exchange!Move(c, "asked", "served") BY <2>1, <2>4, <3>1, OneMoves
    <3>3. QED BY <2>1, <3>2 DEF Exchange!Next
  <2>6. CASE done[c] # "no"
    <3>1. Stage(c)' = Stage(c) BY <2>1, <2>2, <2>6, <1>a DEF TypeOK, Stage
    <3>2. QED BY <3>1, <2>4, NobodyMoves
  <2>7. QED BY <2>5, <2>6
<1>11. ASSUME NEW m \in arrived, OnResponse(m) PROVE Step
  <2>1. CASE pendingResponses[m.rid] = None
    <3>1. UNCHANGED <<at, done, served>> BY <2>1, <1>11, <1>a DEF OnResponse, client
    <3>2. QED BY <3>1, <1>b
  <2>2. CASE pendingResponses[m.rid] # None
    <3>1. PICK c \in Calls : /\ c = pendingResponses[m.rid] /\ done[c] = "no"
                             /\ c \in served /\ at[c] = "waiting" /\ served' = served
      BY <2>2, <1>a, <1>11 DEF TypeOK, IdsMatch, OnResponse
    <3>2. OnTwinResponse(c, m) BY <2>2, <3>1, <1>11 DEF OnResponse
    <3>3. CASE UNCHANGED <<client, done>> BY <3>1, <3>3, <1>b DEF client
    <3>4. CASE CompleteOk(c, m.of)
      <4>1. /\ done' = [done EXCEPT ![c] = "ok"]
            /\ \A d \in Calls \ {c} : at'[d] = at[d]
        BY <3>4, <1>a DEF CompleteOk, TypeOK
      <4>2. Stage(c) = "served" /\ Stage(c)' = "answered"
        BY <3>1, <4>1, <1>a DEF TypeOK, Stage
      <4>3. \A d \in Calls \ {c} : Stage(d)' = Stage(d)
        BY <3>1, <4>1, <1>a, StageKept DEF TypeOK
      <4>4. Exchange!Move(c, "served", "answered") BY <3>1, <4>2, <4>3, OneMoves
      <4>5. QED BY <3>1, <4>4 DEF Exchange!Next
    <3>5. CASE CompleteError(c, "refused")
      <4>1. at' = at /\ done' = [done EXCEPT ![c] = "refused"]
        BY <3>5 DEF CompleteError, client
      <4>2. Stage(c) = "served" /\ Stage(c)' = "refused"
        BY <3>1, <4>1, <1>a DEF TypeOK, Stage
      <4>3. \A d \in Calls \ {c} : Stage(d)' = Stage(d)
        BY <3>1, <4>1, <1>a, StageKept DEF TypeOK
      <4>4. Exchange!Move(c, "served", "refused") BY <3>1, <4>2, <4>3, OneMoves
      <4>5. QED BY <3>1, <4>4 DEF Exchange!Next
    <3>6. QED BY <3>2, <3>3, <3>4, <3>5 DEF OnTwinResponse
  <2>3. QED BY <2>1, <2>2
<1>12. CASE UNCHANGED vars BY <1>a, <1>b, <1>12 DEF vars, client, stages, network
<1>13. QED
  BY <1>1, <1>2, <1>3, <1>4, <1>5, <1>6, <1>7, <1>8, <1>9, <1>10, <1>11, <1>12 DEF Next

(* The stages implement the exchange: a request is asked once, served      *)
(* once, and ends once, with an answer only after it was served itself.    *)
THEOREM TwinImplementsExchange == Spec => ImplementsExchange
<1>1. Init => Exchange!Init
  <2> SUFFICES ASSUME Init, NEW c \in Calls PROVE Stage(c) = "idle"
    BY DEF Exchange!Init
  <2>1. QED BY DEF Init, Stage
<1>2. QED
  BY <1>1, TwinCorrect, ExchangeStep, PTL DEF Spec, Exchange!Spec, ImplementsExchange
=============================================================================
