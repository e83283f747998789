----------------------------- MODULE ClientProofs -----------------------------
(***************************************************************************)
(* Proofs about Client: the feature of a call is enabled and subscribed to *)
(* before it waits, it waits where its messages go, it gets no others, and *)
(* a disconnect leaves no method request behind.                           *)
(***************************************************************************)
EXTENDS Client, SequenceTheorems, TLAPS

(* No receiving call is a command, a name is neither a fixed inbox nor a   *)
(* feature, and no inbox or call is None.                                  *)
LEMMA Kinds ==
  /\ Receivers \subseteq Calls /\ Commands \subseteq Calls /\ Disconnects \subseteq Commands
  /\ \A c \in Receivers : c \notin Commands /\ c \notin Fixed /\ c # None
  /\ \A n \in Names : n \notin Fixed /\ (n \in Methods \/ n \in Inputs)
  /\ \A c \in Receivers \union Messages : Target[c] \in Names \union Fixed
  /\ None \notin Inboxes /\ Receivers \subseteq Inboxes /\ Fixed \subseteq Inboxes
  /\ "methods" \in Fixed
BY ClientAssumption DEF Calls, Commands, Names, Inboxes, Fixed, Features

(* Every call and message has one of the features.                         *)
LEMMA FeatureType == \A c \in Receivers \union Messages : FeatureOf(c) \in Features
<1> SUFFICES ASSUME NEW c \in Receivers \union Messages PROVE FeatureOf(c) \in Features
  OBVIOUS
<1>1. Target[c] \in Names \union Fixed BY Kinds
<1>2. QED BY <1>1 DEF FeatureOf, Feature, Names, Features, Fixed

(* Where messages go: to a fixed inbox, to the inbox of their name, or     *)
(* else to the generic one if they are requests of a method.               *)
LEMMA Routes ==
  ASSUME NEW target \in Names \union Fixed
  PROVE  /\ target \in Fixed => Route(target) = target
         /\ target \in Names /\ named[target] # None => Route(target) = named[target]
         /\ target \in Methods /\ named[target] = None => Route(target) = "methods"
         /\ target \in Inputs /\ named[target] = None => Route(target) = None
BY ClientAssumption, Kinds DEF Route, Names, Features

(* What the pipeline hands to the callback thread are tasks, which the     *)
(* field "what" tells apart.                                               *)
LEMMA TaskKinds ==
  /\ Lost \in Tasks /\ \A c \in Calls : Done(c) \in Tasks
  /\ \A m \in Messages : [what |-> "message", message |-> m] \in Tasks
  /\ \A task \in Tasks : /\ task.what = "message" => task.message \in Messages
                        /\ task.what = "done" => task.of \in Calls /\ task = Done(task.of)
  /\ \A c, d \in Calls : Done(c) = Done(d) => c = d
  /\ \A c \in Calls : Done(c).what = "done" /\ Done(c) # Lost
  /\ \A c \in Calls, m \in Messages : Done(c) # [what |-> "message", message |-> m]
<1>1. Lost \in Tasks /\ \A c \in Calls : Done(c) \in Tasks BY DEF Lost, Done, Tasks
<1>2. \A m \in Messages : [what |-> "message", message |-> m] \in Tasks BY DEF Tasks
<1>3. \A task \in Tasks : task.what = "message" => task.message \in Messages BY DEF Tasks
<1>4. \A task \in Tasks : task.what = "done" => task.of \in Calls /\ task = Done(task.of)
  BY DEF Tasks, Done
<1>5. \A c, d \in Calls : Done(c) = Done(d) => c = d
  <2> SUFFICES ASSUME NEW c \in Calls, NEW d \in Calls, Done(c) = Done(d) PROVE c = d OBVIOUS
  <2>1. Done(c).of = c /\ Done(d).of = d BY DEF Done
  <2>2. QED BY <2>1
<1>6. \A c \in Calls : Done(c).what = "done" BY DEF Done
<1>7. Lost.what = "disconnected" /\ \A m \in Messages : [what |-> "message", message |-> m].what = "message"
  BY DEF Lost
<1>8. QED BY <1>1, <1>2, <1>3, <1>4, <1>5, <1>6, <1>7

(* A task with a message has one of the messages.                          *)
LEMMA MessageTask ==
  ASSUME NEW task \in Tasks, task.what = "message"
  PROVE  task.message \in Messages
BY DEF Tasks

(* The initial states satisfy the invariant.                               *)
LEMMA InitInv == Init => ClientInv
<1> SUFFICES ASSUME Init PROVE ClientInv OBVIOUS
<1> USE ClientAssumption, Kinds DEF Init
<1>1. TypeOK
  <2>1. at \in [Calls -> {"idle", "enabling", "subscribing", "lookup", "create", "waiting",
                         "running", "returned", "empty"}]
    OBVIOUS
  <2>2. named \in [Names -> Receivers \union {None}] OBVIOUS
  <2>3. inbox \in [Receivers -> Inboxes \union {None}] OBVIOUS
  <2>4. contents \in [Inboxes -> Seq(Messages)] OBVIOUS
  <2>5. received \in [Receivers -> Messages \union {None}] OBVIOUS
  <2>6. faults \in 0..MaxFaults /\ tasks \in Seq(Tasks) OBVIOUS
  <2> HIDE DEF Init
  <2>7. QED BY <2>1, <2>2, <2>3, <2>4, <2>5, <2>6 DEF TypeOK, Init
<1>2. FlagsTrue BY DEF FlagsTrue
<1>3. EndsOnce BY DEF EndsOnce
<1>4. InboxesNamed BY DEF InboxesNamed
<1>5. OnlyOwnMessages BY DEF OnlyOwnMessages
<1>6. QED BY <1>1, <1>2, <1>3, <1>4, <1>5 DEF ClientInv

-----------------------------------------------------------------------------
(* What Lookup does: a call finds an inbox, or goes on to make one.        *)
Found(c) ==
  /\ at[c] = "lookup"
  /\ UNCHANGED <<received, featureEnabled, named, contents, tasks, routing, clearing, grown,
                 interrupted, ops, connected, subscribed, toCome, faults>>
  /\ \/ /\ at' = [at EXCEPT ![c] = "waiting"]
        /\ \E i \in Inboxes :
             /\ inbox' = [inbox EXCEPT ![c] = i]
             /\ \/ Target[c] \in Fixed /\ i = Target[c]
                \/ Target[c] \in Names /\ i = named[Target[c]] /\ i \in Receivers
     \/ /\ at' = [at EXCEPT ![c] = "create"]
        /\ inbox' = inbox /\ Target[c] \in Names

(* That is all it does.                                                    *)
LEMMA LookupCases ==
  ASSUME TypeOK, NEW c \in Receivers, Lookup(c)
  PROVE  Found(c)
<1> USE DEF Found
<1>1. /\ at[c] = "lookup"
      /\ UNCHANGED <<received, featureEnabled, named, contents, tasks, routing, clearing, grown,
                     interrupted, ops, connected, subscribed, toCome, faults>>
  BY DEF Lookup, Go, clear, pipeline
<1>2. CASE Target[c] \in Fixed
  <2>1. at' = [at EXCEPT ![c] = "waiting"] /\ inbox' = [inbox EXCEPT ![c] = Target[c]]
    BY <1>2 DEF Lookup, Go
  <2>2. Target[c] \in Inboxes BY <1>2, Kinds
  <2>3. QED BY <1>1, <1>2, <2>1, <2>2
<1>3. CASE Target[c] \in Names /\ named[Target[c]] # None
  <2>1. Target[c] \notin Fixed /\ named[Target[c]] \in Receivers
    BY <1>3, Kinds DEF TypeOK
  <2>2. /\ at' = [at EXCEPT ![c] = "waiting"]
        /\ inbox' = [inbox EXCEPT ![c] = named[Target[c]]]
    BY <1>3, <2>1 DEF Lookup, Go
  <2>3. named[Target[c]] \in Inboxes BY <2>1, Kinds
  <2>4. QED BY <1>1, <1>3, <2>1, <2>2, <2>3
<1>4. CASE Target[c] \in Names /\ named[Target[c]] = None
  <2>1. Target[c] \notin Fixed BY <1>4, Kinds
  <2>2. at' = [at EXCEPT ![c] = "create"] /\ inbox' = inbox
    BY <1>4, <2>1 DEF Lookup, Go
  <2>3. QED BY <1>1, <1>4, <2>2
<1>5. QED BY <1>2, <1>3, <1>4, Kinds

(* What a sequence holds but for its head, it held.                        *)
LEMMA TailHolds ==
  ASSUME NEW S, NEW s \in Seq(S), s # <<>>
  PROVE  /\ Head(s) \in S /\ Head(s) = s[1] /\ Tail(s) \in Seq(S) /\ Len(s) >= 1
         /\ Len(Tail(s)) = Len(s) - 1
         /\ \A k \in 1..Len(Tail(s)) : k + 1 \in 1..Len(s) /\ Tail(s)[k] = s[k + 1]
<1>1. Len(s) \in Nat /\ Len(s) >= 1 BY EmptySeq, LenProperties
<1>2. QED BY <1>1, HeadTailProperties

(* What is appended is the last, and the rest stays.                       *)
LEMMA AppendHolds ==
  ASSUME NEW S, NEW s \in Seq(S), NEW e \in S
  PROVE  /\ Append(s, e) \in Seq(S) /\ Len(Append(s, e)) = Len(s) + 1 /\ Len(s) \in Nat
         /\ \A k \in 1..Len(s) : Append(s, e)[k] = s[k]
         /\ Append(s, e)[Len(s) + 1] = e
OBVIOUS

(* The callback thread looks up the message of its first task.             *)
LEMMA TakenMessage ==
  ASSUME TypeOK, RouteLookup
  PROVE  /\ Head(tasks).message \in Messages /\ tasks' \in Seq(Tasks)
         /\ tasks # <<>> /\ tasks' = Tail(tasks) /\ tasks[1].what = "message"
<1>1. tasks # <<>> /\ Head(tasks).what = "message" /\ tasks' = Tail(tasks)
  BY DEF RouteLookup, Take
<1>2. Head(tasks) \in Tasks /\ Head(tasks) = tasks[1] /\ Tail(tasks) \in Seq(Tasks)
  BY <1>1, TailHolds DEF TypeOK
<1>3. QED BY <1>1, <1>2, MessageTask

(* A message is routed to an inbox that is meant for it, and a named inbox *)
(* was made by its call before.                                            *)
LEMMA RouteType ==
  ASSUME TypeOK, InboxesNamed, NEW m \in Messages
  PROVE  LET to == Route(Target[m])
         IN  /\ to \in Inboxes \union {None}
             /\ to # None => MeantFor(m, Purpose(to))
             /\ to \in Receivers => inbox[to] = to
<1> USE Kinds DEF TypeOK, InboxesNamed, MeantFor, Purpose
<1>1. Target[m] \in Names \union Fixed OBVIOUS
<1>2. CASE Target[m] \in Fixed BY <1>2, Routes
<1>3. CASE Target[m] \in Names /\ named[Target[m]] # None BY <1>3, Routes
<1>4. CASE Target[m] \in Names /\ named[Target[m]] = None BY <1>4, Routes
<1>5. QED BY <1>1, <1>2, <1>3, <1>4

(* Each step leaves the variables in their types.                          *)
LEMMA TypeStep == TypeOK /\ InboxesNamed /\ [Next]_vars => TypeOK'
<1> SUFFICES ASSUME TypeOK, InboxesNamed, [Next]_vars PROVE TypeOK' OBVIOUS
<1> USE ClientAssumption, Kinds, FeatureType DEF TypeOK
<1>1. ASSUME NEW c \in Receivers, CheckFeature(c) PROVE TypeOK'
  BY <1>1 DEF CheckFeature, Go, threads, manager, clear, pipeline
<1>2. ASSUME NEW c \in Receivers, EnableFeature(c) PROVE TypeOK'
  BY <1>2 DEF EnableFeature, Go, threads, manager, clear, pipeline
<1>3. ASSUME NEW c \in Receivers, Lookup(c) PROVE TypeOK'
  <2>1. Found(c) BY <1>3, LookupCases
  <2>2. CASE at' = [at EXCEPT ![c] = "create"] /\ inbox' = inbox /\ Target[c] \in Names
    BY <2>1, <2>2 DEF Found
  <2>3. ASSUME NEW i \in Inboxes,
               at' = [at EXCEPT ![c] = "waiting"], inbox' = [inbox EXCEPT ![c] = i],
               \/ Target[c] \in Fixed /\ i = Target[c]
               \/ Target[c] \in Names /\ i = named[Target[c]] /\ i \in Receivers
        PROVE  TypeOK'
    BY <2>1, <2>3 DEF Found
  <2>4. QED BY <2>1, <2>2, <2>3 DEF Found
<1>4. ASSUME NEW c \in Receivers, Create(c) PROVE TypeOK'
  BY <1>4 DEF Create, Register, Go, threads, manager, clear, pipeline
<1>5. ASSUME NEW c \in Receivers, Get(c) PROVE TypeOK'
  <2>1. inbox[c] \in Inboxes
    <3>1. inbox[c] # None BY <1>5 DEF Get, InboxesNamed
    <3>2. QED BY <3>1
  <2>2. contents[inbox[c]] \in Seq(Messages) /\ contents[inbox[c]] # <<>>
    BY <1>5, <2>1 DEF Get
  <2>3. /\ Head(contents[inbox[c]]) \in Messages
        /\ Tail(contents[inbox[c]]) \in Seq(Messages)
    BY <2>2, TailHolds
  <2>4. QED BY <1>5, <2>1, <2>3 DEF Get, clear, pipeline
<1>6. ASSUME NEW c \in Receivers, GiveUp(c) PROVE TypeOK'
  BY <1>6 DEF GiveUp, threads, manager, clear, pipeline
<1>7. ASSUME NEW c \in Commands, RunCommand(c) PROVE TypeOK'
  BY <1>7 DEF RunCommand, Go, threads, manager, clear, pipeline
<1>8. ASSUME NEW c \in Calls, RunOp(c) PROVE TypeOK'
  <2>1. DisconnectTasks(c) \in Seq(Tasks) /\ <<Done(c)>> \in Seq(Tasks)
    BY TaskKinds DEF DisconnectTasks
  <2>2. tasks' \in Seq(Tasks) BY <1>8, <2>1, ConcatProperties DEF RunOp
  <2>3. subscribed' \subseteq Features BY <1>8 DEF RunOp, Subscribe
  <2>4. connected' \in BOOLEAN BY <1>8 DEF RunOp
  <2>5. QED BY <1>8, <2>2, <2>3, <2>4 DEF RunOp, threads, manager, clear
<1>9. ASSUME NEW c \in Calls, OpFails(c) PROVE TypeOK'
  BY <1>9 DEF OpFails, Fault, threads, manager, clear, pipeline
<1>10. CASE ConnectionLost
  <2>1. tasks' \in Seq(Tasks) BY <1>10, TaskKinds DEF ConnectionLost
  <2>2. faults' \in 0..MaxFaults BY <1>10 DEF ConnectionLost, Fault
  <2>3. QED BY <1>10, <2>1, <2>2 DEF ConnectionLost, threads, manager, clear
<1>11. ASSUME NEW m \in Messages, Deliver(m) PROVE TypeOK'
  BY <1>11, TaskKinds DEF Deliver, threads, manager, clear, pipeline
<1>12. CASE Complete
  BY <1>12, TaskKinds DEF Complete, Take, threads, manager, clear, pipeline
<1>13. CASE RouteLookup
  <2>1. Head(tasks).message \in Messages /\ tasks' \in Seq(Tasks) BY <1>13, TakenMessage
  <2>2. routing' \in Routings \union {None}
    <3> DEFINE m == Head(tasks).message
               to == Route(Target[m])
    <3>1. routing' = IF to = None THEN None ELSE [message |-> m, to |-> to]
      BY <1>13 DEF RouteLookup
    <3>2. to \in Inboxes \union {None} BY <2>1, RouteType
    <3> HIDE DEF to
    <3>3. QED BY <2>1, <3>1, <3>2 DEF Routings
  <2>3. QED BY <1>13, <2>1, <2>2 DEF RouteLookup, threads, manager, clear, pipeline
<1>18. CASE Put
  <2>1. routing.to \in Inboxes /\ routing.message \in Messages BY <1>18 DEF Put, Routings
  <2>2. contents' \in [Inboxes -> Seq(Messages)]
    BY <1>18, <2>1, AppendHolds DEF Put
  <2>3. QED BY <1>18, <2>2 DEF Put, threads, clear, pipeline
<1>19. ASSUME NEW m \in Messages, CannotParse(m) PROVE TypeOK'
  <2>1. faults' \in 0..MaxFaults BY <1>19 DEF CannotParse, Fault
  <2>2. QED BY <1>19, <2>1 DEF CannotParse, threads, manager, clear
<1>14. CASE ClearGeneric
  <2>1. clearing' \subseteq Receivers /\ grown' = grown
    BY <1>14 DEF ClearGeneric, NamedToClear, Names
  <2>2. contents' \in [Inboxes -> Seq(Messages)] /\ tasks' \in Seq(Tasks)
    BY <1>14, TailHolds, EmptySeq DEF ClearGeneric, Take
  <2>3. QED BY <1>14, <2>1, <2>2 DEF ClearGeneric, threads, pipeline
<1>15. ASSUME NEW i \in Receivers, ClearNamed(i) PROVE TypeOK'
  BY <1>15 DEF ClearNamed, threads, manager, clear, pipeline
<1>16. CASE ClearEnds BY <1>16 DEF ClearEnds, threads, manager, clear, pipeline
<1>17. CASE UNCHANGED vars BY <1>17 DEF vars, threads, manager, clear, pipeline
<1>20. QED
  BY <1>1, <1>2, <1>3, <1>4, <1>5, <1>6, <1>7, <1>8, <1>9,
     <1>10, <1>11, <1>12, <1>13, <1>14, <1>15, <1>16, <1>17, <1>18, <1>19
  DEF Next, Receive, CallbackThread

(* The subscription of a call ends before its thread goes on, and once the *)
(* broker knows it.                                                        *)
LEMMA FlagsStep ==
  TypeOK /\ FlagsTrue /\ EndsOnce /\ [Next]_vars => FlagsTrue'
<1> SUFFICES ASSUME TypeOK, FlagsTrue, EndsOnce, [Next]_vars PROVE FlagsTrue' OBVIOUS
<1> USE ClientAssumption, Kinds DEF TypeOK, FlagsTrue
<1>1. ASSUME NEW c \in Receivers, CheckFeature(c) PROVE FlagsTrue'
  BY <1>1 DEF CheckFeature, Go, threads, manager, clear, pipeline
<1>2. ASSUME NEW c \in Receivers, EnableFeature(c) PROVE FlagsTrue'
  BY <1>2 DEF EnableFeature, Go, threads, manager, clear, pipeline
<1>3. ASSUME NEW c \in Receivers, Lookup(c) PROVE FlagsTrue'
  <2>1. Found(c) BY <1>3, LookupCases
  <2>2. CASE at' = [at EXCEPT ![c] = "create"] /\ inbox' = inbox /\ Target[c] \in Names
    BY <2>1, <2>2 DEF Found
  <2>3. ASSUME NEW i \in Inboxes,
               at' = [at EXCEPT ![c] = "waiting"], inbox' = [inbox EXCEPT ![c] = i],
               \/ Target[c] \in Fixed /\ i = Target[c]
               \/ Target[c] \in Names /\ i = named[Target[c]] /\ i \in Receivers
        PROVE  FlagsTrue'
    BY <2>1, <2>3 DEF Found
  <2>4. QED BY <2>1, <2>2, <2>3 DEF Found
<1>4. ASSUME NEW c \in Receivers, Create(c) PROVE FlagsTrue'
  BY <1>4 DEF Create, Register, Go, threads, manager, clear, pipeline
<1>5. ASSUME NEW c \in Receivers, Get(c) PROVE FlagsTrue'
  BY <1>5 DEF Get, threads, manager, clear, pipeline
<1>6. ASSUME NEW c \in Receivers, GiveUp(c) PROVE FlagsTrue'
  BY <1>6 DEF GiveUp, threads, manager, clear, pipeline
<1>7. ASSUME NEW c \in Commands, RunCommand(c) PROVE FlagsTrue'
  BY <1>7 DEF RunCommand, Go, threads, manager, clear, pipeline
<1>8. ASSUME NEW c \in Calls, RunOp(c) PROVE FlagsTrue'
  BY <1>8 DEF RunOp, Subscribe, threads, manager, clear, pipeline
<1>9. ASSUME NEW c \in Calls, OpFails(c) PROVE FlagsTrue'
  BY <1>9 DEF OpFails, Fault, threads, manager, clear, pipeline
<1>10. CASE ConnectionLost
  BY <1>10 DEF ConnectionLost, Fault, threads, manager, clear, pipeline
<1>11. ASSUME NEW m \in Messages, Deliver(m) PROVE FlagsTrue'
  BY <1>11 DEF Deliver, threads, manager, clear, pipeline
<1>12. CASE Complete
  <2>1. tasks # <<>> /\ Head(tasks).what = "done"
    BY <1>12 DEF Complete, Take
  <2>2. PICK c \in Calls : c = Head(tasks).of /\ tasks[1] = Done(c) /\ 1 \in 1..Len(tasks)
    BY <2>1, TaskKinds, TailHolds
  <2>3. /\ at' = [at EXCEPT ![c] = IF c \in Receivers THEN "lookup" ELSE "returned"]
        /\ UNCHANGED <<featureEnabled, subscribed>>
    BY <1>12, <2>2 DEF Complete, pipeline
  <2>4. CASE c \in Receivers
    <3>1. at[c] = "subscribing" /\ FeatureOf(c) \in subscribed BY <2>2, <2>4 DEF EndsOnce
    <3>2. QED BY <2>3, <2>4, <3>1
  <2>5. CASE c \notin Receivers BY <2>3, <2>5
  <2>6. QED BY <2>4, <2>5
<1>13. CASE RouteLookup
  BY <1>13 DEF RouteLookup, Take, threads, manager, clear, pipeline
<1>18. CASE Put BY <1>18 DEF Put, threads, clear, pipeline
<1>19. ASSUME NEW m \in Messages, CannotParse(m) PROVE FlagsTrue'
  BY <1>19 DEF CannotParse, threads, manager, clear
<1>14. CASE ClearGeneric
  BY <1>14 DEF ClearGeneric, NamedToClear, Take, threads, manager, clear, pipeline
<1>15. ASSUME NEW i \in Receivers, ClearNamed(i) PROVE FlagsTrue'
  BY <1>15 DEF ClearNamed, threads, manager, clear, pipeline
<1>16. CASE ClearEnds BY <1>16 DEF ClearEnds, threads, manager, clear, pipeline
<1>17. CASE UNCHANGED vars BY <1>17 DEF vars, threads, manager, clear, pipeline
<1>20. QED
  BY <1>1, <1>2, <1>3, <1>4, <1>5, <1>6, <1>7, <1>8, <1>9,
     <1>10, <1>11, <1>12, <1>13, <1>14, <1>15, <1>16, <1>17, <1>18, <1>19
  DEF Next, Receive, CallbackThread

(* An operation leaves the pipeline when its end is put among the tasks,   *)
(* or fails; no call has two.                                              *)
LEMMA EndsStep ==
  TypeOK /\ EndsOnce /\ [Next]_vars => EndsOnce'
<1> SUFFICES ASSUME TypeOK, EndsOnce, [Next]_vars PROVE EndsOnce' OBVIOUS
<1> USE ClientAssumption, Kinds, TaskKinds DEF TypeOK, EndsOnce
<1>1. ASSUME NEW c \in Receivers, CheckFeature(c) PROVE EndsOnce'
  BY <1>1 DEF CheckFeature, Go, threads, manager, clear, pipeline
<1>2. ASSUME NEW c \in Receivers, EnableFeature(c) PROVE EndsOnce'
  BY <1>2 DEF EnableFeature, Go, threads, manager, clear, pipeline
<1>3. ASSUME NEW c \in Receivers, Lookup(c) PROVE EndsOnce'
  BY <1>3 DEF Lookup, Go, threads, manager, clear, pipeline
<1>4. ASSUME NEW c \in Receivers, Create(c) PROVE EndsOnce'
  BY <1>4 DEF Create, Register, Go, threads, manager, clear, pipeline
<1>5. ASSUME NEW c \in Receivers, Get(c) PROVE EndsOnce'
  BY <1>5 DEF Get, threads, manager, clear, pipeline
<1>6. ASSUME NEW c \in Receivers, GiveUp(c) PROVE EndsOnce'
  BY <1>6 DEF GiveUp, threads, manager, clear, pipeline
<1>7. ASSUME NEW c \in Commands, RunCommand(c) PROVE EndsOnce'
  BY <1>7 DEF RunCommand, Go, threads, manager, clear, pipeline
<1>8. ASSUME NEW c \in Calls, RunOp(c) PROVE EndsOnce'
  <2>1. UNCHANGED at /\ c \in ops /\ ops' = ops \ {c} /\ subscribed \subseteq subscribed'
    BY <1>8 DEF RunOp, Subscribe, threads
  <2>2. CASE c \in Receivers
    <3>1. tasks' = Append(tasks, Done(c)) /\ FeatureOf(c) \in subscribed'
      BY <1>8, <2>2 DEF RunOp, Subscribe, Commands
    <3>2. /\ Len(tasks) \in Nat /\ Len(tasks') = Len(tasks) + 1
          /\ \A k \in 1..Len(tasks) : tasks'[k] = tasks[k]
          /\ tasks'[Len(tasks) + 1] = Done(c)
      BY <3>1, AppendHolds
    <3>3. at[c] = "subscribing" /\ \A k \in 1..Len(tasks) : tasks[k] # Done(c)
      BY <2>1, <2>2
    <3>4. \A d \in Receivers : d # c => Done(d) # Done(c) OBVIOUS
    <3>5. ASSUME NEW d \in Receivers, NEW k \in 1..Len(tasks'), tasks'[k] = Done(d)
          PROVE  \/ d = c /\ k = Len(tasks) + 1
                 \/ d # c /\ k \in 1..Len(tasks) /\ tasks[k] = Done(d)
      <4>1. CASE k = Len(tasks) + 1 BY <3>2, <3>4, <3>5, <4>1
      <4>2. CASE k # Len(tasks) + 1
        <5>1. k \in 1..Len(tasks) BY <3>2, <4>2
        <5>2. tasks[k] = Done(d) BY <3>2, <3>5, <5>1
        <5>3. QED BY <3>3, <5>1, <5>2
      <4>3. QED BY <4>1, <4>2
    <3>6. ASSUME NEW d \in Receivers \intersect ops'
          PROVE  at'[d] = "subscribing" /\ \A k \in 1..Len(tasks') : tasks'[k] # Done(d)
      <4>1. d # c /\ d \in ops BY <2>1
      <4>2. QED BY <2>1, <3>5, <4>1
    <3>7. ASSUME NEW d \in Receivers, NEW k \in 1..Len(tasks'), tasks'[k] = Done(d)
          PROVE  /\ at'[d] = "subscribing" /\ FeatureOf(d) \in subscribed'
                 /\ \A j \in 1..Len(tasks') : tasks'[j] = Done(d) => j = k
      <4>1. CASE d = c BY <2>1, <3>1, <3>3, <3>5, <3>7, <4>1
      <4>2. CASE d # c
        <5>1. k \in 1..Len(tasks) /\ tasks[k] = Done(d) BY <3>5, <3>7, <4>2
        <5>2. QED BY <2>1, <3>5, <4>2, <5>1
      <4>3. QED BY <4>1, <4>2
    <3>8. QED BY <3>6, <3>7
  <2>3. CASE c \notin Receivers
    <3>1. PICK new \in Seq(Tasks) :
            /\ tasks' = tasks \o new
            /\ \A d \in Receivers : \A k \in 1..Len(new) : new[k] # Done(d)
      <4>1. ASSUME NEW d \in Receivers PROVE Done(c) # Done(d) /\ Lost # Done(d)
        <5>1. d \in Calls /\ d # c BY <2>3
        <5>2. QED BY <5>1
      <4>2. CASE tasks' = tasks \o <<Done(c)>>
        <5> DEFINE one == <<Done(c)>>
        <5>1. one \in Seq(Tasks) /\ Len(one) = 1 /\ one[1] = Done(c) OBVIOUS
        <5>2. tasks' = tasks \o one BY <4>2
        <5> HIDE DEF one
        <5>3. \A d \in Receivers : \A k \in 1..Len(one) : one[k] # Done(d) BY <4>1, <5>1
        <5>4. QED BY <5>1, <5>2, <5>3
      <4>3. CASE tasks' = tasks \o DisconnectTasks(c)
        <5> DEFINE two == DisconnectTasks(c)
        <5>1. two \in Seq(Tasks) /\ Len(two) = 2 /\ two[1] = Lost /\ two[2] = Done(c)
          BY DEF DisconnectTasks
        <5>2. tasks' = tasks \o two BY <4>3
        <5> HIDE DEF two
        <5>3. \A d \in Receivers : \A k \in 1..Len(two) : two[k] # Done(d) BY <4>1, <5>1
        <5>4. QED BY <5>1, <5>2, <5>3
      <4>4. QED BY <1>8, <4>2, <4>3 DEF RunOp
    <3>2. /\ Len(tasks) \in Nat /\ Len(new) \in Nat /\ Len(tasks') = Len(tasks) + Len(new)
          /\ \A k \in 1..Len(tasks) + Len(new) :
               tasks'[k] = IF k <= Len(tasks) THEN tasks[k] ELSE new[k - Len(tasks)]
      BY <3>1, ConcatProperties, LenProperties
    <3>3. ASSUME NEW d \in Receivers, NEW k \in 1..Len(tasks'), tasks'[k] = Done(d)
          PROVE  k \in 1..Len(tasks) /\ tasks[k] = Done(d)
      <4>1. CASE k <= Len(tasks) BY <3>2, <3>3, <4>1
      <4>2. CASE ~(k <= Len(tasks))
        <5>1. k - Len(tasks) \in 1..Len(new) /\ tasks'[k] = new[k - Len(tasks)]
          BY <3>2, <4>2
        <5>2. \A j \in 1..Len(new) : new[j] # Done(d) BY <3>1
        <5>3. new[k - Len(tasks)] # Done(d) BY <5>1, <5>2
        <5>4. QED BY <3>3, <5>1, <5>3
      <4>3. QED BY <4>1, <4>2
    <3>4. ASSUME NEW d \in Receivers \intersect ops'
          PROVE  at'[d] = "subscribing" /\ \A k \in 1..Len(tasks') : tasks'[k] # Done(d)
      BY <2>1, <3>3
    <3>5. ASSUME NEW d \in Receivers, NEW k \in 1..Len(tasks'), tasks'[k] = Done(d)
          PROVE  /\ at'[d] = "subscribing" /\ FeatureOf(d) \in subscribed'
                 /\ \A j \in 1..Len(tasks') : tasks'[j] = Done(d) => j = k
      <4>1. k \in 1..Len(tasks) /\ tasks[k] = Done(d) BY <3>3, <3>5
      <4>2. QED BY <2>1, <3>3, <4>1
    <3>6. QED BY <3>4, <3>5
  <2>4. QED BY <2>2, <2>3
<1>9. ASSUME NEW c \in Calls, OpFails(c) PROVE EndsOnce'
  BY <1>9 DEF OpFails, Fault, threads, manager, clear, pipeline
<1>10. CASE ConnectionLost
  BY <1>10 DEF ConnectionLost, Fault, threads, manager, clear, pipeline
<1>11. ASSUME NEW m \in Messages, Deliver(m) PROVE EndsOnce'
  BY <1>11 DEF Deliver, threads, manager, clear, pipeline
<1>12. CASE Complete BY <1>12 DEF Complete, Take, threads, manager, clear, pipeline
<1>13. CASE RouteLookup
  <2>1. UNCHANGED <<at, ops, subscribed>> BY <1>13 DEF RouteLookup, threads, pipeline
  <2>2. tasks # <<>> /\ tasks' = Tail(tasks) BY <1>13 DEF RouteLookup, Take
  <2>3. /\ Len(tasks) \in Nat /\ Len(tasks') = Len(tasks) - 1
        /\ \A k \in 1..Len(tasks') : k + 1 \in 1..Len(tasks) /\ tasks'[k] = tasks[k + 1]
    BY <2>2, TailHolds
  <2>4. QED BY <2>1, <2>3
<1>18. CASE Put BY <1>18 DEF Put, threads, clear, pipeline
<1>19. ASSUME NEW m \in Messages, CannotParse(m) PROVE EndsOnce'
  BY <1>19 DEF CannotParse, threads, manager, clear
<1>14. CASE ClearGeneric
  BY <1>14 DEF ClearGeneric, NamedToClear, Take, threads, manager, clear, pipeline
<1>15. ASSUME NEW i \in Receivers, ClearNamed(i) PROVE EndsOnce'
  BY <1>15 DEF ClearNamed, threads, manager, clear, pipeline
<1>16. CASE ClearEnds BY <1>16 DEF ClearEnds, threads, manager, clear, pipeline
<1>17. CASE UNCHANGED vars BY <1>17 DEF vars, threads, manager, clear, pipeline
<1>20. QED
  BY <1>1, <1>2, <1>3, <1>4, <1>5, <1>6, <1>7, <1>8, <1>9,
     <1>10, <1>11, <1>12, <1>13, <1>14, <1>15, <1>16, <1>17, <1>18, <1>19
  DEF Next, Receive, CallbackThread

(* An inbox is put into the dictionary under the name that its call asked  *)
(* for, and calls for that name find it or one made at the same time.      *)
LEMMA InboxesStep ==
  TypeOK /\ EndsOnce /\ InboxesNamed /\ [Next]_vars => InboxesNamed'
<1> SUFFICES ASSUME TypeOK, EndsOnce, InboxesNamed, [Next]_vars PROVE InboxesNamed' OBVIOUS
<1> USE ClientAssumption, Kinds DEF TypeOK, InboxesNamed, Purpose
<1>1. ASSUME NEW c \in Receivers, CheckFeature(c) PROVE InboxesNamed'
  BY <1>1 DEF CheckFeature, Go, threads, manager, clear, pipeline
<1>2. ASSUME NEW c \in Receivers, EnableFeature(c) PROVE InboxesNamed'
  BY <1>2 DEF EnableFeature, Go, threads, manager, clear, pipeline
<1>3. ASSUME NEW c \in Receivers, Lookup(c) PROVE InboxesNamed'
  <2>1. Found(c) BY <1>3, LookupCases
  <2>2. CASE at' = [at EXCEPT ![c] = "create"] /\ inbox' = inbox /\ Target[c] \in Names
    BY <2>1, <2>2 DEF Found
  <2>3. ASSUME NEW i \in Inboxes,
               at' = [at EXCEPT ![c] = "waiting"], inbox' = [inbox EXCEPT ![c] = i],
               \/ Target[c] \in Fixed /\ i = Target[c]
               \/ Target[c] \in Names /\ i = named[Target[c]] /\ i \in Receivers
        PROVE  InboxesNamed'
    BY <2>1, <2>3 DEF Found
  <2>4. QED BY <2>1, <2>2, <2>3 DEF Found
<1>4. ASSUME NEW c \in Receivers, Create(c) PROVE InboxesNamed'
  BY <1>4 DEF Create, Register, Go, threads, manager, clear, pipeline
<1>5. ASSUME NEW c \in Receivers, Get(c) PROVE InboxesNamed'
  BY <1>5 DEF Get, threads, manager, clear, pipeline
<1>6. ASSUME NEW c \in Receivers, GiveUp(c) PROVE InboxesNamed'
  BY <1>6 DEF GiveUp, threads, manager, clear, pipeline
<1>7. ASSUME NEW c \in Commands, RunCommand(c) PROVE InboxesNamed'
  BY <1>7 DEF RunCommand, Go, threads, manager, clear, pipeline
<1>8. ASSUME NEW c \in Calls, RunOp(c) PROVE InboxesNamed'
  BY <1>8 DEF RunOp, Subscribe, threads, manager, clear, pipeline
<1>9. ASSUME NEW c \in Calls, OpFails(c) PROVE InboxesNamed'
  BY <1>9 DEF OpFails, Fault, threads, manager, clear, pipeline
<1>10. CASE ConnectionLost
  BY <1>10 DEF ConnectionLost, Fault, threads, manager, clear, pipeline
<1>11. ASSUME NEW m \in Messages, Deliver(m) PROVE InboxesNamed'
  BY <1>11 DEF Deliver, threads, manager, clear, pipeline
<1>12. CASE Complete
  <2>1. tasks # <<>> /\ Head(tasks).what = "done"
    BY <1>12 DEF Complete, Take
  <2>2. PICK c \in Calls : c = Head(tasks).of /\ tasks[1] = Done(c) /\ 1 \in 1..Len(tasks)
    <3>1. Head(tasks) \in Tasks /\ Head(tasks) = tasks[1] /\ 1 \in 1..Len(tasks)
      BY <2>1, TailHolds
    <3>2. QED BY <2>1, <3>1, TaskKinds
  <2>3. /\ at' = [at EXCEPT ![c] = IF c \in Receivers THEN "lookup" ELSE "returned"]
        /\ UNCHANGED <<named, inbox, routing>>
    BY <1>12, <2>2 DEF Complete, manager
  <2>4. CASE c \in Receivers
    <3>1. at[c] = "subscribing" BY <2>2, <2>4 DEF EndsOnce
    <3>2. QED BY <2>3, <2>4, <3>1
  <2>5. CASE c \notin Receivers BY <2>3, <2>5
  <2>6. QED BY <2>4, <2>5
<1>13. CASE RouteLookup
  <2>1. UNCHANGED <<at, named, inbox>> BY <1>13 DEF RouteLookup, threads, manager
  <2>2. ASSUME routing' # None, routing'.to \in Receivers
        PROVE  inbox[routing'.to] = routing'.to
    <3> DEFINE m == Head(tasks).message
               to == Route(Target[m])
    <3>1. routing'.to = to BY <1>13, <2>2 DEF RouteLookup
    <3>2. m \in Messages BY <1>13, TakenMessage
    <3>3. to \in Receivers => inbox[to] = to BY <3>2, RouteType
    <3>4. QED BY <2>2, <3>1, <3>3
  <2>3. QED BY <2>1, <2>2
<1>18. CASE Put BY <1>18 DEF Put, threads, clear, pipeline
<1>19. ASSUME NEW m \in Messages, CannotParse(m) PROVE InboxesNamed'
  BY <1>19 DEF CannotParse, threads, manager, clear
<1>14. CASE ClearGeneric
  BY <1>14 DEF ClearGeneric, NamedToClear, Take, threads, manager, clear, pipeline
<1>15. ASSUME NEW i \in Receivers, ClearNamed(i) PROVE InboxesNamed'
  BY <1>15 DEF ClearNamed, threads, manager, clear, pipeline
<1>16. CASE ClearEnds BY <1>16 DEF ClearEnds, threads, manager, clear, pipeline
<1>17. CASE UNCHANGED vars BY <1>17 DEF vars, threads, manager, clear, pipeline
<1>20. QED
  BY <1>1, <1>2, <1>3, <1>4, <1>5, <1>6, <1>7, <1>8, <1>9,
     <1>10, <1>11, <1>12, <1>13, <1>14, <1>15, <1>16, <1>17, <1>18, <1>19
  DEF Next, Receive, CallbackThread

(* Messages are put into an inbox that is meant for them, and calls take   *)
(* them out of the inbox of their target.                                  *)
LEMMA OwnMessagesStep ==
  TypeOK /\ InboxesNamed /\ OnlyOwnMessages /\ [Next]_vars => OnlyOwnMessages'
<1> SUFFICES ASSUME TypeOK, InboxesNamed, OnlyOwnMessages, [Next]_vars
             PROVE  OnlyOwnMessages'
  OBVIOUS
<1> USE ClientAssumption, Kinds DEF TypeOK, OnlyOwnMessages
<1>1. ASSUME NEW c \in Receivers, CheckFeature(c) PROVE OnlyOwnMessages'
  BY <1>1 DEF CheckFeature, Go, threads, manager, clear, pipeline
<1>2. ASSUME NEW c \in Receivers, EnableFeature(c) PROVE OnlyOwnMessages'
  BY <1>2 DEF EnableFeature, Go, threads, manager, clear, pipeline
<1>3. ASSUME NEW c \in Receivers, Lookup(c) PROVE OnlyOwnMessages'
  BY <1>3 DEF Lookup, Go, threads, manager, clear, pipeline
<1>4. ASSUME NEW c \in Receivers, Create(c) PROVE OnlyOwnMessages'
  BY <1>4 DEF Create, Register, Go, threads, manager, clear, pipeline
<1>5. ASSUME NEW c \in Receivers, Get(c) PROVE OnlyOwnMessages'
  <2> DEFINE i == inbox[c]
             waiting == contents[i]
  <2>1. i \in Inboxes /\ Purpose(i) = Target[c] /\ waiting # <<>> /\ waiting \in Seq(Messages)
    BY <1>5 DEF Get, InboxesNamed
  <2>2. /\ received' = [received EXCEPT ![c] = Head(waiting)]
        /\ contents' = [contents EXCEPT ![i] = Tail(waiting)]
    BY <1>5 DEF Get
  <2>3. /\ Head(waiting) = waiting[1] /\ 1 \in 1..Len(waiting)
        /\ \A k \in 1..Len(Tail(waiting)) :
             k + 1 \in 1..Len(waiting) /\ Tail(waiting)[k] = waiting[k + 1]
    BY <2>1, TailHolds
  <2>4. ASSUME NEW j \in Inboxes, NEW k \in 1..Len(contents'[j])
        PROVE  MeantFor(contents'[j][k], Purpose(j))
    <3>1. CASE j = i BY <2>1, <2>2, <2>3, <2>4, <3>1
    <3>2. CASE j # i BY <2>1, <2>2, <2>4, <3>2
    <3>3. QED BY <3>1, <3>2
  <2>5. ASSUME NEW d \in Receivers, received'[d] # None
        PROVE  MeantFor(received'[d], Target[d])
    <3>1. CASE d = c
      <4>1. MeantFor(waiting[1], Purpose(i)) BY <2>1, <2>3
      <4>2. QED BY <2>1, <2>2, <2>3, <3>1, <4>1
    <3>2. CASE d # c BY <2>2, <2>5, <3>2
    <3>3. QED BY <3>1, <3>2
  <2>6. UNCHANGED routing BY <1>5 DEF Get
  <2>7. routing # None => MeantFor(routing.message, Purpose(routing.to)) OBVIOUS
  <2> HIDE DEF i, waiting
  <2>8. QED BY <2>4, <2>5, <2>6, <2>7
<1>6. ASSUME NEW c \in Receivers, GiveUp(c) PROVE OnlyOwnMessages'
  BY <1>6 DEF GiveUp, threads, manager, clear, pipeline
<1>7. ASSUME NEW c \in Commands, RunCommand(c) PROVE OnlyOwnMessages'
  BY <1>7 DEF RunCommand, Go, threads, manager, clear, pipeline
<1>8. ASSUME NEW c \in Calls, RunOp(c) PROVE OnlyOwnMessages'
  BY <1>8 DEF RunOp, Subscribe, threads, manager, clear, pipeline
<1>9. ASSUME NEW c \in Calls, OpFails(c) PROVE OnlyOwnMessages'
  BY <1>9 DEF OpFails, Fault, threads, manager, clear, pipeline
<1>10. CASE ConnectionLost
  BY <1>10 DEF ConnectionLost, Fault, threads, manager, clear, pipeline
<1>11. ASSUME NEW m \in Messages, Deliver(m) PROVE OnlyOwnMessages'
  BY <1>11 DEF Deliver, threads, manager, clear, pipeline
<1>12. CASE Complete BY <1>12 DEF Complete, Take, threads, manager, clear, pipeline
<1>13. CASE RouteLookup
  <2>1. UNCHANGED <<received, contents>> BY <1>13 DEF RouteLookup, threads, manager
  <2>2. ASSUME routing' # None PROVE MeantFor(routing'.message, Purpose(routing'.to))
    <3> DEFINE m == Head(tasks).message
               to == Route(Target[m])
    <3>1. to # None /\ routing' = [message |-> m, to |-> to] BY <1>13, <2>2 DEF RouteLookup
    <3>2. m \in Messages BY <1>13, TakenMessage
    <3>3. MeantFor(m, Purpose(to)) BY <3>1, <3>2, RouteType
    <3>4. routing'.message = m /\ routing'.to = to BY <3>1
    <3>5. QED BY <3>3, <3>4
  <2>3. QED BY <2>1, <2>2
<1>18. CASE Put
  <2>1. PICK m \in Messages, to \in Inboxes : m = routing.message /\ to = routing.to
    BY <1>18 DEF Put, Routings
  <2>2. MeantFor(m, Purpose(to)) BY <1>18, <2>1 DEF Put
  <2>3. UNCHANGED received /\ routing' = None BY <1>18 DEF Put, threads
  <2>4. contents' = [contents EXCEPT ![to] = Append(contents[to], m)] BY <1>18, <2>1 DEF Put
  <2>5. /\ Len(contents[to]) \in Nat
        /\ Len(contents'[to]) = Len(contents[to]) + 1
        /\ \A k \in 1..Len(contents[to]) : contents'[to][k] = contents[to][k]
        /\ contents'[to][Len(contents[to]) + 1] = m
    BY <2>4, AppendHolds
  <2>6. ASSUME NEW j \in Inboxes, NEW k \in 1..Len(contents'[j])
        PROVE  MeantFor(contents'[j][k], Purpose(j))
    <3>1. CASE j = to /\ k = Len(contents[to]) + 1 BY <2>2, <2>5, <3>1
    <3>2. CASE j = to /\ k # Len(contents[to]) + 1
      <4>1. k \in 1..Len(contents[to]) BY <2>5, <2>6, <3>2
      <4>2. QED BY <2>5, <3>2, <4>1
    <3>3. CASE j # to BY <2>4, <2>6, <3>3
    <3>4. QED BY <3>1, <3>2, <3>3
  <2>7. QED BY <2>3, <2>6
<1>19. ASSUME NEW m \in Messages, CannotParse(m) PROVE OnlyOwnMessages'
  BY <1>19 DEF CannotParse, threads, manager, clear
<1>14. CASE ClearGeneric
  BY <1>14 DEF ClearGeneric, NamedToClear, Take, threads, manager, clear, pipeline
<1>15. ASSUME NEW i \in Receivers, ClearNamed(i) PROVE OnlyOwnMessages'
  BY <1>15 DEF ClearNamed, threads, manager, clear, pipeline
<1>16. CASE ClearEnds BY <1>16 DEF ClearEnds, threads, manager, clear, pipeline
<1>17. CASE UNCHANGED vars BY <1>17 DEF vars, threads, manager, clear, pipeline
<1>20. QED
  BY <1>1, <1>2, <1>3, <1>4, <1>5, <1>6, <1>7, <1>8, <1>9,
     <1>10, <1>11, <1>12, <1>13, <1>14, <1>15, <1>16, <1>17, <1>18, <1>19
  DEF Next, Receive, CallbackThread

-----------------------------------------------------------------------------
(* The invariant of the clients, for any calls, messages and names.        *)
THEOREM ClientCorrect == Spec => []ClientInv
<1>1. ClientInv /\ [Next]_vars => ClientInv'
  BY TypeStep, FlagsStep, EndsStep, InboxesStep, OwnMessagesStep DEF ClientInv
<1>2. QED BY InitInv, <1>1, PTL DEF Spec

(* A call that looks for an inbox or waits on one has its feature          *)
(* subscribed to, unless another call still waits for the subscription.    *)
THEOREM EnablesFirstHolds == Spec => []EnablesFirst
<1>1. ClientInv => EnablesFirst BY DEF ClientInv, FlagsTrue, EnablesFirst
<1>2. QED BY ClientCorrect, <1>1, PTL

(* A call waits where the messages for it are put, unless two calls made   *)
(* an inbox for the same name.                                             *)
THEOREM WaitsWhereRoutedHolds == Spec => []WaitsWhereRouted
<1>1. ASSUME ClientInv, NEW c \in Receivers, at[c] = "waiting"
      PROVE  \/ inbox[c] = Route(Target[c])
             \/ \E d \in Receivers \ {c} : /\ Target[d] = Target[c]
                                           /\ named[Target[c]] = d /\ inbox[d] = d
  <2> USE <1>1, Kinds DEF ClientInv, TypeOK, InboxesNamed
  <2>1. Target[c] \in Names \union Fixed /\ inbox[c] # None OBVIOUS
  <2>2. CASE Target[c] \in Fixed BY <2>1, <2>2, Routes
  <2>3. CASE Target[c] \in Names
    <3>1. named[Target[c]] # None BY <2>1, <2>3
    <3>2. Route(Target[c]) = named[Target[c]] BY <2>3, <3>1, Routes
    <3>3. QED BY <2>3, <3>1, <3>2
  <2>4. QED BY <2>1, <2>2, <2>3
<1>2. ClientInv => WaitsWhereRouted BY <1>1 DEF WaitsWhereRouted
<1>3. QED BY ClientCorrect, <1>2, PTL

(* A request or message of an input that is looked up when a call has an   *)
(* inbox for its name is put into the inbox of such a call.                *)
THEOREM TargetedIsFoundHolds == Spec => TargetedIsFound
<1> DEFINE Finds ==
      \A m \in Messages :
        /\ RouteLookup /\ Head(tasks).message = m
        /\ Target[m] \in Names /\ Targeted(m)
        => /\ routing' # None /\ routing'.to \in Receivers
           /\ Target[routing'.to] = Target[m] /\ inbox[routing'.to] = routing'.to
<1>1. ClientInv => Finds
  <2> SUFFICES ASSUME ClientInv, NEW m \in Messages, RouteLookup, Head(tasks).message = m,
                      Target[m] \in Names,
                      NEW c \in Receivers, Target[c] = Target[m], inbox[c] # None
               PROVE  /\ routing' # None /\ routing'.to \in Receivers
                      /\ Target[routing'.to] = Target[m] /\ inbox[routing'.to] = routing'.to
    BY DEF Targeted
  <2> USE Kinds DEF ClientInv, TypeOK, InboxesNamed
  <2>1. PICK i \in Receivers : i = named[Target[m]] /\ Target[i] = Target[m] /\ inbox[i] = i
    OBVIOUS
  <2>2. Route(Target[m]) = i /\ i # None BY <2>1, Routes
  <2>3. routing' = [message |-> m, to |-> i]
    <3> DEFINE to == Route(Target[m])
    <3>1. routing' = IF to = None THEN None ELSE [message |-> m, to |-> to]
      BY DEF RouteLookup
    <3> HIDE DEF to
    <3>2. to = i BY <2>2 DEF to
    <3>3. QED BY <2>2, <3>1, <3>2
  <2>4. [message |-> m, to |-> i] \in Routings BY DEF Routings
  <2>5. routing' # None BY <2>3, <2>4, NoneAssumption
  <2>6. QED BY <2>1, <2>3, <2>5
<1>2. QED BY ClientCorrect, <1>1, PTL DEF Spec, TargetedIsFound

-----------------------------------------------------------------------------
(* disconnect returns with the inboxes of method requests empty: the task  *)
(* that clears them is before its own end in the queue of the callback     *)
(* thread, and no message between.                                         *)

(* Among the first n tasks of s there is no message; or a loss of the      *)
(* connection and no message after it.                                     *)
NoMessage(s, n) == \A i \in 1..n : s[i].what # "message"
LostLast(s, n) ==
  \E j \in 1..n : s[j] = Lost /\ \A i \in 1..n : j < i => s[i].what # "message"

(* The inboxes of method requests are empty, those being cleared excepted, *)
(* and no message is about to be put into one.                             *)
Cleared ==
  \/ interrupted
  \/ /\ routing = None /\ contents["methods"] = <<>>
     /\ \A i \in NamedToClear : clearing = None \/ i \notin clearing => contents[i] = <<>>

(* After the first n tasks they are.                                       *)
ClearedAfter(n) == LostLast(tasks, n) \/ (Cleared /\ NoMessage(tasks, n))

(* The end of a disconnect is behind the clearing, without a connection no *)
(* message follows it, and nothing is put into an inbox before it is made. *)
EndsCleared ==
  \A k \in 1..Len(tasks) : \A d \in Disconnects : tasks[k] = Done(d) => ClearedAfter(k - 1)
QuietOffline == ~connected => ClearedAfter(Len(tasks))
NotMadeEmpty == \A c \in Receivers : inbox[c] # c => contents[c] = <<>>

ClearInv == EndsCleared /\ QuietOffline /\ NotMadeEmpty

-----------------------------------------------------------------------------
(* What is appended changes nothing of the tasks before it.                *)
LEMMA AppendKeeps ==
  ASSUME NEW s \in Seq(Tasks), NEW e \in Tasks, NEW n \in 0..Len(s)
  PROVE  /\ LostLast(s, n) => LostLast(Append(s, e), n)
         /\ NoMessage(s, n) => NoMessage(Append(s, e), n)
<1>1. \A k \in 1..n : Append(s, e)[k] = s[k] BY AppendHolds
<1>2. QED BY <1>1 DEF LostLast, NoMessage

(* A task that is no message leaves what was said of those before it, and  *)
(* a loss of the connection has nothing after it.                          *)
LEMMA AppendExtends ==
  ASSUME NEW s \in Seq(Tasks), NEW e \in Tasks, e.what # "message"
  PROVE  /\ LostLast(s, Len(s)) => LostLast(Append(s, e), Len(s) + 1)
         /\ NoMessage(s, Len(s)) => NoMessage(Append(s, e), Len(s) + 1)
         /\ e = Lost => LostLast(Append(s, e), Len(s) + 1)
<1>1. /\ Len(s) \in Nat /\ Append(s, e)[Len(s) + 1] = e
      /\ \A k \in 1..Len(s) : Append(s, e)[k] = s[k]
  BY AppendHolds
<1>2. \A k \in 1..(Len(s) + 1) : k \in 1..Len(s) \/ k = Len(s) + 1 BY <1>1
<1>3. NoMessage(s, Len(s)) => NoMessage(Append(s, e), Len(s) + 1)
  BY <1>1, <1>2 DEF NoMessage
<1>4. ASSUME LostLast(s, Len(s)) PROVE LostLast(Append(s, e), Len(s) + 1)
  <2>1. PICK j \in 1..Len(s) : s[j] = Lost /\ \A i \in 1..Len(s) : j < i => s[i].what # "message"
    BY <1>4 DEF LostLast
  <2>2. j \in 1..(Len(s) + 1) /\ Append(s, e)[j] = Lost BY <1>1, <2>1
  <2>3. \A i \in 1..(Len(s) + 1) : j < i => Append(s, e)[i].what # "message"
    BY <1>1, <1>2, <2>1
  <2>4. QED BY <2>2, <2>3 DEF LostLast
<1>5. ASSUME e = Lost PROVE LostLast(Append(s, e), Len(s) + 1)
  <2>1. Len(s) + 1 \in 1..(Len(s) + 1) /\ Append(s, e)[Len(s) + 1] = Lost BY <1>1, <1>5
  <2>2. \A i \in 1..(Len(s) + 1) : ~(Len(s) + 1 < i) BY <1>1
  <2>3. QED BY <2>1, <2>2 DEF LostLast
<1>6. QED BY <1>3, <1>4, <1>5

(* When the first task is taken, what was said of it and those behind it   *)
(* is true of these, or it was the loss.                                   *)
LEMMA TailKeeps ==
  ASSUME NEW s \in Seq(Tasks), s # <<>>, NEW n \in 1..Len(s)
  PROVE  /\ LostLast(s, n) => \/ LostLast(Tail(s), n - 1)
                              \/ s[1] = Lost /\ NoMessage(Tail(s), n - 1)
         /\ NoMessage(s, n) => s[1].what # "message" /\ NoMessage(Tail(s), n - 1)
<1>1. \A k \in 1..(n - 1) : k + 1 \in 1..n /\ Tail(s)[k] = s[k + 1] BY TailHolds
<1>2. NoMessage(s, n) => s[1].what # "message" /\ NoMessage(Tail(s), n - 1)
  BY <1>1 DEF NoMessage
<1>3. ASSUME LostLast(s, n)
      PROVE  LostLast(Tail(s), n - 1) \/ (s[1] = Lost /\ NoMessage(Tail(s), n - 1))
  <2>1. PICK j \in 1..n : s[j] = Lost /\ \A i \in 1..n : j < i => s[i].what # "message"
    BY <1>3 DEF LostLast
  <2>2. CASE j = 1 BY <1>1, <2>1, <2>2 DEF NoMessage
  <2>3. CASE j # 1
    <3>1. j - 1 \in 1..(n - 1) /\ Tail(s)[j - 1] = Lost BY <1>1, <2>1, <2>3
    <3>2. \A i \in 1..(n - 1) : j - 1 < i => Tail(s)[i].what # "message" BY <1>1, <2>1
    <3>3. QED BY <3>1, <3>2 DEF LostLast
  <2>4. QED BY <2>2, <2>3
<1>4. QED BY <1>2, <1>3

-----------------------------------------------------------------------------
(* A step that leaves the tasks and what is cleared leaves the order.      *)
LEMMA NoTask ==
  ASSUME TypeOK, EndsCleared, QuietOffline, tasks' = tasks, connected' = connected,
         Cleared => Cleared'
  PROVE  EndsCleared' /\ QuietOffline'
<1>1. \A n \in 0..Len(tasks) : ClearedAfter(n) => ClearedAfter(n)'
  BY DEF ClearedAfter, LostLast, NoMessage
<1>2. \A k \in 1..Len(tasks) : k - 1 \in 0..Len(tasks) BY DEF TypeOK
<1>3. Len(tasks) \in 0..Len(tasks) BY DEF TypeOK
<1>4. QED BY <1>1, <1>2, <1>3 DEF EndsCleared, QuietOffline

(* So does one that takes the first task, if that is a message, or what is *)
(* cleared stays so; the task that clears may be the first.                *)
LEMMA OneTaken ==
  ASSUME TypeOK, EndsCleared, QuietOffline, tasks # <<>>, tasks' = Tail(tasks),
         connected' = connected,
         Cleared /\ tasks[1].what # "message" => Cleared',
         tasks[1] = Lost => Cleared'
  PROVE  EndsCleared' /\ QuietOffline'
<1>1. tasks \in Seq(Tasks) BY DEF TypeOK
<1>2. /\ Len(tasks) \in Nat /\ Len(tasks) >= 1 /\ Len(tasks') = Len(tasks) - 1
      /\ \A k \in 1..Len(tasks') : k + 1 \in 1..Len(tasks) /\ tasks'[k] = tasks[k + 1]
  BY <1>1, TailHolds
<1>3. ASSUME NEW n \in 1..Len(tasks), ClearedAfter(n) PROVE ClearedAfter(n - 1)'
  <2>1. CASE LostLast(tasks, n)
    <3>1. LostLast(Tail(tasks), n - 1) \/ (tasks[1] = Lost /\ NoMessage(Tail(tasks), n - 1))
      BY <1>1, <2>1, TailKeeps
    <3>2. LostLast(tasks', n - 1) \/ (Cleared' /\ NoMessage(tasks', n - 1)) BY <3>1
    <3>3. QED BY <3>2 DEF ClearedAfter
  <2>2. CASE Cleared /\ NoMessage(tasks, n)
    <3>1. tasks[1].what # "message" /\ NoMessage(Tail(tasks), n - 1)
      BY <1>1, <2>2, TailKeeps
    <3>2. Cleared' /\ NoMessage(tasks', n - 1) BY <2>2, <3>1
    <3>3. QED BY <3>2 DEF ClearedAfter
  <2>3. QED BY <1>3, <2>1, <2>2 DEF ClearedAfter
<1>4. EndsCleared'
  <2> SUFFICES ASSUME NEW k \in 1..Len(tasks'), NEW d \in Disconnects, tasks'[k] = Done(d)
               PROVE  ClearedAfter(k - 1)'
    BY DEF EndsCleared, Done
  <2>1. k + 1 \in 1..Len(tasks) /\ tasks[k + 1] = Done(d) BY <1>2
  <2>2. ClearedAfter(k) BY <1>2, <2>1 DEF EndsCleared
  <2>3. k \in 1..Len(tasks) BY <1>2
  <2>4. QED BY <1>3, <2>2, <2>3
<1>5. QuietOffline'
  <2> Len(tasks) \in 1..Len(tasks) BY <1>2
  <2>1. PICK n \in 1..Len(tasks) : n = Len(tasks) OBVIOUS
  <2>2. ClearedAfter(n) => ClearedAfter(n - 1)' BY <1>3
  <2>3. Len(tasks') = n - 1 BY <1>2, <2>1
  <2>4. QED BY <2>1, <2>2, <2>3 DEF QuietOffline
<1>6. QED BY <1>4, <1>5

(* So does one that appends a task, if it is not a message when there is   *)
(* no connection, and the end of a disconnect comes after the clearing.    *)
LEMMA OneAppended ==
  ASSUME TypeOK, EndsCleared, NEW task \in Tasks, tasks' = Append(tasks, task),
         Cleared => Cleared',
         \A d \in Disconnects : task = Done(d) => ClearedAfter(Len(tasks)),
         ~connected' => task = Lost \/ (task.what # "message" /\ ClearedAfter(Len(tasks)))
  PROVE  EndsCleared' /\ QuietOffline'
<1>1. PICK s \in Seq(Tasks), n \in Nat : s = tasks /\ n = Len(s) BY DEF TypeOK
<1>2. /\ Len(tasks') = n + 1 /\ tasks'[n + 1] = task
      /\ \A k \in 1..n : tasks'[k] = tasks[k]
  BY <1>1, AppendHolds
<1>3. ASSUME NEW k \in 0..n, ClearedAfter(k) PROVE ClearedAfter(k)'
  <2>1. LostLast(tasks, k) => LostLast(tasks', k) BY <1>1, AppendKeeps
  <2>2. NoMessage(tasks, k) => NoMessage(tasks', k) BY <1>1, AppendKeeps
  <2>3. LostLast(tasks', k) \/ (Cleared' /\ NoMessage(tasks', k))
    BY <1>3, <2>1, <2>2 DEF ClearedAfter
  <2>4. QED BY <2>3 DEF ClearedAfter
<1>4. EndsCleared'
  <2> SUFFICES ASSUME NEW k \in 1..Len(tasks'), NEW d \in Disconnects, tasks'[k] = Done(d)
               PROVE  ClearedAfter(k - 1)'
    BY DEF EndsCleared, Done
  <2>1. CASE k \in 1..n
    <3>1. ClearedAfter(k - 1) BY <1>1, <1>2, <2>1 DEF EndsCleared
    <3>2. k - 1 \in 0..n BY <2>1
    <3>3. QED BY <1>3, <3>1, <3>2
  <2>2. CASE k = n + 1
    <3>1. ClearedAfter(n) BY <1>1, <1>2, <2>2
    <3>2. n \in 0..n /\ k - 1 = n BY <2>2
    <3>3. QED BY <1>3, <3>1, <3>2
  <2>3. QED BY <1>2, <2>1, <2>2
<1>5. QuietOffline'
  <2> SUFFICES ASSUME ~connected' PROVE ClearedAfter(n + 1)'
    BY <1>2 DEF QuietOffline
  <2>1. CASE task = Lost
    <3>1. task.what # "message" BY <2>1 DEF Lost
    <3>2. LostLast(tasks', n + 1) BY <1>1, <2>1, <3>1, AppendExtends
    <3>3. QED BY <3>2 DEF ClearedAfter
  <2>2. CASE task.what # "message" /\ ClearedAfter(Len(tasks))
    <3>1. LostLast(tasks, n) => LostLast(tasks', n + 1) BY <1>1, <2>2, AppendExtends
    <3>2. NoMessage(tasks, n) => NoMessage(tasks', n + 1) BY <1>1, <2>2, AppendExtends
    <3>3. LostLast(tasks', n + 1) \/ (Cleared' /\ NoMessage(tasks', n + 1))
      BY <1>1, <2>2, <3>1, <3>2 DEF ClearedAfter
    <3>4. QED BY <3>3 DEF ClearedAfter
  <2>3. QED BY <2>1, <2>2
<1>6. QED BY <1>4, <1>5

(* A disconnect of a connection appends the loss and, behind it, its end.  *)
LEMMA LossAndEnd ==
  ASSUME TypeOK, EndsCleared, NEW c \in Disconnects,
         tasks' = tasks \o <<Lost, Done(c)>>, Cleared => Cleared'
  PROVE  EndsCleared' /\ QuietOffline'
<1>1. PICK s \in Seq(Tasks), n \in Nat : s = tasks /\ n = Len(s) BY DEF TypeOK
<1>2. Lost \in Tasks /\ Done(c) \in Tasks /\ Done(c).what # "message" /\ Lost.what # "message"
  BY TaskKinds, Kinds DEF Lost, Done
<1>3. PICK t \in Seq(Tasks) : t = Append(s, Lost) BY <1>1, <1>2, AppendHolds
<1>4. Len(t) = n + 1 /\ t[n + 1] = Lost /\ \A k \in 1..n : t[k] = s[k]
  BY <1>1, <1>2, <1>3, AppendHolds
<1>5. PICK u \in Seq(Tasks), e \in Tasks : e = Done(c) /\ u = Append(t, e) /\ u = tasks'
  <2>1. tasks' = Append(t, Done(c)) BY <1>1, <1>2, <1>3
  <2>2. QED BY <1>2, <2>1, AppendHolds
<1>6. /\ Len(tasks') = n + 2 /\ tasks'[n + 2] = Done(c) /\ tasks'[n + 1] = Lost
      /\ \A k \in 1..n : tasks'[k] = tasks[k]
  <2>1. /\ Len(u) = Len(t) + 1 /\ u[Len(t) + 1] = Done(c)
        /\ \A k \in 1..Len(t) : u[k] = t[k]
    <3>1. t \in Seq(Tasks) /\ e \in Tasks OBVIOUS
    <3>2. /\ Len(Append(t, e)) = Len(t) + 1 /\ Append(t, e)[Len(t) + 1] = e
          /\ \A k \in 1..Len(t) : Append(t, e)[k] = t[k]
      BY <3>1, AppendHolds
    <3>3. QED BY <1>5, <3>2
  <2>2. QED BY <1>1, <1>4, <1>5, <2>1
<1>7. ASSUME NEW k \in 0..n, ClearedAfter(k) PROVE ClearedAfter(k)'
  <2>1. /\ LostLast(s, k) => LostLast(t, k)
        /\ NoMessage(s, k) => NoMessage(t, k)
    BY <1>1, <1>2, <1>3, AppendKeeps
  <2>2. k \in 0..Len(t) BY <1>4
  <2>3. /\ LostLast(t, k) => LostLast(tasks', k)
        /\ NoMessage(t, k) => NoMessage(tasks', k)
    BY <1>2, <1>5, <2>2, AppendKeeps
  <2>4. LostLast(tasks', k) \/ (Cleared' /\ NoMessage(tasks', k))
    BY <1>1, <1>7, <2>1, <2>3 DEF ClearedAfter
  <2>5. QED BY <2>4 DEF ClearedAfter
<1>8. LostLast(t, n + 1) BY <1>1, <1>2, <1>3, AppendExtends
<1>9. ClearedAfter(n + 1)'
  <2>1. n + 1 \in 0..Len(t) BY <1>4
  <2>2. LostLast(u, n + 1) BY <1>2, <1>5, <1>8, <2>1, AppendKeeps
  <2>3. QED BY <1>5, <2>2 DEF ClearedAfter
<1>10. ClearedAfter(n + 2)'
  <2>1. LostLast(tasks', Len(t) + 1) BY <1>2, <1>4, <1>5, <1>8, AppendExtends
  <2>2. LostLast(tasks', n + 2) BY <1>4, <2>1
  <2>3. QED BY <2>2 DEF ClearedAfter
<1>11. EndsCleared'
  <2> SUFFICES ASSUME NEW k \in 1..Len(tasks'), NEW d \in Disconnects, tasks'[k] = Done(d)
               PROVE  ClearedAfter(k - 1)'
    BY DEF EndsCleared, Done
  <2>1. CASE k \in 1..n
    <3>1. ClearedAfter(k - 1) BY <1>1, <1>6, <2>1 DEF EndsCleared
    <3>2. k - 1 \in 0..n BY <2>1
    <3>3. QED BY <1>7, <3>1, <3>2
  <2>2. CASE k = n + 1 BY <1>6, <2>2, TaskKinds, Kinds
  <2>3. CASE k = n + 2
    <3>1. k - 1 = n + 1 BY <2>3
    <3>2. QED BY <1>9, <3>1
  <2>4. QED BY <1>6, <2>1, <2>2, <2>3
<1>12. QuietOffline' BY <1>6, <1>10 DEF QuietOffline
<1>13. QED BY <1>11, <1>12


-----------------------------------------------------------------------------
(* A set of inboxes is not None.                                           *)
LEMMA SetsOfInboxes ==
  TypeOK => /\ NamedToClear # None
            /\ clearing # None => \A i : clearing \ {i} # None
<1> SUFFICES ASSUME TypeOK
             PROVE  /\ NamedToClear # None
                    /\ clearing # None => \A i : clearing \ {i} # None
  OBVIOUS
<1>1. NamedToClear \subseteq Receivers BY DEF TypeOK, NamedToClear, Names
<1>2. clearing # None => \A i : clearing \ {i} \subseteq Receivers BY DEF TypeOK
<1>3. \A set \in SUBSET Receivers : set # None BY NoneAssumption
<1>4. QED BY <1>1, <1>2, <1>3

(* What is cleared stays so in every step but the lookup of a message.     *)
LEMMA ClearedStep ==
  TypeOK /\ InboxesNamed /\ NotMadeEmpty /\ [Next]_vars /\ ~RouteLookup /\ Cleared => Cleared'
<1> SUFFICES ASSUME TypeOK, InboxesNamed, NotMadeEmpty, [Next]_vars, ~RouteLookup, Cleared
             PROVE  Cleared'
  OBVIOUS
<1> USE ClientAssumption, Kinds DEF TypeOK, Cleared, NamedToClear
<1>1. ASSUME NEW c \in Receivers, CheckFeature(c) PROVE Cleared'
  BY <1>1 DEF CheckFeature, manager, clear
<1>2. ASSUME NEW c \in Receivers, EnableFeature(c) PROVE Cleared'
  BY <1>2 DEF EnableFeature, manager, clear
<1>3. ASSUME NEW c \in Receivers, Lookup(c) PROVE Cleared'
  BY <1>3 DEF Lookup, clear
<1>4. ASSUME NEW c \in Receivers, Create(c) PROVE Cleared'
  <2>1. /\ named' = [named EXCEPT ![Target[c]] = c]
        /\ UNCHANGED <<contents, clearing, interrupted, routing>>
    BY <1>4 DEF Create, Register
  <2>2. at[c] = "create" BY <1>4 DEF Create, Go
  <2>3. contents[c] = <<>>
    <3>1. inbox[c] = None BY <2>2 DEF InboxesNamed
    <3>2. inbox[c] # c BY <3>1, Kinds
    <3>3. QED BY <3>2 DEF NotMadeEmpty
  <2>4. \A i \in NamedToClear' : i \in NamedToClear \/ i = c BY <2>1
  <2>5. QED BY <2>1, <2>3, <2>4
<1>5. ASSUME NEW c \in Receivers, Get(c) PROVE Cleared'
  <2>1. /\ contents[inbox[c]] # <<>> /\ inbox[c] \in Inboxes
        /\ contents' = [contents EXCEPT ![inbox[c]] = Tail(contents[inbox[c]])]
        /\ UNCHANGED <<named, clearing, interrupted, routing>>
    BY <1>5 DEF Get, InboxesNamed, clear
  <2>2. \A i \in Inboxes : contents[i] = <<>> => contents'[i] = <<>> BY <2>1
  <2>3. NamedToClear \subseteq Inboxes /\ NamedToClear' = NamedToClear BY <2>1 DEF Names
  <2>4. CASE interrupted BY <2>1, <2>4
  <2>5. CASE /\ routing = None /\ contents["methods"] = <<>>
             /\ \A i \in NamedToClear : clearing = None \/ i \notin clearing => contents[i] = <<>>
    BY <2>1, <2>2, <2>3, <2>5
  <2>6. QED BY <2>4, <2>5
<1>6. ASSUME NEW c \in Receivers, GiveUp(c) PROVE Cleared'
  BY <1>6 DEF GiveUp, manager, clear
<1>7. ASSUME NEW c \in Commands, RunCommand(c) PROVE Cleared'
  BY <1>7 DEF RunCommand, manager, clear
<1>8. ASSUME NEW c \in Calls, RunOp(c) PROVE Cleared'
  BY <1>8 DEF RunOp, manager, clear
<1>9. ASSUME NEW c \in Calls, OpFails(c) PROVE Cleared'
  BY <1>9 DEF OpFails, manager, clear
<1>10. CASE ConnectionLost BY <1>10 DEF ConnectionLost, manager, clear
<1>11. ASSUME NEW m \in Messages, Deliver(m) PROVE Cleared'
  BY <1>11 DEF Deliver, manager, clear
<1>12. CASE Complete BY <1>12 DEF Complete, manager, clear
<1>13. CASE ClearGeneric
  <2>1. contents'["methods"] = <<>> /\ routing' = None BY <1>13 DEF ClearGeneric, Take, Inboxes
  <2>2. clearing' = NamedToClear /\ NamedToClear' = NamedToClear BY <1>13 DEF ClearGeneric
  <2>3. NamedToClear # None BY SetsOfInboxes
  <2>4. QED BY <2>1, <2>2, <2>3
<1>14. ASSUME NEW i \in Receivers, ClearNamed(i) PROVE Cleared'
  <2>1. /\ clearing # None /\ clearing' = clearing \ {i}
        /\ UNCHANGED <<interrupted, routing>>
        /\ contents' = [contents EXCEPT ![i] = <<>>] /\ NamedToClear' = NamedToClear
    BY <1>14 DEF ClearNamed
  <2>2. NamedToClear \subseteq Inboxes /\ i \in Inboxes BY DEF Names
  <2>3. \A j \in Inboxes : j = i \/ contents[j] = <<>> => contents'[j] = <<>> BY <2>1, <2>2
  <2>4. clearing' # None /\ \A j : j \notin clearing' => j = i \/ j \notin clearing
    BY <2>1, SetsOfInboxes
  <2>5. QED BY <2>1, <2>2, <2>3, <2>4
<1>15. CASE ClearEnds BY <1>15 DEF ClearEnds, LoopEnds, manager
<1>16. CASE UNCHANGED vars BY <1>16 DEF vars, manager, clear
<1>17. CASE Put BY <1>17 DEF Put, clear
<1>18. ASSUME NEW m \in Messages, CannotParse(m) PROVE Cleared'
  BY <1>18 DEF CannotParse, manager, clear
<1>19. QED
  BY <1>1, <1>2, <1>3, <1>4, <1>5, <1>6, <1>7, <1>8, <1>9,
     <1>10, <1>11, <1>12, <1>13, <1>14, <1>15, <1>16, <1>17, <1>18
  DEF Next, Receive, CallbackThread

(* Messages are put only into inboxes that were made.                      *)
LEMMA NotMadeStep ==
  TypeOK /\ InboxesNamed /\ NotMadeEmpty /\ [Next]_vars => NotMadeEmpty'
<1> SUFFICES ASSUME TypeOK, InboxesNamed, NotMadeEmpty, [Next]_vars PROVE NotMadeEmpty' OBVIOUS
<1> USE ClientAssumption, Kinds DEF TypeOK, NotMadeEmpty
<1>1. ASSUME NEW c \in Receivers, CheckFeature(c) PROVE NotMadeEmpty'
  BY <1>1 DEF CheckFeature, manager
<1>2. ASSUME NEW c \in Receivers, EnableFeature(c) PROVE NotMadeEmpty'
  BY <1>2 DEF EnableFeature, manager
<1>3. ASSUME NEW c \in Receivers, Lookup(c) PROVE NotMadeEmpty'
  <2>1. Found(c) BY <1>3, LookupCases
  <2>2. inbox[c] = None BY <2>1 DEF Found, InboxesNamed
  <2>3. contents' = contents /\ \A d \in Receivers : d # c => inbox'[d] = inbox[d]
    BY <2>1 DEF Found
  <2>4. contents[c] = <<>> BY <2>2
  <2>5. QED BY <2>3, <2>4
<1>4. ASSUME NEW c \in Receivers, Create(c) PROVE NotMadeEmpty'
  BY <1>4 DEF Create
<1>5. ASSUME NEW c \in Receivers, Get(c) PROVE NotMadeEmpty'
  BY <1>5 DEF Get
<1>6. ASSUME NEW c \in Receivers, GiveUp(c) PROVE NotMadeEmpty'
  BY <1>6 DEF GiveUp, manager
<1>7. ASSUME NEW c \in Commands, RunCommand(c) PROVE NotMadeEmpty'
  BY <1>7 DEF RunCommand, manager
<1>8. ASSUME NEW c \in Calls, RunOp(c) PROVE NotMadeEmpty'
  BY <1>8 DEF RunOp, manager
<1>9. ASSUME NEW c \in Calls, OpFails(c) PROVE NotMadeEmpty'
  BY <1>9 DEF OpFails, manager
<1>10. CASE ConnectionLost BY <1>10 DEF ConnectionLost, manager
<1>11. ASSUME NEW m \in Messages, Deliver(m) PROVE NotMadeEmpty'
  BY <1>11 DEF Deliver, manager
<1>12. CASE Complete BY <1>12 DEF Complete, manager
<1>13. CASE RouteLookup BY <1>13 DEF RouteLookup, manager
<1>18. CASE Put
  <2>1. UNCHANGED inbox BY <1>18 DEF Put
  <2>2. contents' = [contents EXCEPT ![routing.to] = Append(@, routing.message)]
    BY <1>18 DEF Put
  <2>3. routing.to \in Receivers => inbox[routing.to] = routing.to
    BY <1>18 DEF Put, InboxesNamed
  <2>4. ASSUME NEW c \in Receivers, inbox[c] # c PROVE contents'[c] = <<>>
    <3>1. c # routing.to BY <2>3, <2>4
    <3>2. contents'[c] = contents[c] BY <2>2, <3>1
    <3>3. QED BY <2>4, <3>2
  <2>5. QED BY <2>1, <2>4
<1>19. ASSUME NEW m \in Messages, CannotParse(m) PROVE NotMadeEmpty'
  BY <1>19 DEF CannotParse, manager
<1>14. CASE ClearGeneric BY <1>14 DEF ClearGeneric
<1>15. ASSUME NEW i \in Receivers, ClearNamed(i) PROVE NotMadeEmpty'
  BY <1>15 DEF ClearNamed
<1>16. CASE ClearEnds BY <1>16 DEF ClearEnds, manager
<1>17. CASE UNCHANGED vars BY <1>17 DEF vars, manager
<1>20. QED
  BY <1>1, <1>2, <1>3, <1>4, <1>5, <1>6, <1>7, <1>8, <1>9,
     <1>10, <1>11, <1>12, <1>13, <1>14, <1>15, <1>16, <1>17, <1>18, <1>19
  DEF Next, Receive, CallbackThread

(* The order of the tasks: who appends and takes them.                     *)
LEMMA OrderStep ==
  TypeOK /\ InboxesNamed /\ ClearInv /\ [Next]_vars => EndsCleared' /\ QuietOffline'
<1> SUFFICES ASSUME TypeOK, InboxesNamed, ClearInv, [Next]_vars
             PROVE  EndsCleared' /\ QuietOffline'
  OBVIOUS
<1> USE DEF ClearInv
<1>1. ~RouteLookup /\ Cleared => Cleared' BY ClearedStep
<1>2. CASE tasks' = tasks /\ connected' = connected /\ ~RouteLookup
  BY <1>1, <1>2, NoTask
<1>3. CASE RouteLookup
  <2>1. tasks # <<>> /\ tasks' = Tail(tasks) /\ tasks[1].what = "message"
    BY <1>3, TakenMessage
  <2>2. connected' = connected BY <1>3 DEF RouteLookup, pipeline
  <2>3. tasks[1] # Lost BY <2>1 DEF Lost
  <2>4. QED BY <2>1, <2>2, <2>3, OneTaken
<1>4. CASE Complete
  <2>1. tasks # <<>> /\ tasks' = Tail(tasks) /\ connected' = connected
        /\ Head(tasks).what = "done"
    BY <1>4 DEF Complete, Take, pipeline
  <2>2. tasks[1].what = "done" BY <2>1, TailHolds DEF TypeOK
  <2>3. tasks[1] # Lost BY <2>2 DEF Lost
  <2>4. Cleared => Cleared' BY <1>4 DEF Complete, Cleared, NamedToClear, manager, clear
  <2>5. QED BY <2>1, <2>2, <2>3, <2>4, OneTaken
<1>5. CASE ClearGeneric
  <2>1. tasks # <<>> /\ tasks' = Tail(tasks) /\ connected' = connected
    BY <1>5 DEF ClearGeneric, Take, pipeline
  <2>2. Cleared'
    <3>1. contents'["methods"] = <<>> /\ routing' = None
      BY <1>5, Kinds DEF ClearGeneric, Take, TypeOK, Inboxes
    <3>2. clearing' = NamedToClear /\ NamedToClear' = NamedToClear
      BY <1>5 DEF ClearGeneric, NamedToClear
    <3>3. NamedToClear # None BY SetsOfInboxes
    <3>4. QED BY <3>1, <3>2, <3>3 DEF Cleared
  <2>3. QED BY <2>1, <2>2, OneTaken
<1>6. CASE ConnectionLost
  <2>1. tasks' = Append(tasks, Lost) /\ Lost \in Tasks
    BY <1>6, TaskKinds DEF ConnectionLost
  <2>2. Cleared => Cleared' BY <1>6 DEF ConnectionLost, Cleared, NamedToClear, manager, clear
  <2>3. \A d \in Disconnects : Lost # Done(d) BY TaskKinds, Kinds
  <2>4. QED BY <2>1, <2>2, <2>3, OneAppended
<1>7. ASSUME NEW m \in Messages, Deliver(m) PROVE EndsCleared' /\ QuietOffline'
  <2>1. PICK task \in Tasks : task = [what |-> "message", message |-> m]
    BY TaskKinds
  <2>2. tasks' = Append(tasks, task) /\ connected' BY <1>7, <2>1 DEF Deliver, MayCome
  <2>3. Cleared => Cleared' BY <1>7 DEF Deliver, Cleared, NamedToClear, manager, clear
  <2>4. \A d \in Disconnects : task # Done(d) BY <2>1, TaskKinds, Kinds
  <2>5. QED BY <2>2, <2>3, <2>4, OneAppended
<1>8. ASSUME NEW c \in Calls, RunOp(c) PROVE EndsCleared' /\ QuietOffline'
  <2>1. Cleared => Cleared' BY <1>8 DEF RunOp, Cleared, NamedToClear, manager, clear
  <2>2. CASE c \in Disconnects /\ connected
    <3>1. tasks' = tasks \o <<Lost, Done(c)>> BY <1>8, <2>2 DEF RunOp, DisconnectTasks
    <3>2. QED BY <2>1, <2>2, <3>1, LossAndEnd
  <2>3. CASE ~(c \in Disconnects /\ connected)
    <3>1. PICK task \in Tasks : task = Done(c) /\ task.what # "message"
      BY TaskKinds
    <3>2. tasks' = Append(tasks, task) BY <1>8, <2>3, <3>1 DEF RunOp, TypeOK
    <3>3. c \in Disconnects => ClearedAfter(Len(tasks)) BY <2>3 DEF QuietOffline
    <3>4. \A d \in Disconnects : task = Done(d) => d = c BY <3>1, TaskKinds, Kinds
    <3>5. ~connected' => c \in Disconnects BY <1>8 DEF RunOp
    <3>6. QED BY <2>1, <3>1, <3>2, <3>3, <3>4, <3>5, OneAppended
  <2>4. QED BY <2>2, <2>3
<1>9. QED
  <2>1. ASSUME NEW c \in Receivers, Receive(c) \/ GiveUp(c)
        PROVE  tasks' = tasks /\ connected' = connected
    BY <2>1 DEF Receive, CheckFeature, EnableFeature, Lookup, Create, Get, GiveUp, pipeline
  <2>2. ASSUME NEW c \in Commands, RunCommand(c)
        PROVE  tasks' = tasks /\ connected' = connected
    BY <2>2 DEF RunCommand
  <2>3. ASSUME NEW c \in Calls, OpFails(c)
        PROVE  tasks' = tasks /\ connected' = connected
    BY <2>3 DEF OpFails
  <2>4. ASSUME NEW i \in Receivers, ClearNamed(i)
        PROVE  tasks' = tasks /\ connected' = connected
    BY <2>4 DEF ClearNamed, pipeline
  <2>5. ClearEnds => tasks' = tasks /\ connected' = connected BY DEF ClearEnds, pipeline
  <2>6. UNCHANGED vars => tasks' = tasks /\ connected' = connected BY DEF vars, pipeline
  <2>7. Put => tasks' = tasks /\ connected' = connected BY DEF Put, pipeline
  <2>8. ASSUME NEW m \in Messages, CannotParse(m)
        PROVE  tasks' = tasks /\ connected' = connected
    BY <2>8 DEF CannotParse
  <2>9. QED
    BY <1>2, <1>3, <1>4, <1>5, <1>6, <1>7, <1>8, <2>1, <2>2, <2>3, <2>4, <2>5, <2>6, <2>7, <2>8
    DEF Next, CallbackThread

-----------------------------------------------------------------------------
(* The order of the tasks and of the clearing, for any calls and messages. *)
THEOREM ClearingCorrect == Spec => []ClearInv
<1>1. Init => ClearInv
  <2> SUFFICES ASSUME Init PROVE ClearInv OBVIOUS
  <2> USE Kinds DEF Init
  <2>1. tasks = <<>> /\ Len(tasks) = 0 OBVIOUS
  <2>2. Cleared
    <3>1. contents["methods"] = <<>> OBVIOUS
    <3>2. \A i \in NamedToClear : FALSE BY DEF NamedToClear, Names
    <3>3. QED BY <3>1, <3>2 DEF Cleared
  <2>3. EndsCleared BY <2>1 DEF EndsCleared
  <2>4. ClearedAfter(0) BY <2>2 DEF ClearedAfter, NoMessage
  <2>5. QED BY <2>1, <2>3, <2>4 DEF ClearInv, QuietOffline, NotMadeEmpty
<1>2. ClientInv /\ ClearInv /\ [Next]_vars => ClearInv'
  BY OrderStep, NotMadeStep DEF ClientInv, ClearInv
<1>3. QED BY ClientCorrect, <1>1, <1>2, PTL DEF Spec

(* When disconnect returns, no inbox of the manager holds a method request *)
(* of the connection that ended, unless the clearing was interrupted.      *)
THEOREM ClearedOnDisconnectHolds == Spec => ClearedOnDisconnect
<1> DEFINE Empty ==
      \A c \in Disconnects : at[c] = "running" /\ at'[c] = "returned" /\ ~interrupted =>
        \A i \in {"methods"} \union NamedToClear : contents[i] = <<>>
<1>1. ClientInv /\ ClearInv /\ [Next]_vars => Empty
  <2> SUFFICES ASSUME ClientInv, ClearInv, [Next]_vars, NEW c \in Disconnects,
                      at[c] = "running", at'[c] = "returned", ~interrupted
               PROVE  \A i \in {"methods"} \union NamedToClear : contents[i] = <<>>
    OBVIOUS
  <2> USE Kinds DEF ClientInv, TypeOK
  <2>1. Complete
    <3>1. at' # at /\ c \notin Receivers /\ c \in Calls BY ClientAssumption DEF Commands
    <3>2. ASSUME NEW d \in Receivers, Receive(d) \/ GiveUp(d) PROVE at'[c] = at[c]
      <4>1. d # c /\ \E to : at' = [at EXCEPT ![d] = to]
        BY <3>1, <3>2 DEF Receive, GiveUp, CheckFeature, EnableFeature, Lookup, Create, Get, Go
      <4>2. QED BY <3>1, <4>1
    <3>3. ASSUME NEW d \in Commands, RunCommand(d) PROVE at'[c] # "returned"
      <4>1. at' = [at EXCEPT ![d] = "running"] BY <3>3 DEF RunCommand, Go
      <4>2. QED BY <3>1, <4>1
    <3>4. ASSUME NEW d \in Calls, RunOp(d) \/ OpFails(d) PROVE at' = at
      BY <3>4 DEF RunOp, OpFails, threads
    <3>5. ASSUME NEW m \in Messages, Deliver(m) \/ CannotParse(m) PROVE at' = at
      BY <3>5 DEF Deliver, CannotParse, threads
    <3>6. ConnectionLost \/ RouteLookup \/ Put \/ ClearGeneric \/ ClearEnds => at' = at
      BY DEF ConnectionLost, RouteLookup, Put, ClearGeneric, ClearEnds, threads
    <3>7. ASSUME NEW i \in Receivers, ClearNamed(i) PROVE at' = at BY <3>7 DEF ClearNamed, threads
    <3>8. UNCHANGED vars => at' = at BY DEF vars, threads
    <3>9. QED BY <3>1, <3>2, <3>3, <3>4, <3>5, <3>6, <3>7, <3>8 DEF Next, CallbackThread
  <2>2. /\ tasks # <<>> /\ Head(tasks).what = "done" /\ clearing = None
        /\ at' = [at EXCEPT ![Head(tasks).of]
                    = IF Head(tasks).of \in Receivers THEN "lookup" ELSE "returned"]
    BY <2>1 DEF Complete, Take
  <2>3. tasks[1] = Done(c) /\ 1 \in 1..Len(tasks)
    <3>1. Head(tasks) \in Tasks /\ Head(tasks) = tasks[1] /\ 1 \in 1..Len(tasks)
      BY <2>2, TailHolds
    <3>2. Head(tasks).of \in Calls /\ Head(tasks) = Done(Head(tasks).of)
      BY <2>2, <3>1, TaskKinds
    <3>3. Head(tasks).of = c BY <2>2, <3>2
    <3>4. QED BY <3>1, <3>2, <3>3
  <2>4. ClearedAfter(0) BY <2>3 DEF ClearInv, EndsCleared
  <2>5. Cleared BY <2>4 DEF ClearedAfter, LostLast
  <2>6. QED BY <2>2, <2>5 DEF Cleared
<1>2. QED BY ClientCorrect, ClearingCorrect, <1>1, PTL DEF Spec, ClearedOnDisconnect
=============================================================================
