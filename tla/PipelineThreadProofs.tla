------------------------ MODULE PipelineThreadProofs ------------------------
(***************************************************************************)
(* Proofs about PipelineThread, for any threads, calls and bounds, when    *)
(* one thread constructs the first client.                                 *)
(***************************************************************************)
EXTENDS PipelineThread, TLAPS

OneStarter == \A s, t \in Starters : s = t

LEMMA CallTypes ==
  /\ \A c \in Calls : c.fn \in Functions /\ c.by \in Threads /\ ThreadName(c.fn) \in Names /\ c # NoCall
  /\ \A fn \in Functions, t \in Threads, ends \in Outcomes : [fn |-> fn, by |-> t, ends |-> ends] \in Calls
  /\ \A fn \in Functions : ThreadName(fn) \in Names /\ (ThreadName(fn) = "pipeline" <=> fn # "user")
  /\ Executors \subseteq Threads /\ Executors \subseteq Nat /\ 0 \notin Executors
  /\ Executors \intersect Starters = {}
BY ThreadAssumption DEF Calls, ThreadName, Names, Threads, Executors, Functions

LEMMA InitInv ==
  ASSUME Init
  PROVE  ThreadInv
<1> USE DEF Init
<1>1. executors \in [Names -> 0..MaxExecutors] /\ calls \in [Threads -> 0..MaxCalls]
  BY ThreadAssumption
<1>2. TypeOK
  BY <1>1 DEF TypeOK
<1>3. OnePerName /\ OneMaker /\ WorkHasName /\ NotItself /\ OwnCall
  BY CallTypes DEF OnePerName, OneMaker, WorkHasName, NotItself, OwnCall, Names
<1>4. QED  BY <1>2, <1>3 DEF ThreadInv

(* A call that finds no executor for its name is the starter's, or the     *)
(* pipeline thread's first callback.                                       *)
LEMMA MakerIsKnown ==
  ASSUME ThreadInv, NEW t \in Threads, NEW fn \in Functions, MayCall(t, fn), ~InThread(t, fn),
         executors[ThreadName(fn)] = 0
  PROVE  IF ThreadName(fn) = "pipeline" THEN t \in Starters
                                        ELSE t \in Executors /\ serves[t] = "pipeline"
<1>1. CASE t \in Callers
  BY <1>1, ThreadAssumption DEF MayCall, ThreadName
<1>2. CASE t \in Executors
  <2>1. running[t] # NoCall /\ serves[t] \in Names
    BY <1>2 DEF MayCall, ThreadInv, WorkHasName, TypeOK
  <2>2. executors[serves[t]] = t /\ t # 0
    BY <1>2, <2>1, CallTypes DEF ThreadInv, OnePerName, Names
  <2>3. CASE serves[t] = "callback"
    <3>1. fn = "op" /\ executors["callback"] # 0
      BY <1>2, <2>2, <2>3 DEF MayCall
    <3>2. QED  BY <3>1 DEF ThreadInv, OneMaker, ThreadName
  <2>4. CASE serves[t] = "pipeline"
    BY <1>2, <2>4 DEF InThread, ThreadName
  <2>5. QED  BY <2>1, <2>3, <2>4 DEF Names
<1>3. QED  BY <1>1, <1>2 DEF Threads

LEMMA InvokeStep ==
  ASSUME ThreadInv, NEW t \in Threads, NEW fn \in Functions, NEW ends \in Outcomes, Invoke(t, fn, ends)
  PROVE  ThreadInv'
<1> DEFINE c == [fn |-> fn, by |-> t, ends |-> ends]
<1>1. c \in Calls /\ c # NoCall /\ ThreadName(fn) \in Names
  BY CallTypes
<1>2. /\ call' = [call EXCEPT ![t] = c]
      /\ at' = [at EXCEPT ![t] = LookUp(ThreadName(fn))]
      /\ result' = [result EXCEPT ![t] = "none"]
      /\ UNCHANGED <<executors, serves, queue, running>>
  BY DEF Invoke
<1>3. LookUp(ThreadName(fn)) \in {"create", "submit"}
  BY DEF LookUp
<1>4. calls' \in [Threads -> 0..MaxCalls]
  BY ThreadAssumption DEF Invoke, MayCall, CountCall, ThreadInv, TypeOK
<1>5. TypeOK'
  BY <1>1, <1>2, <1>3, <1>4 DEF ThreadInv, TypeOK
<1>6. OnePerName' /\ WorkHasName'
  BY <1>2 DEF ThreadInv, OnePerName, WorkHasName
<1>7. /\ LookUp(ThreadName(fn)) = "submit" => executors[ThreadName(fn)] # 0
      /\ LookUp(ThreadName(fn)) = "create" =>
           /\ executors[ThreadName(fn)] = 0
           /\ IF ThreadName(fn) = "pipeline" THEN t \in Starters
                                             ELSE t \in Executors /\ serves[t] = "pipeline"
  BY MakerIsKnown DEF Invoke, LookUp
<1>8. /\ call'[t] = c /\ at'[t] = LookUp(ThreadName(fn))
      /\ \A u \in Threads : u # t => call'[u] = call[u] /\ at'[u] = at[u]
  BY <1>2 DEF ThreadInv, TypeOK
<1>9. OneMaker'
  BY <1>1, <1>2, <1>7, <1>8 DEF ThreadInv, OneMaker
<1>10. t \in Executors => serves[t] # "none" /\ serves[t] # ThreadName(fn)
  BY DEF Invoke, MayCall, InThread, ThreadInv, WorkHasName
<1>11. NotItself'
  BY <1>2, <1>8, <1>10, CallTypes DEF ThreadInv, NotItself
<1>12. OwnCall'
  BY <1>8 DEF ThreadInv, OwnCall
<1>13. QED  BY <1>5, <1>6, <1>9, <1>11, <1>12 DEF ThreadInv

LEMMA CreateStep ==
  ASSUME OneStarter, ThreadInv, NEW t \in Threads, NEW e \in Executors, Create(t, e)
  PROVE  ThreadInv'
<1> DEFINE name == ThreadName(call[t].fn)
<1>1. /\ at[t] = "create" /\ serves[e] = "none"
      /\ executors' = [executors EXCEPT ![name] = e]
      /\ serves' = [serves EXCEPT ![e] = name]
      /\ at' = [at EXCEPT ![t] = "submit"]
      /\ UNCHANGED <<queue, running, call, result, calls>>
  BY DEF Create
<1>2. call[t] \in Calls /\ name \in Names /\ executors[name] = 0
  BY <1>1, CallTypes DEF ThreadInv, TypeOK, OneMaker
<1>3. e # 0 /\ e \in 0..MaxExecutors
  BY ThreadAssumption DEF Executors
<1>4. TypeOK'
  BY <1>1, <1>2, <1>3 DEF ThreadInv, TypeOK
<1>5. OnePerName'
  <2>1. \A n \in Names : n # name /\ executors[n] # 0 => executors[n] # e
    BY <1>1, CallTypes DEF ThreadInv, OnePerName, Names
  <2>2. \A n \in Names : executors'[n] = IF n = name THEN e ELSE executors[n]
    BY <1>1, <1>2 DEF ThreadInv, TypeOK
  <2>3. \A d \in Executors : serves'[d] = IF d = e THEN name ELSE serves[d]
    BY <1>1 DEF ThreadInv, TypeOK
  <2>4. \A n \in Names : executors'[n] # 0 => serves'[executors'[n]] = n
    <3>1. \A n \in Names : executors[n] # 0 => executors[n] \in Executors
      BY ThreadAssumption DEF ThreadInv, TypeOK, Executors
    <3>2. QED  BY <2>1, <2>2, <2>3, <3>1 DEF ThreadInv, OnePerName
  <2>5. \A d \in Executors : serves[d] # "none" => serves[d] \in Names /\ serves[d] # name
    BY <1>2, CallTypes DEF ThreadInv, OnePerName, TypeOK
  <2>6. \A d \in Executors : serves'[d] # "none" => executors'[serves'[d]] = d
    BY <1>2, <2>2, <2>3, <2>5 DEF ThreadInv, OnePerName
  <2>7. QED  BY <2>4, <2>6 DEF OnePerName
<1>6. WorkHasName'
  BY <1>1, <1>2 DEF ThreadInv, TypeOK, WorkHasName, Names
<1>7. ASSUME NEW u \in Threads, u # t, at[u] = "create"
      PROVE  ThreadName(call[u].fn) # name
  <2>1. SUFFICES ASSUME ThreadName(call[u].fn) = name PROVE FALSE
    OBVIOUS
  <2>2. CASE name = "pipeline"
    BY <1>1, <1>7, <2>1, <2>2 DEF ThreadInv, OneMaker, OneStarter
  <2>3. CASE name # "pipeline"
    BY <1>1, <1>7, <2>1, <2>3 DEF ThreadInv, OneMaker, OnePerName
  <2>4. QED  BY <2>2, <2>3
<1>8. OneMaker'
  <2>1. executors'["callback"] # 0 => executors'["pipeline"] # 0
    <3>1. CASE name = "pipeline"
      BY <1>1, <1>2, <1>3, <3>1 DEF ThreadInv, TypeOK, Names
    <3>2. CASE name = "callback"
      <4>1. t \in Executors /\ serves[t] = "pipeline"
        BY <1>1, <3>2 DEF ThreadInv, OneMaker
      <4>2. executors["pipeline"] = t /\ t # 0
        BY <4>1, CallTypes DEF ThreadInv, OnePerName
      <4>3. QED  BY <1>1, <3>2, <4>2 DEF ThreadInv, TypeOK, Names
    <3>3. QED  BY <1>2, <3>1, <3>2 DEF Names
  <2>2. ASSUME NEW u \in Threads
        PROVE  LET n == ThreadName(call'[u].fn) IN
               /\ at'[u] # "out" => call'[u] # NoCall
               /\ at'[u] = "submit" => executors'[n] # 0
               /\ at'[u] = "create" =>
                    /\ executors'[n] = 0
                    /\ IF n = "pipeline" THEN u \in Starters
                                         ELSE u \in Executors /\ serves'[u] = "pipeline"
    <3>1. CASE u = t
      BY <1>1, <1>2, <1>3, <3>1, CallTypes DEF ThreadInv, TypeOK
    <3>2. CASE u # t
      <4>1. at'[u] = at[u] /\ call'[u] = call[u]
        BY <1>1, <3>2 DEF ThreadInv, TypeOK
      <4>2. \A n \in Names : executors[n] # 0 => executors'[n] # 0
        BY <1>1, <1>2, <1>3 DEF ThreadInv, TypeOK
      <4>3. at[u] # "out" => call[u] \in Calls /\ ThreadName(call[u].fn) \in Names
        BY CallTypes DEF ThreadInv, OneMaker, TypeOK
      <4>4. at[u] = "create" => executors'[ThreadName(call[u].fn)] = executors[ThreadName(call[u].fn)]
        BY <1>1, <1>2, <1>7, <3>2, <4>3 DEF ThreadInv, TypeOK
      <4>5. u \in Executors /\ serves[u] = "pipeline" => serves'[u] = "pipeline"
        BY <1>1 DEF ThreadInv, TypeOK
      <4>6. QED  BY <4>1, <4>2, <4>3, <4>4, <4>5 DEF ThreadInv, OneMaker
    <3>3. QED  BY <3>1, <3>2
  <2>3. QED  BY <2>1, <2>2 DEF OneMaker
<1>9. NotItself'
  <2>1. at[e] = "out" /\ e # t
    BY <1>1 DEF ThreadInv, NotItself
  <2>2. /\ \A d \in Executors : d # e => serves'[d] = serves[d]
        /\ \A d \in Executors : at'[d] # "out" => at[d] # "out"
        /\ call' = call /\ at'[e] = at[e]
    BY <1>1, <2>1, CallTypes DEF ThreadInv, TypeOK
  <2>3. QED  BY <2>1, <2>2 DEF ThreadInv, NotItself
<1>10. OwnCall'
  BY <1>1 DEF ThreadInv, OwnCall
<1>11. QED  BY <1>4, <1>5, <1>6, <1>8, <1>9, <1>10 DEF ThreadInv

LEMMA SubmitStep ==
  ASSUME ThreadInv, NEW t \in Threads, Submit(t)
  PROVE  ThreadInv'
<1>1. at[t] = "submit" /\ call[t] \in Calls
  BY DEF Submit, ThreadInv, OneMaker, TypeOK
<1>2. PICK e \in Executors : e = executors[ThreadName(call[t].fn)] /\ serves[e] # "none"
  <2>1. ThreadName(call[t].fn) \in Names /\ executors[ThreadName(call[t].fn)] # 0
    BY <1>1, CallTypes DEF ThreadInv, OneMaker
  <2>2. executors[ThreadName(call[t].fn)] \in Executors
    BY <2>1, ThreadAssumption DEF ThreadInv, TypeOK, Executors
  <2>3. QED  BY <2>1, <2>2 DEF ThreadInv, OnePerName, Names
<1>3. queue' = [queue EXCEPT ![e] = Append(@, call[t])]
  BY <1>2 DEF Submit
<1>4. queue' \in [Executors -> Seq(Calls)] /\ \A d \in Executors : d # e => queue'[d] = queue[d]
  BY <1>1, <1>3 DEF ThreadInv, TypeOK
<1>5. /\ at' \in [Threads -> {"out", "create", "submit", "wait"}]
      /\ call' \in [Threads -> Calls \union {NoCall}]
      /\ at'[t] \in {"wait", "out"} /\ (at'[t] # "out" => call'[t] # NoCall)
      /\ \A u \in Threads : u # t => at'[u] = at[u] /\ call'[u] = call[u]
  <2>1. \/ at' = [at EXCEPT ![t] = "wait"] /\ call' = call
        \/ at' = [at EXCEPT ![t] = "out"] /\ call' = [call EXCEPT ![t] = NoCall]
    BY DEF Submit
  <2>2. /\ at \in [Threads -> {"out", "create", "submit", "wait"}]
        /\ call \in [Threads -> Calls \union {NoCall}]
        /\ call[t] # NoCall
    BY <1>1, CallTypes DEF ThreadInv, TypeOK
  <2>3. CASE at' = [at EXCEPT ![t] = "wait"] /\ call' = call
    BY <2>2, <2>3
  <2>4. CASE at' = [at EXCEPT ![t] = "out"] /\ call' = [call EXCEPT ![t] = NoCall]
    BY <2>2, <2>4
  <2>5. QED  BY <2>1, <2>3, <2>4
<1>6. TypeOK'
  BY <1>4, <1>5 DEF Submit, ThreadInv, TypeOK
<1>7. OnePerName' /\ WorkHasName'
  BY <1>2, <1>4 DEF Submit, ThreadInv, OnePerName, WorkHasName
<1>8. OneMaker'
  BY <1>5 DEF Submit, ThreadInv, OneMaker
<1>9. NotItself'
  <2>1. \A d \in Executors : at'[d] # "out" => at[d] # "out" /\ call'[d] = call[d]
    <3>1. \/ at' = [at EXCEPT ![t] = "wait"] /\ call' = call
          \/ at' = [at EXCEPT ![t] = "out"] /\ call' = [call EXCEPT ![t] = NoCall]
      BY DEF Submit
    <3>2. at \in [Threads -> {"out", "create", "submit", "wait"}]
      BY DEF ThreadInv, TypeOK
    <3>3. QED  BY <1>1, <1>5, <3>1, <3>2, CallTypes
  <2>2. QED  BY <2>1 DEF Submit, ThreadInv, NotItself
<1>10. OwnCall'
  <2>1. call' = call \/ call' = [call EXCEPT ![t] = NoCall]
    BY DEF Submit
  <2>2. call \in [Threads -> Calls \union {NoCall}]
    BY DEF ThreadInv, TypeOK
  <2>3. QED  BY <2>1, <2>2 DEF ThreadInv, OwnCall
<1>11. QED  BY <1>6, <1>7, <1>8, <1>9, <1>10 DEF ThreadInv

LEMMA WorkerStep ==
  ASSUME ThreadInv, NEW e \in Executors, Start(e) \/ Finish(e)
  PROVE  ThreadInv'
<1>1. CASE Start(e)
  <2>1. Head(queue[e]) \in Calls /\ Tail(queue[e]) \in Seq(Calls)
    BY <1>1 DEF Start, ThreadInv, TypeOK
  <2>2. serves[e] # "none"
    BY <1>1 DEF Start, ThreadInv, WorkHasName
  <2>3. TypeOK'
    BY <1>1, <2>1 DEF Start, ThreadInv, TypeOK
  <2>4. OnePerName' /\ OneMaker' /\ NotItself' /\ OwnCall'
    BY <1>1 DEF Start, ThreadInv, OnePerName, OneMaker, NotItself, OwnCall
  <2>5. WorkHasName'
    BY <1>1, <2>2 DEF Start, ThreadInv, TypeOK, WorkHasName
  <2>6. QED  BY <2>3, <2>4, <2>5 DEF ThreadInv
<1>2. CASE Finish(e)
  <2>1. running[e] \in Calls /\ running[e].by \in Threads
    BY <1>2, CallTypes DEF Finish, ThreadInv, TypeOK
  <2>2. /\ at' \in [Threads -> {"out", "create", "submit", "wait"}]
        /\ call' \in [Threads -> Calls \union {NoCall}]
        /\ result' \in [Threads -> {"none", "returned", "raised"}]
        /\ \A u \in Threads : at'[u] = "out" \/ (at'[u] = at[u] /\ call'[u] = call[u])
    <3>1. CASE UNCHANGED <<at, call, result>>
      BY <3>1 DEF ThreadInv, TypeOK
    <3>2. ASSUME NEW t \in Threads, NEW r \in {"returned", "raised"},
                 at' = [at EXCEPT ![t] = "out"],
                 call' = [call EXCEPT ![t] = NoCall],
                 result' = [result EXCEPT ![t] = r]
          PROVE  /\ at' \in [Threads -> {"out", "create", "submit", "wait"}]
                 /\ call' \in [Threads -> Calls \union {NoCall}]
                 /\ result' \in [Threads -> {"none", "returned", "raised"}]
                 /\ \A u \in Threads : at'[u] = "out" \/ (at'[u] = at[u] /\ call'[u] = call[u])
      BY <3>2 DEF ThreadInv, TypeOK
    <3>3. QED  BY <1>2, <2>1, <3>1, <3>2 DEF Finish
  <2>3. TypeOK'
    BY <1>2, <2>2 DEF Finish, ThreadInv, TypeOK
  <2>4. OnePerName' /\ WorkHasName'
    BY <1>2 DEF Finish, ThreadInv, TypeOK, OnePerName, WorkHasName
  <2>5. OneMaker'
    BY <1>2, <2>2 DEF Finish, ThreadInv, OneMaker
  <2>6. NotItself'
    BY <1>2, <2>2, CallTypes DEF Finish, ThreadInv, NotItself
  <2>7. OwnCall'
    <3>1. call' = call \/ call' = [call EXCEPT ![running[e].by] = NoCall]
      BY <1>2 DEF Finish
    <3>2. call \in [Threads -> Calls \union {NoCall}]
      BY DEF ThreadInv, TypeOK
    <3>3. QED  BY <2>1, <3>1, <3>2 DEF ThreadInv, OwnCall
  <2>8. QED  BY <2>3, <2>4, <2>5, <2>6, <2>7 DEF ThreadInv
<1>3. QED  BY <1>1, <1>2

LEMMA InvokeHereStep ==
  ASSUME ThreadInv, NEW t \in Threads, NEW fn \in Functions, InvokeHere(t, fn)
  PROVE  ThreadInv'
<1>1. calls' \in [Threads -> 0..MaxCalls]
  BY ThreadAssumption DEF InvokeHere, MayCall, CountCall, ThreadInv, TypeOK
<1>2. QED  BY <1>1 DEF InvokeHere, ThreadInv, TypeOK, OnePerName, OneMaker, WorkHasName, NotItself, OwnCall

(* One executor serves each name and one thread at most is making it, when *)
(* one thread constructs the first client: every executor, queue and call  *)
(* is known to its name.                                                   *)
THEOREM ThreadCorrect ==
  ASSUME OneStarter
  PROVE  Spec => []ThreadInv
<1>1. ThreadInv /\ [Next]_vars => ThreadInv'
  <2> SUFFICES ASSUME ThreadInv, [Next]_vars PROVE ThreadInv'
    OBVIOUS
  <2>1. CASE UNCHANGED vars
    BY <2>1 DEF vars, ThreadInv, TypeOK, OnePerName, OneMaker, WorkHasName, NotItself, OwnCall
  <2>2. QED  BY <2>1, InvokeHereStep, InvokeStep, CreateStep, SubmitStep, WorkerStep DEF Next
<1>2. QED  BY InitInv, <1>1, PTL DEF Spec

(* When one thread constructs the first client, no two functions of one    *)
(* name ever run at the same time, whoever calls what from which thread:   *)
(* the promise of the decorators.                                          *)
THEOREM OneAtATimeHolds ==
  ASSUME OneStarter
  PROVE  Spec => []OneAtATime
<1>1. ThreadInv => OneAtATime
  BY DEF ThreadInv, OnePerName, WorkHasName, OneAtATime
<1>2. QED  BY ThreadCorrect, <1>1, PTL

-----------------------------------------------------------------------------
(* Steps that leave alone whoever waits, and what is waited for.           *)
LEMMA ServedKept ==
  ASSUME WaitersServed, UNCHANGED <<queue, running>>,
         \A t \in Threads : at'[t] = "wait" <=> at[t] = "wait",
         \A t \in Threads : at[t] = "wait" => call'[t] = call[t],
         \A e \in Executors : serves[e] = "pipeline" => serves'[e] = "pipeline",
         \A e \in Executors : serves'[e] = "pipeline" => at'[e] # "wait"
  PROVE  WaitersServed'
<1>1. \A t, e, i : WaitedForBy(t, e, i)' <=> WaitedForBy(t, e, i)
  BY DEF WaitedForBy, Work
<1>2. \A e, i : Work(e, i)' = Work(e, i)
  BY DEF Work
<1>3. QED  BY <1>1, <1>2 DEF WaitersServed

(* A thread calls a function, and makes an executor for it.                *)
LEMMA ServedInvoke ==
  ASSUME ThreadInv, WaitersServed, NEW t \in Threads, NEW fn \in Functions, NEW ends \in Outcomes,
         Invoke(t, fn, ends)
  PROVE  WaitersServed'
<1>1. at[t] = "out" /\ at'[t] \in {"create", "submit"}
      /\ \A u \in Threads : u # t => at'[u] = at[u] /\ call'[u] = call[u]
  BY DEF Invoke, MayCall, LookUp, ThreadInv, TypeOK
<1>2. UNCHANGED <<executors, serves, queue, running>>
  BY DEF Invoke
<1>3. \A e \in Executors : serves'[e] = "pipeline" => at'[e] # "wait"
  BY <1>1, <1>2, CallTypes DEF WaitersServed
<1>4. QED  BY <1>1, <1>2, <1>3, ServedKept

LEMMA ServedCreate ==
  ASSUME ThreadInv, WaitersServed, NEW t \in Threads, NEW e \in Executors, Create(t, e)
  PROVE  WaitersServed'
<1>1. at[t] = "create" /\ at'[t] = "submit" /\ \A u \in Threads : u # t => at'[u] = at[u]
  BY DEF Create, ThreadInv, TypeOK
<1>2. serves[e] = "none" /\ \A d \in Executors : d # e => serves'[d] = serves[d]
  BY DEF Create, ThreadInv, TypeOK
<1>3. at[e] = "out"
  BY <1>2 DEF ThreadInv, NotItself
<1>4. \A d \in Executors : serves'[d] = "pipeline" => at'[d] # "wait"
  BY <1>1, <1>2, <1>3, CallTypes DEF WaitersServed
<1>5. UNCHANGED <<queue, running, call>>
  BY DEF Create
<1>6. QED  BY <1>1, <1>2, <1>4, <1>5, ServedKept

(* A thread submits its call, and waits for it or goes on.                 *)
LEMMA ServedSubmit ==
  ASSUME ThreadInv, WaitersServed, NEW t \in Threads, Submit(t)
  PROVE  WaitersServed'
<1> DEFINE name == ThreadName(call[t].fn)
<1>1. at[t] = "submit" /\ call[t] \in Calls /\ call[t].by = t /\ call[t] # NoCall
  BY CallTypes DEF Submit, ThreadInv, OneMaker, OwnCall, TypeOK
<1>2. PICK e \in Executors : e = executors[name] /\ serves[e] = name
  <2>1. name \in Names /\ executors[name] # 0
    BY <1>1, CallTypes DEF ThreadInv, OneMaker
  <2>2. executors[name] \in Executors
    BY <2>1, ThreadAssumption DEF ThreadInv, TypeOK, Executors
  <2>3. QED  BY <2>1, <2>2 DEF ThreadInv, OnePerName
<1> PICK last : last = Len(queue[e]) + 1
  OBVIOUS
<1>3. /\ queue \in [Executors -> Seq(Calls)]
      /\ queue' = [queue EXCEPT ![e] = Append(@, call[t])]
      /\ running' = running /\ serves' = serves
  BY <1>2 DEF Submit, ThreadInv, TypeOK
<1>4. /\ \A d \in Executors : Len(queue[d]) \in Nat
      /\ Len(queue'[e]) = last /\ queue'[e][last] = call[t]
      /\ \A i \in 1..Len(queue[e]) : queue'[e][i] = queue[e][i]
      /\ \A d \in Executors : d # e => queue'[d] = queue[d]
  BY <1>1, <1>3
<1>5. /\ last \in 0..Len(queue'[e]) /\ last \notin 0..Len(queue[e]) /\ last # 0
      /\ Work(e, last)' = call[t]
  BY <1>4 DEF Work
<1>6. ASSUME NEW d \in Executors, NEW i
      PROVE  /\ i \in 0..Len(queue'[d]) => i \in 0..Len(queue[d]) \/ (d = e /\ i = last)
             /\ i \in 0..Len(queue[d]) => i \in 0..Len(queue'[d]) /\ Work(d, i)' = Work(d, i)
  BY <1>3, <1>4 DEF Work
<1>7. ASSUME NEW d \in Executors, NEW i \in 0..Len(queue[d]), NEW u \in Threads
      PROVE  WaitedForBy(u, d, i)' <=> WaitedForBy(u, d, i)
  BY <1>6 DEF WaitedForBy
<1>8. \A d \in Executors : \A i \in 0..Len(queue[d]) : ~WaitedForBy(t, d, i)
  BY <1>1 DEF WaitersServed
<1>9. \A u \in Threads : WaitedForBy(u, e, last)' <=> (Blocks(call[t].fn) /\ u = t)
  BY <1>1, <1>5 DEF WaitedForBy
<1>10. /\ Blocks(call[t].fn) => at'[t] = "wait" /\ call'[t] = call[t]
       /\ ~Blocks(call[t].fn) => at'[t] = "out"
       /\ \A u \in Threads : u # t => at'[u] = at[u] /\ call'[u] = call[u]
  <2>1. /\ at \in [Threads -> {"out", "create", "submit", "wait"}]
        /\ call \in [Threads -> Calls \union {NoCall}]
    BY DEF ThreadInv, TypeOK
  <2>2. CASE Blocks(call[t].fn)
    <3>1. at' = [at EXCEPT ![t] = "wait"] /\ call' = call
      BY <2>2 DEF Submit
    <3>2. QED  BY <2>1, <2>2, <3>1
  <2>3. CASE ~Blocks(call[t].fn)
    <3>1. at' = [at EXCEPT ![t] = "out"] /\ call' = [call EXCEPT ![t] = NoCall]
      BY <2>3 DEF Submit
    <3>2. QED  BY <2>1, <2>3, <3>1
  <2>4. QED  BY <2>2, <2>3
<1>11. Blocks(call[t].fn) => name = "pipeline"
  BY DEF Blocks, ThreadName
<1> HIDE DEF name
<1>12. ASSUME NEW u \in Threads, at'[u] = "wait"
       PROVE  \E d \in Executors : \E i \in 0..Len(queue'[d]) : WaitedForBy(u, d, i)'
  <2>1. CASE u = t
    BY <1>1, <1>5, <1>9, <1>10, <1>12, <2>1
  <2>2. CASE u # t
    <3>1. PICK d \in Executors : \E i \in 0..Len(queue[d]) : WaitedForBy(u, d, i)
      BY <1>10, <1>12, <2>2 DEF WaitersServed
    <3>2. PICK i \in 0..Len(queue[d]) : WaitedForBy(u, d, i)
      BY <3>1
    <3>3. i \in 0..Len(queue'[d]) /\ WaitedForBy(u, d, i)'
      BY <1>6, <1>7, <3>2
    <3>4. QED  BY <3>3
  <2>3. QED  BY <2>1, <2>2
<1>13. ASSUME NEW u \in Threads, NEW d \in Executors, NEW i \in 0..Len(queue'[d]), WaitedForBy(u, d, i)'
       PROVE  /\ at'[u] = "wait" /\ call'[u] = Work(d, i)' /\ serves'[d] = "pipeline"
              /\ u = t => d = e /\ i = last
              /\ u # t => i \in 0..Len(queue[d]) /\ WaitedForBy(u, d, i)
  <2>1. CASE d = e /\ i = last
    BY <1>2, <1>3, <1>5, <1>9, <1>10, <1>11, <1>13, <2>1
  <2>2. CASE ~(d = e /\ i = last)
    <3>1. i \in 0..Len(queue[d]) /\ Work(d, i)' = Work(d, i) /\ WaitedForBy(u, d, i)
      BY <1>6, <1>7, <1>13, <2>2
    <3>2. u # t
      BY <1>8, <3>1
    <3>3. at[u] = "wait" /\ call[u] = Work(d, i) /\ serves[d] = "pipeline"
      BY <3>1 DEF WaitersServed
    <3>4. QED  BY <1>3, <1>10, <3>1, <3>2, <3>3
  <2>3. QED  BY <2>1, <2>2
<1>14. ASSUME NEW u \in Threads, NEW c \in Executors, NEW d \in Executors,
              NEW i \in 0..Len(queue'[c]), NEW j \in 0..Len(queue'[d]),
              WaitedForBy(u, c, i)', WaitedForBy(u, d, j)'
       PROVE  c = d /\ i = j
  <2>1. CASE u = t
    BY <1>13, <1>14, <2>1
  <2>2. CASE u # t
    <3>1. /\ i \in 0..Len(queue[c]) /\ WaitedForBy(u, c, i)
          /\ j \in 0..Len(queue[d]) /\ WaitedForBy(u, d, j)
      BY <1>13, <1>14, <2>2
    <3>2. QED  BY <3>1 DEF WaitersServed
  <2>3. QED  BY <2>1, <2>2
<1>15. ASSUME NEW d \in Executors, serves'[d] = "pipeline"
       PROVE  at'[d] # "wait"
  <2>1. CASE d = t
    <3>1. serves[t] # name
      BY <1>1, <2>1 DEF ThreadInv, NotItself, name
    <3>2. ~Blocks(call[t].fn)
      BY <1>3, <1>11, <1>15, <2>1, <3>1
    <3>3. QED  BY <1>10, <2>1, <3>2
  <2>2. CASE d # t
    BY <1>3, <1>10, <1>15, <2>2, CallTypes DEF WaitersServed
  <2>3. QED  BY <2>1, <2>2
<1>16. QED  BY <1>12, <1>13, <1>14, <1>15 DEF WaitersServed

(* A worker takes what is next: everything of that executor moves up.      *)
LEMMA ServedStart ==
  ASSUME ThreadInv, WaitersServed, NEW e \in Executors, Start(e)
  PROVE  WaitersServed'
<1>1. /\ queue \in [Executors -> Seq(Calls)] /\ running \in [Executors -> Calls \union {NoCall}]
      /\ running[e] = NoCall /\ queue[e] # <<>>
      /\ running' = [running EXCEPT ![e] = Head(queue[e])]
      /\ queue' = [queue EXCEPT ![e] = Tail(@)]
      /\ UNCHANGED <<serves, at, call>>
  BY DEF Start, ThreadInv, TypeOK
<1>2. /\ Len(queue[e]) \in Nat \ {0} /\ Len(queue'[e]) = Len(queue[e]) - 1
      /\ running'[e] = queue[e][1]
      /\ \A i \in 1..Len(queue'[e]) : queue'[e][i] = queue[e][i + 1]
      /\ \A d \in Executors : Len(queue[d]) \in Nat
      /\ \A d \in Executors : d # e => queue'[d] = queue[d] /\ running'[d] = running[d]
  BY <1>1
<1>3. \A i \in 0..Len(queue'[e]) : /\ i \in Nat /\ i + 1 \in 0..Len(queue[e])
                                   /\ Work(e, i)' = Work(e, i + 1)
  BY <1>2 DEF Work
<1>4. \A u : ~WaitedForBy(u, e, 0)
  BY <1>1 DEF WaitedForBy, Work
<1>5. \A i \in 0..Len(queue[e]) : i # 0 => i - 1 \in 0..Len(queue'[e]) /\ (i - 1) + 1 = i
  BY <1>2
<1>6. \A d \in Executors : \A i : d # e => Len(queue'[d]) = Len(queue[d]) /\ Work(d, i)' = Work(d, i)
  BY <1>2 DEF Work
<1> DEFINE Was(d, i) == IF d = e THEN i + 1 ELSE i
<1>7. ASSUME NEW d \in Executors, NEW i \in 0..Len(queue'[d])
      PROVE  /\ Was(d, i) \in 0..Len(queue[d]) /\ Work(d, i)' = Work(d, Was(d, i))
             /\ \A u : WaitedForBy(u, d, i)' <=> WaitedForBy(u, d, Was(d, i))
  <2>1. Was(d, i) \in 0..Len(queue[d]) /\ Work(d, i)' = Work(d, Was(d, i))
    BY <1>3, <1>6
  <2>2. QED  BY <2>1 DEF WaitedForBy
<1>8. ASSUME NEW d \in Executors, NEW i \in 0..Len(queue'[d]), NEW j \in 0..Len(queue'[d]),
             Was(d, i) = Was(d, j)
      PROVE  i = j
  BY <1>2, <1>8
<1>9. ASSUME NEW u \in Threads, NEW d \in Executors, NEW j \in 0..Len(queue[d]), WaitedForBy(u, d, j)
      PROVE  \E i \in 0..Len(queue'[d]) : WaitedForBy(u, d, i)'
  <2>1. CASE d = e
    <3>1. j # 0
      BY <1>4, <1>9, <2>1
    <3>2. j - 1 \in 0..Len(queue'[e]) /\ Was(d, j - 1) = j
      BY <1>5, <2>1, <3>1, <1>9
    <3>3. WaitedForBy(u, d, j - 1)'
      BY <1>7, <1>9, <2>1, <3>2
    <3>4. QED  BY <2>1, <3>2, <3>3
  <2>2. CASE d # e
    <3>1. j \in 0..Len(queue'[d]) /\ Was(d, j) = j
      BY <1>6, <2>2
    <3>2. QED  BY <1>7, <1>9, <3>1
  <2>3. QED  BY <2>1, <2>2
<1> HIDE DEF Was
<1>10. \A u \in Threads : at'[u] = "wait" =>
         \E d \in Executors : \E i \in 0..Len(queue'[d]) : WaitedForBy(u, d, i)'
  <2>1. SUFFICES ASSUME NEW u \in Threads, at[u] = "wait"
                 PROVE  \E d \in Executors : \E i \in 0..Len(queue'[d]) : WaitedForBy(u, d, i)'
    BY <1>1
  <2>2. PICK d \in Executors : \E j \in 0..Len(queue[d]) : WaitedForBy(u, d, j)
    BY <2>1 DEF WaitersServed
  <2>3. QED  BY <1>9, <2>2
<1>11. \A u \in Threads, d \in Executors : \A i \in 0..Len(queue'[d]) : WaitedForBy(u, d, i)' =>
         at'[u] = "wait" /\ call'[u] = Work(d, i)' /\ serves'[d] = "pipeline"
  BY <1>1, <1>7 DEF WaitersServed
<1>12. \A u \in Threads, c, d \in Executors :
         \A i \in 0..Len(queue'[c]), j \in 0..Len(queue'[d]) :
           WaitedForBy(u, c, i)' /\ WaitedForBy(u, d, j)' => c = d /\ i = j
  <2>1. SUFFICES ASSUME NEW u \in Threads, NEW c \in Executors, NEW d \in Executors,
                        NEW i \in 0..Len(queue'[c]), NEW j \in 0..Len(queue'[d]),
                        WaitedForBy(u, c, i)', WaitedForBy(u, d, j)'
                 PROVE  c = d /\ i = j
    OBVIOUS
  <2>2. /\ Was(c, i) \in 0..Len(queue[c]) /\ WaitedForBy(u, c, Was(c, i))
        /\ Was(d, j) \in 0..Len(queue[d]) /\ WaitedForBy(u, d, Was(d, j))
    BY <1>7, <2>1
  <2>3. c = d /\ Was(c, i) = Was(d, j)
    BY <2>2 DEF WaitersServed
  <2>4. QED  BY <1>8, <2>3
<1>13. \A d \in Executors : serves'[d] = "pipeline" => at'[d] # "wait"
  BY <1>1 DEF WaitersServed
<1>14. QED  BY <1>10, <1>11, <1>12, <1>13 DEF WaitersServed

(* A function ends, and with it the wait of its caller.                    *)
LEMMA ServedFinish ==
  ASSUME ThreadInv, WaitersServed, NEW e \in Executors, Finish(e)
  PROVE  WaitersServed'
<1> DEFINE t == running[e].by
<1>1. running[e] \in Calls /\ running[e] # NoCall /\ t \in Threads
  BY CallTypes DEF Finish, ThreadInv, TypeOK
<1>2. /\ running' = [running EXCEPT ![e] = NoCall]
      /\ running \in [Executors -> Calls \union {NoCall}]
      /\ UNCHANGED <<serves, queue>>
  BY DEF Finish, ThreadInv, TypeOK
<1>3. \A d, i : (d = e /\ i = 0) \/ d \notin Executors \/ Work(d, i)' = Work(d, i)
  BY <1>2 DEF Work
<1>4. \A u, i : ~WaitedForBy(u, e, 0)'
  BY <1>2 DEF WaitedForBy, Work
<1>5. \A u \in Threads, d \in Executors : \A i :
        WaitedForBy(u, d, i)' <=> WaitedForBy(u, d, i) /\ ~(d = e /\ i = 0)
  BY <1>3, <1>4 DEF WaitedForBy
<1>6. 0 \in 0..Len(queue[e])
  BY DEF ThreadInv, TypeOK
<1>7. WaitedForBy(t, e, 0) <=> Blocks(running[e].fn)
  BY <1>1 DEF WaitedForBy, Work
<1>8. \A u \in Threads : WaitedForBy(u, e, 0) => u = t
  BY DEF WaitedForBy, Work
<1>9. /\ at \in [Threads -> {"out", "create", "submit", "wait"}]
      /\ call \in [Threads -> Calls \union {NoCall}]
  BY DEF ThreadInv, TypeOK
<1>10. CASE Blocks(running[e].fn)
  <2>1. at' = [at EXCEPT ![t] = "out"] /\ call' = [call EXCEPT ![t] = NoCall]
    BY <1>10 DEF Finish
  <2>2. at'[t] = "out" /\ \A u \in Threads : u # t => at'[u] = at[u] /\ call'[u] = call[u]
    BY <1>1, <1>9, <2>1
  <2>3. \A d \in Executors : \A i \in 0..Len(queue[d]) : WaitedForBy(t, d, i) => d = e /\ i = 0
    BY <1>1, <1>6, <1>7, <1>10 DEF WaitersServed
  <2> HIDE DEF t
  <2>4. ASSUME NEW u \in Threads, NEW d \in Executors, NEW i \in 0..Len(queue[d])
        PROVE  WaitedForBy(u, d, i)' <=> WaitedForBy(u, d, i) /\ u # t
    BY <1>5, <1>8, <2>3
  <2>5. \A u \in Threads : at'[u] = "wait" =>
          \E d \in Executors : \E i \in 0..Len(queue'[d]) : WaitedForBy(u, d, i)'
    BY <1>2, <2>2, <2>4 DEF WaitersServed
  <2>6. \A u \in Threads, d \in Executors : \A i \in 0..Len(queue'[d]) : WaitedForBy(u, d, i)' =>
          at'[u] = "wait" /\ call'[u] = Work(d, i)' /\ serves'[d] = "pipeline"
    <3>1. SUFFICES ASSUME NEW u \in Threads, NEW d \in Executors, NEW i \in 0..Len(queue[d]),
                          WaitedForBy(u, d, i)'
                   PROVE  at'[u] = "wait" /\ call'[u] = Work(d, i)' /\ serves'[d] = "pipeline"
      BY <1>2
    <3>2. WaitedForBy(u, d, i) /\ u # t /\ ~(d = e /\ i = 0)
      BY <1>5, <2>4, <3>1
    <3>3. Work(d, i)' = Work(d, i)
      BY <1>3, <3>2
    <3>4. at[u] = "wait" /\ call[u] = Work(d, i) /\ serves[d] = "pipeline"
      BY <3>2 DEF WaitersServed
    <3>5. QED  BY <1>2, <2>2, <3>2, <3>3, <3>4
  <2>7. \A u \in Threads, c, d \in Executors :
          \A i \in 0..Len(queue'[c]), j \in 0..Len(queue'[d]) :
            WaitedForBy(u, c, i)' /\ WaitedForBy(u, d, j)' => c = d /\ i = j
    BY <1>2, <2>4 DEF WaitersServed
  <2>8. \A d \in Executors : serves'[d] = "pipeline" => at'[d] # "wait"
    BY <1>2, <2>2, CallTypes DEF WaitersServed
  <2>9. QED  BY <2>5, <2>6, <2>7, <2>8 DEF WaitersServed
<1>11. CASE ~Blocks(running[e].fn)
  <2>1. UNCHANGED <<at, call>>
    BY <1>11 DEF Finish
  <2>2. \A u : ~WaitedForBy(u, e, 0)
    BY <1>11 DEF WaitedForBy, Work
  <2>3. \A u \in Threads, d \in Executors : \A i : WaitedForBy(u, d, i)' <=> WaitedForBy(u, d, i)
    BY <1>5, <2>2
  <2>4. \A u \in Threads, d \in Executors : \A i : WaitedForBy(u, d, i) => Work(d, i)' = Work(d, i)
    BY <1>3, <2>2
  <2>5. QED  BY <1>2, <2>1, <2>3, <2>4 DEF WaitersServed
<1>12. QED  BY <1>10, <1>11

(* At the beginning nobody waits.                                          *)
LEMMA ServedInit == Init => WaitersServed
<1> SUFFICES ASSUME Init PROVE WaitersServed
  OBVIOUS
<1>1. \A e \in Executors : running[e] = NoCall /\ Len(queue[e]) = 0
  BY DEF Init
<1>2. \A e \in Executors : \A i \in 0..Len(queue[e]) : Work(e, i) = NoCall
  BY <1>1 DEF Work
<1>3. \A e \in Executors : at[e] # "wait"
  BY CallTypes DEF Init
<1>4. \A t \in Threads, e \in Executors : \A i \in 0..Len(queue[e]) : ~WaitedForBy(t, e, i)
  BY <1>2 DEF WaitedForBy
<1>5. \A t \in Threads : at[t] # "wait"
  BY DEF Init
<1>6. QED  BY <1>4, <1>5, CallTypes DEF WaitersServed

(* Whoever waits for the pipeline waits for one function that is queued or *)
(* running there, and is woken by its end and no other; and no pipeline    *)
(* thread waits, so that no threads wait for each other in a circle.       *)
THEOREM WaitersServedHolds ==
  ASSUME OneStarter
  PROVE  Spec => []WaitersServed
<1>1. ThreadInv /\ WaitersServed /\ [Next]_vars => WaitersServed'
  <2> SUFFICES ASSUME ThreadInv, WaitersServed, [Next]_vars PROVE WaitersServed'
    OBVIOUS
  <2>1. ASSUME UNCHANGED <<queue, running, at, call, serves>> PROVE WaitersServed'
    BY <2>1, ServedKept DEF WaitersServed
  <2>2. CASE UNCHANGED vars
    BY <2>1, <2>2 DEF vars
  <2>3. ASSUME NEW t \in Threads, NEW fn \in Functions, InvokeHere(t, fn) PROVE WaitersServed'
    BY <2>1, <2>3 DEF InvokeHere
  <2>4. QED
    BY <2>2, <2>3, ServedInvoke, ServedCreate, ServedSubmit, ServedStart, ServedFinish DEF Next
<1>2. QED  BY ServedInit, ThreadCorrect, <1>1, PTL DEF Spec
=============================================================================
