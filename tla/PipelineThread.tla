--------------------------- MODULE PipelineThread ---------------------------
(***************************************************************************)
(* pipeline_thread: the decorators that move a function to the pipeline    *)
(* thread or to the callback thread.                                       *)
(*                                                                         *)
(* The threads outside the pipeline, `Callers`, are those of the           *)
(* application and of the MQTT library.  Each entry of `_executors` is a   *)
(* ThreadPoolExecutor with one worker; a worker is a thread too, and calls *)
(* decorated functions from the function it runs.  A function is one of    *)
(*   "op"     run_op of PipelineRootStage: pipeline thread, the caller     *)
(*            blocks;                                                      *)
(*   "event"  a handler of the library: pipeline thread, no wait;          *)
(*   "user"   a callback into the application: callback thread, no wait.   *)
(***************************************************************************)
EXTENDS Naturals, Sequences

CONSTANTS
  Callers,
  Starters,      (* those that may come before there is an executor        *)
  MaxExecutors,  (* bound on the executors that are made                   *)
  MaxCalls,      (* bound on the calls each thread makes                   *)
  NoCall

Names     == {"pipeline", "callback"}
Executors == 1..MaxExecutors
Threads   == Callers \union Executors
Functions == {"op", "event", "user"}
Outcomes  == {"return", "exception", "base exception"}
Calls     == [fn : Functions, by : Threads, ends : Outcomes]

ASSUME ThreadAssumption ==
  /\ MaxExecutors \in Nat /\ MaxExecutors >= 2
  /\ MaxCalls \in Nat
  /\ Starters \subseteq Callers
  /\ Callers \intersect Executors = {}
  /\ NoCall \notin Calls

ThreadName(fn) == IF fn = "user" THEN "callback" ELSE "pipeline"
Blocks(fn)     == fn = "op"

VARIABLES
  executors,  (* _executors: the executor of each name, 0 when not a key   *)
  serves,     (* the name each executor was made for, "none" before        *)
  queue,      (* the functions submitted to each executor                  *)
  running,    (* the function each worker runs                             *)
  at,         (* how far each thread is inside the wrapper                 *)
  call,       (* the call each thread is making                            *)
  result,     (* how a blocking call ended, until the thread's next call   *)
  calls       (* calls made by each thread                                 *)

vars == <<executors, serves, queue, running, at, call, result, calls>>

TypeOK ==
  /\ executors \in [Names -> 0..MaxExecutors]
  /\ serves \in [Executors -> Names \union {"none"}]
  /\ queue \in [Executors -> Seq(Calls)]
  /\ running \in [Executors -> Calls \union {NoCall}]
  /\ at \in [Threads -> {"out", "create", "submit", "wait"}]
  /\ call \in [Threads -> Calls \union {NoCall}]
  /\ result \in [Threads -> {"none", "returned", "raised"}]
  /\ calls \in [Threads -> 0..MaxCalls]

Init ==
  /\ executors = [n \in Names |-> 0]
  /\ serves = [e \in Executors |-> "none"]
  /\ queue = [e \in Executors |-> <<>>]
  /\ running = [e \in Executors |-> NoCall]
  /\ at = [t \in Threads |-> "out"]
  /\ call = [t \in Threads |-> NoCall]
  /\ result = [t \in Threads |-> "none"]
  /\ calls = [t \in Threads |-> 0]

-----------------------------------------------------------------------------
(* Who calls what: the application and the library enter the pipeline; a   *)
(* function on the pipeline thread calls back into the application or runs *)
(* another pipeline function; a callback calls a client method.  The first *)
(* call of all is made where a client is constructed: its pipeline runs an *)
(* operation from __init__.                                                *)
MayCall(t, fn) ==
  /\ calls[t] < MaxCalls /\ at[t] = "out"
  /\ t \in Callers => fn \in {"op", "event"}
  /\ t \in Callers /\ executors["pipeline"] = 0 => t \in Starters /\ fn = "op"
  /\ t \in Executors => running[t] # NoCall /\ (serves[t] = "callback" => fn = "op")

CountCall(t) == calls' = [calls EXCEPT ![t] = @ + 1]

(* Mutant: the name of the current thread is not compared.                 *)
NeverInThread(t, fn) == FALSE
InThread(t, fn) == t \in Executors /\ serves[t] = ThreadName(fn)

(* The wrapper, on the thread the function wants: it simply runs.          *)
InvokeHere(t, fn) ==
  /\ MayCall(t, fn) /\ InThread(t, fn)
  /\ CountCall(t)
  /\ UNCHANGED <<executors, serves, queue, running, at, call, result>>

(* _get_named_executor looks the executor up.  Mutant: it always makes one.*)
LookUpNothing(name) == "create"
LookUp(name) == IF executors[name] = 0 THEN "create" ELSE "submit"

(* On another thread.  How a function ends is of no interest when nobody   *)
(* waits for it.                                                           *)
Invoke(t, fn, ends) ==
  /\ MayCall(t, fn) /\ ~InThread(t, fn)
  /\ ends # "return" => Blocks(fn)
  /\ CountCall(t)
  /\ call' = [call EXCEPT ![t] = [fn |-> fn, by |-> t, ends |-> ends]]
  /\ at' = [at EXCEPT ![t] = LookUp(ThreadName(fn))]
  /\ result' = [result EXCEPT ![t] = "none"]
  /\ UNCHANGED <<executors, serves, queue, running>>

(* Executors are numbered as they are made.                                *)
Create(t, e) ==
  /\ at[t] = "create"
  /\ serves[e] = "none" /\ \A d \in 1..(e - 1) : serves[d] # "none"
  /\ LET name == ThreadName(call[t].fn) IN
       /\ executors' = [executors EXCEPT ![name] = e]
       /\ serves' = [serves EXCEPT ![e] = name]
  /\ at' = [at EXCEPT ![t] = "submit"]
  /\ UNCHANGED <<queue, running, call, result, calls>>

Submit(t) ==
  /\ at[t] = "submit"
  /\ queue' = [queue EXCEPT ![executors[ThreadName(call[t].fn)]] = Append(@, call[t])]
  /\ IF Blocks(call[t].fn)
     THEN at' = [at EXCEPT ![t] = "wait"] /\ UNCHANGED call
     ELSE at' = [at EXCEPT ![t] = "out"] /\ call' = [call EXCEPT ![t] = NoCall]
  /\ UNCHANGED <<executors, serves, running, result, calls>>

-----------------------------------------------------------------------------
(* The worker of an executor takes the next function.                      *)
Start(e) ==
  /\ running[e] = NoCall /\ queue[e] # <<>>
  /\ running' = [running EXCEPT ![e] = Head(queue[e])]
  /\ queue' = [queue EXCEPT ![e] = Tail(@)]
  /\ UNCHANGED <<executors, serves, at, call, result, calls>>

(* thread_proc ends.  An Exception is dropped, whoever waits or not; any   *)
(* other BaseException is raised again and reaches future.result().        *)
Finish(e) ==
  /\ running[e] # NoCall /\ at[e] = "out"
  /\ running' = [running EXCEPT ![e] = NoCall]
  /\ IF Blocks(running[e].fn)
     THEN LET t == running[e].by IN
          /\ at' = [at EXCEPT ![t] = "out"]
          /\ call' = [call EXCEPT ![t] = NoCall]
          /\ result' = [result EXCEPT ![t] =
                          IF running[e].ends = "base exception" THEN "raised" ELSE "returned"]
     ELSE UNCHANGED <<at, call, result>>
  /\ UNCHANGED <<executors, serves, queue, calls>>

Next ==
  \/ \E t \in Threads : \/ \E fn \in Functions : InvokeHere(t, fn) \/ \E ends \in Outcomes : Invoke(t, fn, ends)
                        \/ \E e \in Executors : Create(t, e)
                        \/ Submit(t)
  \/ \E e \in Executors : Start(e) \/ Finish(e)

Spec == Init /\ [][Next]_vars

(* Threads that are inside the wrapper, and workers, go on.                *)
FairSpec ==
  /\ Spec
  /\ \A t \in Threads : WF_vars(Submit(t)) /\ WF_vars(\E e \in Executors : Create(t, e))
  /\ \A e \in Executors : WF_vars(Start(e)) /\ WF_vars(Finish(e))

-----------------------------------------------------------------------------
(* "All pipeline functions execute in a single thread", and a busy thread  *)
(* makes the others wait: no two pipeline functions, nor two callbacks,    *)
(* ever run at the same time.                                              *)
OneAtATime ==
  \A d, e \in Executors :
    running[d] # NoCall /\ running[e] # NoCall /\ serves[d] = serves[e] => d = e

(* Every blocking call returns, also when a callback of the application    *)
(* calls a client method and when a pipeline function runs another: the    *)
(* pipeline thread never waits for the callback thread, nor for itself.    *)
BlockingCallsReturn == \A t \in Threads : at[t] = "wait" ~> at[t] = "out"

-----------------------------------------------------------------------------
(* Why OneAtATime holds when one thread constructs the first client: only  *)
(* one thread ever finds a name without an executor, the starter for the   *)
(* pipeline and the pipeline thread for the callbacks.                     *)
OnePerName ==
  /\ \A n \in Names : executors[n] # 0 => serves[executors[n]] = n
  /\ \A e \in Executors : serves[e] # "none" => executors[serves[e]] = e

OneMaker ==
  /\ executors["callback"] # 0 => executors["pipeline"] # 0
  /\ \A t \in Threads :
       LET name == ThreadName(call[t].fn) IN
       /\ at[t] # "out" => call[t] # NoCall
       /\ at[t] = "submit" => executors[name] # 0
       /\ at[t] = "create" =>
            /\ executors[name] = 0
            /\ IF name = "pipeline" THEN t \in Starters
                                    ELSE t \in Executors /\ serves[t] = "pipeline"

WorkHasName ==
  \A e \in Executors : running[e] # NoCall \/ queue[e] # <<>> => serves[e] # "none"

(* A worker that is inside the wrapper does not call what it could run.    *)
NotItself ==
  \A e \in Executors : at[e] # "out" =>
    serves[e] # "none" /\ serves[e] # ThreadName(call[e].fn)

(* What a thread calls is its own call.                                    *)
OwnCall == \A t \in Threads : call[t] # NoCall => call[t].by = t

(* The inductive invariant: the variables have their types, one executor   *)
(* serves each name, and one thread at most is making it.                  *)
ThreadInv == TypeOK /\ OnePerName /\ OneMaker /\ WorkHasName /\ NotItself /\ OwnCall

-----------------------------------------------------------------------------
(* What executor e has to do: its worker's function, then its queue.       *)
Work(e, i) == IF i = 0 THEN running[e] ELSE queue[e][i]
WaitedForBy(t, e, i) ==
  Work(e, i) # NoCall /\ Blocks(Work(e, i).fn) /\ Work(e, i).by = t

(* What BlockingCallsReturn rests on: whoever waits does so for one        *)
(* function, which is queued or runs on a pipeline thread, is woken by the *)
(* end of that one only, and no pipeline thread ever waits itself, so that *)
(* no circle of threads waits for each other.                              *)
WaitersServed ==
  /\ \A t \in Threads : at[t] = "wait" =>
       \E e \in Executors : \E i \in 0..Len(queue[e]) : WaitedForBy(t, e, i)
  /\ \A t \in Threads, e \in Executors : \A i \in 0..Len(queue[e]) : WaitedForBy(t, e, i) =>
       at[t] = "wait" /\ call[t] = Work(e, i) /\ serves[e] = "pipeline"
  /\ \A t \in Threads, d, e \in Executors :
       \A i \in 0..Len(queue[d]), j \in 0..Len(queue[e]) :
         WaitedForBy(t, d, i) /\ WaitedForBy(t, e, j) => d = e /\ i = j
  /\ \A e \in Executors : serves[e] = "pipeline" => at[e] # "wait"
=============================================================================
