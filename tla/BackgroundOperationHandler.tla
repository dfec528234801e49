--------------------- MODULE BackgroundOperationHandler ---------------------
(***************************************************************************)
(* The thread pool that executes kineticio's background work (flushes,     *)
(* prefetches, snapshots) with or without a queue in front of it.          *)
(*                                                                         *)
(* Every producer is a client thread that makes one call of run or         *)
(* try_run; its function is identified with the producer.  Every slot is a *)
(* detached background thread that may be spawned.  Admin is the thread    *)
(* that reconfigures and destroys the handler.  A step is what a thread    *)
(* does between two points at which another one may interfere: a critical  *)
(* section of queue_mutex, an access to an atomic, or a notification.      *)
(* Condition variables are modelled without spurious wakeups, which the    *)
(* standard allows and does not promise.                                   *)
(***************************************************************************)
EXTENDS Integers, Sequences, FiniteSets

CONSTANTS
  Producers,      \* client threads
  Slots,          \* background threads that can exist at the same time
  Admin,          \* the thread that reconfigures and destroys the handler
  None,           \* no thread, no function
  Methods,        \* the methods producers call: "run", "try_run"
  WorkerThreads,  \* constructor argument worker_threads
  QueueDepth,     \* constructor argument queue_depth
  Configurations, \* <<worker_threads, queue_depth>> it may be changed to
  Destructible    \* the handler may be destroyed

\* The constructor refuses a queue without worker threads.
ASSUME HandlerAssumption ==
  /\ IsFiniteSet(Producers) /\ IsFiniteSet(Slots)
  /\ Producers \cap Slots = {} /\ {Admin, None} \cap (Producers \cup Slots) = {}
  /\ Admin # None
  /\ Methods \subseteq {"run", "try_run"}
  /\ WorkerThreads \in Nat /\ QueueDepth \in Nat
  /\ QueueDepth > 0 => WorkerThreads \in 1..Cardinality(Slots)
  /\ Configurations \subseteq (Nat \X Nat)
  /\ Destructible \in BOOLEAN

VARIABLES
  q,                \* queue of functions to be executed
  queue_capacity,
  thread_capacity,
  mutex,            \* the slot that holds queue_mutex while it decides to wait
  numthreads,
  shutdown,
  pc,               \* where each thread is
  method,           \* the method each producer has called
  function,         \* the function each slot has to execute
  runs,             \* how often each function has been executed
  target            \* the configuration Admin is changing to

vars == <<q, queue_capacity, thread_capacity, mutex, numthreads, shutdown, pc,
          method, function, runs, target>>

Threads == Producers \cup Slots \cup {Admin}

\* n of the free slots become threads at location l.
Spawn(pcs, n, l) ==
  \E S \in SUBSET {s \in Slots : pcs[s] = "none"} :
    /\ Cardinality(S) = n
    /\ pc' = [t \in Threads |-> IF t \in S THEN l ELSE pcs[t]]

\* The constructor.
Init ==
  /\ q = <<>>
  /\ queue_capacity = QueueDepth
  /\ thread_capacity = WorkerThreads
  /\ mutex = None
  /\ numthreads = 0
  /\ shutdown = FALSE
  /\ \E S \in SUBSET Slots :
       /\ Cardinality(S) = IF QueueDepth > 0 THEN WorkerThreads ELSE 0
       /\ pc = [t \in Threads |-> IF t \in S THEN "new"
                                  ELSE IF t \in Slots THEN "none" ELSE "idle"]
  /\ method = [p \in Producers |-> "run"]
  /\ function = [s \in Slots |-> None]
  /\ runs = [p \in Producers |-> 0]
  /\ target = <<WorkerThreads, QueueDepth>>

limits == <<queue_capacity, thread_capacity, target>>

\* Moving one thread; waking one of the threads that wait at location l, if
\* there is one, so that it goes on at location m.
Goto(t, l) == pc' = [pc EXCEPT ![t] = l]
Waiting(l) == {t \in Threads : pc[t] = l}

Notify(t, next, W, l) ==
  IF W = {} THEN Goto(t, next)
            ELSE \E w \in W : pc' = [pc EXCEPT ![t] = next, ![w] = l[w]]

-----------------------------------------------------------------------------
(***************************************************************************)
(* Producers.                                                              *)
(***************************************************************************)

\* Nobody uses a handler that is being destroyed.
InUse == pc[Admin] \in {"idle", "change_flag", "change_notify_all", "change_join",
                        "change_spawn", "change_limits"}

Call(p, name) ==
  /\ pc[p] = "idle"
  /\ InUse
  /\ name \in Methods
  /\ method' = [method EXCEPT ![p] = name]
  /\ Goto(p, IF queue_capacity # 0 THEN "push" ELSE "spawn")
  /\ UNCHANGED <<q, limits, mutex, numthreads, shutdown, function, runs>>

Run(p) == Call(p, "run")
TryRun(p) == Call(p, "try_run")

Full(p) == method[p] = "try_run" /\ Len(q) >= queue_capacity

Push(p) ==
  /\ pc[p] = "push"
  /\ mutex = None
  /\ IF Full(p)
       THEN Goto(p, "refused") /\ UNCHANGED q
       ELSE Goto(p, "notify_worker") /\ q' = Append(q, p)
  /\ UNCHANGED <<limits, mutex, numthreads, shutdown, method, function, runs>>

AfterPush(p) == IF method[p] = "run" THEN "check" ELSE "returned"

\* Mutant: the workers are not notified of a new function.
NotifyWorkerNever(p) ==
  /\ pc[p] = "notify_worker"
  /\ Goto(p, AfterPush(p))
  /\ UNCHANGED <<q, limits, mutex, numthreads, shutdown, method, function, runs>>

NotifyWorker(p) ==
  /\ pc[p] = "notify_worker"
  /\ Notify(p, AfterPush(p), Waiting("waiting"), [t \in Threads |-> "lock"])
  /\ UNCHANGED <<q, limits, mutex, numthreads, shutdown, method, function, runs>>

\* run blocks as long as the queue is over its capacity.
CheckCapacity(p) ==
  /\ pc[p] = "check"
  /\ mutex = None
  /\ Goto(p, IF Len(q) > queue_capacity THEN "blocked" ELSE "returned")
  /\ UNCHANGED <<q, limits, mutex, numthreads, shutdown, method, function, runs>>

\* Mutant: run_noqueue executes the function itself if a thread does as well.
SpawnAndInline(p) ==
  /\ pc[p] = "spawn"
  /\ IF numthreads >= thread_capacity
       THEN /\ Goto(p, "refused")
            /\ UNCHANGED function
       ELSE \E s \in Slots :
              /\ pc[s] = "none"
              /\ pc' = [pc EXCEPT ![p] = "inline", ![s] = "new_noqueue"]
              /\ function' = [function EXCEPT ![s] = p]
  /\ UNCHANGED <<q, limits, mutex, numthreads, shutdown, method, runs>>

\* try_run_noqueue, and run_noqueue, which otherwise executes the function itself.
SpawnThread(p) ==
  /\ pc[p] = "spawn"
  /\ IF numthreads >= thread_capacity
       THEN /\ Goto(p, IF method[p] = "run" THEN "inline" ELSE "refused")
            /\ UNCHANGED function
       ELSE \E s \in Slots :
              /\ pc[s] = "none"
              /\ pc' = [pc EXCEPT ![p] = "returned", ![s] = "new_noqueue"]
              /\ function' = [function EXCEPT ![s] = p]
  /\ UNCHANGED <<q, limits, mutex, numthreads, shutdown, method, runs>>

ExecuteInline(p) ==
  /\ pc[p] = "inline"
  /\ runs' = [runs EXCEPT ![p] = @ + 1]
  /\ Goto(p, "returned")
  /\ UNCHANGED <<q, limits, mutex, numthreads, shutdown, method, function>>

Produce(p) ==
  \/ Push(p) \/ NotifyWorker(p) \/ CheckCapacity(p)
  \/ SpawnThread(p) \/ ExecuteInline(p)

-----------------------------------------------------------------------------
(***************************************************************************)
(* Background threads.                                                     *)
(***************************************************************************)

\* The thread runs and counts itself.
Start(s) ==
  /\ pc[s] \in {"new", "new_noqueue"}
  /\ numthreads' = numthreads + 1
  /\ Goto(s, IF pc[s] = "new" THEN "lock" ELSE "execute_noqueue")
  /\ UNCHANGED <<q, limits, mutex, shutdown, method, function, runs>>

\* Mutant: the function stays in the queue.
TakeCopy(s) ==
  /\ pc[s] = "lock" /\ mutex = None
  /\ q # <<>> /\ ~ shutdown
  /\ function' = [function EXCEPT ![s] = Head(q)]
  /\ Goto(s, "notify_controller")
  /\ UNCHANGED <<q, limits, mutex, numthreads, shutdown, method, runs>>

Take(s) ==
  /\ pc[s] = "lock" /\ mutex = None
  /\ q # <<>> /\ ~ shutdown
  /\ function' = [function EXCEPT ![s] = Head(q)]
  /\ q' = Tail(q)
  /\ Goto(s, "notify_controller")
  /\ UNCHANGED <<limits, mutex, numthreads, shutdown, method, runs>>

\* There is nothing to do: the thread decides to wait while it holds the mutex,
DecideToWait(s) ==
  /\ pc[s] = "lock" /\ mutex = None
  /\ q = <<>> /\ ~ shutdown
  /\ mutex' = s
  /\ Goto(s, "prewait")
  /\ UNCHANGED <<q, limits, numthreads, shutdown, method, function, runs>>

\* and starts to wait when it releases it.
Wait(s) ==
  /\ pc[s] = "prewait"
  /\ mutex' = None
  /\ Goto(s, "waiting")
  /\ UNCHANGED <<q, limits, numthreads, shutdown, method, function, runs>>

Leave(s) ==
  /\ pc[s] = "lock" /\ mutex = None
  /\ shutdown
  /\ Goto(s, "exit")
  /\ UNCHANGED <<q, limits, mutex, numthreads, shutdown, method, function, runs>>

\* A producer or the destructor goes on where it waits for the queue to shrink.
Resume == [t \in Threads |-> IF t = Admin THEN "drain" ELSE "check"]

\* Mutant: nobody is told that the queue has shrunk.
NotifyControllerNever(s) ==
  /\ pc[s] = "notify_controller"
  /\ Goto(s, "execute")
  /\ UNCHANGED <<q, limits, mutex, numthreads, shutdown, method, function, runs>>

NotifyController(s) ==
  /\ pc[s] = "notify_controller"
  /\ Notify(s, "execute", Waiting("blocked") \cup Waiting("draining"), Resume)
  /\ UNCHANGED <<q, limits, mutex, numthreads, shutdown, method, function, runs>>

\* The function is executed; what it throws is swallowed.
Execute(s) ==
  /\ pc[s] \in {"execute", "execute_noqueue"}
  /\ runs' = [runs EXCEPT ![function[s]] = @ + 1]
  /\ function' = [function EXCEPT ![s] = None]
  /\ Goto(s, IF pc[s] = "execute" THEN "lock" ELSE "exit")
  /\ UNCHANGED <<q, limits, mutex, numthreads, shutdown, method>>

\* Counting itself out is the last thing a thread does.
Exit(s) ==
  /\ pc[s] = "exit"
  /\ numthreads' = numthreads - 1
  /\ Goto(s, "none")
  /\ UNCHANGED <<q, limits, mutex, shutdown, method, function, runs>>

Work(s) ==
  \/ Start(s) \/ Take(s) \/ DecideToWait(s) \/ Wait(s) \/ Leave(s)
  \/ NotifyController(s) \/ Execute(s) \/ Exit(s)

-----------------------------------------------------------------------------
(***************************************************************************)
(* Destructor and changeConfiguration.                                     *)
(***************************************************************************)

Destroy ==
  /\ Destructible
  /\ pc[Admin] = "idle"
  /\ \A p \in Producers : pc[p] \in {"idle", "returned", "refused"}
  /\ Goto(Admin, "drain")
  /\ UNCHANGED <<q, limits, mutex, numthreads, shutdown, method, function, runs>>

\* Mutant: the destructor does not wait for the queue to drain.
DrainNot ==
  /\ pc[Admin] = "drain"
  /\ Goto(Admin, "flag")
  /\ UNCHANGED <<q, limits, mutex, numthreads, shutdown, method, function, runs>>

Drain ==
  /\ pc[Admin] = "drain"
  /\ mutex = None
  /\ Goto(Admin, IF q # <<>> THEN "draining" ELSE "flag")
  /\ UNCHANGED <<q, limits, mutex, numthreads, shutdown, method, function, runs>>

\* shutdown is set, and the waiting workers notified, without the mutex.
SetShutdown ==
  /\ pc[Admin] \in {"flag", "change_flag"}
  /\ shutdown' = TRUE
  /\ Goto(Admin, IF pc[Admin] = "flag" THEN "notify_all" ELSE "change_notify_all")
  /\ UNCHANGED <<q, limits, mutex, numthreads, method, function, runs>>

NotifyAll ==
  /\ pc[Admin] \in {"notify_all", "change_notify_all"}
  /\ pc' = [t \in Threads |->
              IF t = Admin THEN IF pc[t] = "notify_all" THEN "join" ELSE "change_join"
              ELSE IF pc[t] = "waiting" THEN "lock" ELSE pc[t]]
  /\ UNCHANGED <<q, limits, mutex, numthreads, shutdown, method, function, runs>>

\* numthreads is polled until it is zero.
Destroyed ==
  /\ pc[Admin] = "join"
  /\ numthreads = 0
  /\ Goto(Admin, "destroyed")
  /\ UNCHANGED <<q, limits, mutex, numthreads, shutdown, method, function, runs>>

changeConfiguration(c) ==
  /\ pc[Admin] = "idle"
  /\ c # target
  /\ target' = c
  /\ Goto(Admin, IF queue_capacity > 0 /\ c[1] < numthreads THEN "change_flag"
                                                            ELSE "change_spawn")
  /\ UNCHANGED <<q, queue_capacity, thread_capacity, mutex, numthreads, shutdown,
                 method, function, runs>>

Joined ==
  /\ pc[Admin] = "change_join"
  /\ numthreads = 0
  /\ shutdown' = FALSE
  /\ Goto(Admin, "change_spawn")
  /\ UNCHANGED <<q, limits, mutex, numthreads, method, function, runs>>

\* As many workers are added as the new configuration asks for.
SpawnWorkers ==
  /\ pc[Admin] = "change_spawn"
  /\ LET first == IF queue_capacity > 0 THEN numthreads ELSE 0
         missing == IF target[2] > 0 /\ target[1] > first THEN target[1] - first ELSE 0
     IN  Spawn([pc EXCEPT ![Admin] = "change_limits"], missing, "new")
  /\ UNCHANGED <<q, limits, mutex, numthreads, shutdown, method, function, runs>>

SetLimits ==
  /\ pc[Admin] = "change_limits"
  /\ thread_capacity' = target[1]
  /\ queue_capacity' = target[2]
  /\ Goto(Admin, "idle")
  /\ UNCHANGED <<q, target, mutex, numthreads, shutdown, method, function, runs>>

Administer ==
  \/ Drain \/ SetShutdown \/ NotifyAll \/ Destroyed
  \/ Joined \/ SpawnWorkers \/ SetLimits

-----------------------------------------------------------------------------
Next ==
  \/ \E p \in Producers : Run(p) \/ TryRun(p) \/ Produce(p)
  \/ \E s \in Slots : Work(s)
  \/ Destroy \/ (\E c \in Configurations : changeConfiguration(c)) \/ Administer

Spec == Init /\ [][Next]_vars

\* The operating system schedules every thread that can run; a mutex is not
\* withheld from one thread for ever.
Fairness ==
  /\ \A p \in Producers : SF_vars(Produce(p))
  /\ \A s \in Slots : SF_vars(Work(s))
  /\ SF_vars(Administer)

FairSpec == Spec /\ Fairness

-----------------------------------------------------------------------------
Occurrences(p) ==
  Cardinality({i \in DOMAIN q : q[i] = p}) + Cardinality({s \in Slots : function[s] = p})

Accepted(p) == pc[p] \in {"notify_worker", "check", "blocked", "returned"}

\* Every function that has been accepted is in the queue, in the hands of one
\* thread, or has been executed, exactly once; no other function is.
NothingLostOrRepeated ==
  \A p \in Producers :
    Occurrences(p) + runs[p] = IF Accepted(p) THEN 1 ELSE 0

\* What the handler has done with a function.
ExecutorState == [p \in Producers |-> IF runs[p] > 1 THEN "repeated"
                                      ELSE IF runs[p] = 1 THEN "executed"
                                      ELSE IF Accepted(p) THEN "accepted"
                                      ELSE IF pc[p] = "refused" THEN "refused" ELSE "new"]

Executor == INSTANCE Executor WITH Functions <- Producers, state <- ExecutorState

\* The handler implements Executor: no function is executed twice, after it was
\* refused, or given up once it was accepted, whatever the configuration is and
\* is changed to.
ImplementsExecutor == Executor!Spec

\* The configuration has not been changed.
Unchanged == target = <<WorkerThreads, QueueDepth>>

\* When the destructor is done every accepted function has been executed, whatever
\* the configuration was changed to, except those for which run_noqueue or
\* try_run_noqueue has created a thread that had not counted itself.
DestroyedRanAll ==
  pc[Admin] = "destroyed" =>
    \A p \in Producers : Accepted(p) =>
      \/ runs[p] = 1
      \/ \E s \in Slots : function[s] = p /\ pc[s] \in {"new_noqueue", "execute_noqueue"}

\* "Ensure all background threads have terminated before destructing the
\* object": no thread of a destroyed handler is left.
DestroyedQuiet ==
  pc[Admin] = "destroyed" => \A s \in Slots : pc[s] = "none"

\* "worker_threads: maximum number of spawned background threads."
ThreadLimit == Cardinality({s \in Slots : pc[s] # "none"}) <= thread_capacity

\* Every function that is accepted is executed, unless the configuration changes.
AcceptedRuns == \A p \in Producers : Accepted(p) ~> runs[p] = 1 \/ ~ Unchanged

\* "The calling thread will be blocked until queue shrinks below capacity": a
\* call of run that blocks goes on once the queue has shrunk.
RunReturns == \A p \in Producers : pc[p] = "blocked" ~> pc[p] = "returned" \/ ~ Unchanged

\* A handler whose destruction has begun is eventually gone: every worker sees
\* the shutdown and terminates.
DestructorReturns == pc[Admin] = "drain" ~> pc[Admin] = "destroyed"
=============================================================================
