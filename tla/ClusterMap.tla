----------------------------- MODULE ClusterMap -----------------------------
(***************************************************************************)
(* The objects all users of the library share: the configuration that      *)
(* KineticIoSingleton loads and reloads, the cluster objects ClusterMap    *)
(* hands out, and the statistics each cluster object has updated for it by *)
(* the thread pool.                                                        *)
(*                                                                         *)
(* A cluster object lives as long as somebody holds a shared_ptr to it:    *)
(* the map until its next reset, and the threads that asked for it.  The   *)
(* functions queued for the pool hold none; they carry `this' and the      *)
(* DestructionMutex of the object.                                         *)
(***************************************************************************)
EXTENDS Integers, FiniteSets, Sequences, Functions

CONSTANTS
  Ids,            \* the cluster ids that are asked for
  Files,          \* the contents the configuration files may have
  Threads,        \* the threads that use the library
  NumWorkers,     \* the number of threads of the pool
  Drives,         \* the drives of a cluster
  QueueCapacity,  \* of the pool, which is in queue mode
  Modulus,        \* of the counters: 2^64 in the code
  MaxLoads,       \* bound on the number of times they are loaded
  MaxCalls,       \* bound on the calls the threads make
  MaxTraffic,     \* bound on the operations a drive counts
  MaxFaults,      \* bound on the requests that drives do not answer
  MaxElapse,      \* bound on the periods of more than two seconds that pass
  None

Workers == 1..NumWorkers

\* What the files say of an id: nothing, a usable cluster, a cluster with an
\* unknown drive or too few data chunks, or one with too large a block size.
Information == {"none", "good", "invalid", "oversized"}

\* Where loading the contents ends: never, before or in parseConfiguration.
Contents == [info : [Ids -> Information], error : {"none", "syntax", "configuration"}]

ASSUME MapAssumption ==
  /\ Files \subseteq Contents
  /\ None \notin Nat
  /\ {NumWorkers, QueueCapacity, Modulus} \subseteq Nat \ {0}
  /\ {MaxLoads, MaxCalls, MaxTraffic, MaxFaults, MaxElapse} \subseteq Nat

VARIABLES
  configuration,  \* the contents each member of configuration was read from
  settings,       \* the contents that cache and pool are configured by
  loader,         \* the thread that loads the configuration
  map,            \* the cluster map
  cluster,        \* the cluster objects, in the order of their construction
  thread,         \* the threads that use the library
  queue,          \* the updates of statistics in the queue of the pool
  worker,         \* the threads of the pool
  traffic,        \* the operations each drive has served
  count           \* how often the bounded things have happened

vars == <<configuration, settings, loader, map, cluster, thread, queue,
          worker, traffic, count>>

Snapshot0 == [seen |-> [d \in Drives |-> 0], total |-> 0, period |-> 0, published |-> FALSE]

Init ==
  /\ configuration = [capacity |-> None, pool |-> None]
  /\ settings = configuration
  /\ loader = [pc |-> "idle", contents |-> None, doomed |-> {}]
  /\ map = [contents |-> None, cache |-> [id \in Ids |-> None], resets |-> 0]
  /\ cluster = <<>>
  /\ thread = [t \in Threads |-> [pc |-> "idle", held |-> None, temporary |-> None, id |-> None,
                                   resets |-> 0, polls |-> FALSE]]
  /\ queue = <<>>
  /\ worker = [w \in Workers |-> [pc |-> "idle", update |-> None, seen |-> None]]
  /\ traffic = [d \in Drives |-> 0]
  /\ count = [loads |-> 0, calls |-> 0, faults |-> 0, elapsed |-> 0]

Bounded(thing, bound) ==
  /\ count[thing] < bound
  /\ count' = [count EXCEPT ![thing] = @ + 1]

\* The drives that answer: all of them, or not, which counts as a fault.
Answering ==
  {[set |-> Drives, faults |-> count.faults]} \cup
  {[set |-> S, faults |-> count.faults + 1] :
      S \in IF count.faults < MaxFaults THEN SUBSET Drives \ {Drives} ELSE {}}

-----------------------------------------------------------------------------
(***************************************************************************)
(* The life of a cluster object.                                           *)
(***************************************************************************)

\* Whether somebody holds a shared_ptr to n in the given state of affairs.
Referenced(n, cache, threads) ==
  \/ \E id \in Ids : cache[id] = n
  \/ \E t \in Threads : n \in {threads[t].held, threads[t].temporary}

\* Mutant: the destructor does not wait for an update that is under way.
setDestructedAtOnce(n) ==
  cluster' = [cluster EXCEPT ![n].destructed = TRUE]

\* The destructor of n: DestructionMutex::setDestructed has to wait for the
\* update that holds the mutex; then the members of the object go.
setDestructed(n) ==
  /\ cluster[n].lock = None
  /\ cluster' = [cluster EXCEPT ![n].destructed = TRUE]

\* The KineticCluster constructor: it takes the limits from any drive that
\* answers, and has the first update of the statistics queued if there is room.
Constructed(id, answered) ==
  [id |-> id, resets |-> map.resets, limits |-> answered, mutex |-> None, lock |-> None,
   scheduled |-> FALSE, destructed |-> FALSE, snapshot |-> Snapshot0]

try_run(n) == queue' = IF Len(queue) < QueueCapacity THEN Append(queue, n) ELSE queue

-----------------------------------------------------------------------------
(***************************************************************************)
(* Asking the map for a cluster.  Its mutex is free unless the loader is   *)
(* in the middle of a reset.                                               *)
(***************************************************************************)

Unlocked == loader.pc # "reset"

\* getCluster has cluster n for thread t.  For getAdminCluster it is only a
\* temporary; the cluster will be looked up again.
Obtained(t, id, n, admin) ==
  IF admin THEN [thread[t] EXCEPT !.pc = "temporary", !.temporary = n, !.id = id,
                                  !.resets = map.resets]
           ELSE [thread[t] EXCEPT !.held = n]

Known(id) == IF map.contents = None THEN "none" ELSE map.contents.info[id]

\* The cluster object is there already.
Hit(t, id, admin) ==
  /\ map.cache[id] # None
  /\ thread' = [thread EXCEPT ![t] = Obtained(t, id, map.cache[id], admin)]
  /\ UNCHANGED <<map, cluster, queue>>
  /\ Bounded("calls", MaxCalls)

\* It is constructed.  A block size that is too large is only noticed if some
\* drive answers; if none does the object stays without limits.
Miss(t, id, admin, answer) ==
  /\ map.cache[id] = None
  /\ Known(id) = "good" \/ (Known(id) = "oversized" /\ answer.set = {})
  /\ LET n == Len(cluster) + 1
     IN /\ cluster' = Append(cluster, Constructed(id, answer.set # {}))
        /\ map' = [map EXCEPT !.cache[id] = n]
        /\ thread' = [thread EXCEPT ![t] = Obtained(t, id, n, admin)]
        /\ try_run(n)
  /\ count' = [count EXCEPT !.calls = @ + 1, !.faults = answer.faults]

\* getCluster throws.
Refused(id, answer) ==
  /\ map.cache[id] = None
  /\ Known(id) \in {"none", "invalid"} \/ (Known(id) = "oversized" /\ answer.set # {})
  /\ count' = [count EXCEPT !.calls = @ + 1, !.faults = answer.faults]
  /\ UNCHANGED <<map, cluster, thread, queue>>

getCluster(t, id, admin) ==
  /\ thread[t].pc = "idle" /\ thread[t].held = None
  /\ Unlocked
  /\ count.calls < MaxCalls
  /\ \/ Hit(t, id, admin)
     \/ \E answer \in Answering : Miss(t, id, admin, answer) \/ Refused(id, answer)
  /\ UNCHANGED <<configuration, settings, loader, worker, traffic>>

\* Thread t is rid of its pointers to a cluster, which it destructs if they were
\* the last ones, and continues at pc.
Dropped(t, n, pc) ==
  LET alone == [thread EXCEPT ![t].held = None, ![t].temporary = None]
  IN thread' = [alone EXCEPT
       ![t] = IF Referenced(n, map.cache, alone)
                THEN [@ EXCEPT !.pc = pc]
                ELSE [@ EXCEPT !.pc = IF pc = "idle" THEN "destruct" ELSE "destruct temporary",
                               !.temporary = n]]

\* getAdminCluster ignores what getCluster returned.
DropTemporary(t) ==
  /\ thread[t].pc = "temporary"
  /\ Dropped(t, thread[t].temporary, "lookup")
  /\ UNCHANGED <<configuration, settings, loader, map, cluster, queue, worker, traffic, count>>

\* It takes the cluster from clusterCache, without the mutex.  If the map is just
\* being reset anything may come of it.
Lookup(t) ==
  /\ thread[t].pc = "lookup"
  /\ LET n == map.cache[thread[t].id]
     IN thread' = [thread EXCEPT ![t] = [@ EXCEPT
          !.pc = IF Unlocked THEN "idle" ELSE "crashed",
          !.held = IF Unlocked THEN n ELSE None,
          !.id = None, !.resets = 0]]
  /\ UNCHANGED <<configuration, settings, loader, map, cluster, queue, worker, traffic, count>>

Release(t) ==
  /\ thread[t].pc = "idle" /\ thread[t].held # None
  /\ Dropped(t, thread[t].held, "idle")
  /\ UNCHANGED <<configuration, settings, loader, map, cluster, queue, worker, traffic, count>>

Destruct(t) ==
  /\ thread[t].pc \in {"destruct", "destruct temporary"}
  /\ setDestructed(thread[t].temporary)
  /\ thread' = [thread EXCEPT ![t].temporary = None,
                              ![t].pc = IF @ = "destruct" THEN "idle" ELSE "lookup"]
  /\ UNCHANGED <<configuration, settings, loader, map, queue, worker, traffic, count>>

-----------------------------------------------------------------------------
(***************************************************************************)
(* KineticCluster::stats, called by itself and by the polling loop of      *)
(* KineticAdminCluster::status.                                            *)
(***************************************************************************)

Rest == <<configuration, settings, loader, map>>

Call(t, polls) ==
  /\ thread[t].pc = "idle" /\ thread[t].held # None
  /\ Bounded("calls", MaxCalls)
  /\ thread' = [thread EXCEPT ![t].pc = "stats", ![t].polls = polls]
  /\ UNCHANGED <<Rest, cluster, queue, worker, traffic>>

\* Where a thread goes on that stats has returned to: status asks until the first
\* snapshot is there, and then once more.
AfterStats(t) ==
  IF ~ thread[t].polls THEN [thread[t] EXCEPT !.pc = "idle"]
  ELSE [thread[t] EXCEPT !.pc = "stats",
                         !.polls = ~ cluster[thread[t].held].snapshot.published]

\* The last update was scheduled less than two seconds ago.
StatsFresh(t) ==
  /\ thread[t].pc = "stats"
  /\ cluster[thread[t].held].mutex = None
  /\ cluster[thread[t].held].scheduled
  /\ thread' = [thread EXCEPT ![t] = AfterStats(t)]
  /\ UNCHANGED <<Rest, cluster, queue, worker, traffic, count>>

\* Another one is due: run() queues it while stats holds the mutex ...
StatsRun(t) ==
  /\ thread[t].pc = "stats"
  /\ LET n == thread[t].held
     IN /\ cluster[n].mutex = None
        /\ ~ cluster[n].scheduled
        /\ cluster' = [cluster EXCEPT ![n].mutex = t]
        /\ queue' = Append(queue, n)
  /\ thread' = [thread EXCEPT ![t].pc = "run"]
  /\ UNCHANGED <<Rest, worker, traffic, count>>

\* ... and returns when the queue is not above its capacity.
StatsScheduled(t) ==
  /\ thread[t].pc = "run"
  /\ Len(queue) <= QueueCapacity
  /\ cluster' = [cluster EXCEPT ![thread[t].held].mutex = None,
                                ![thread[t].held].scheduled = TRUE]
  /\ thread' = [thread EXCEPT ![t] = AfterStats(t)]
  /\ UNCHANGED <<Rest, queue, worker, traffic, count>>

\* More than two seconds pass.
Elapse ==
  /\ \E n \in DOMAIN cluster : cluster[n].scheduled
  /\ Bounded("elapsed", MaxElapse)
  /\ cluster' = [n \in DOMAIN cluster |-> [cluster[n] EXCEPT !.scheduled = FALSE]]
  /\ UNCHANGED <<Rest, thread, queue, worker, traffic>>

-----------------------------------------------------------------------------
(***************************************************************************)
(* KineticCluster::updateSnapshot, executed by a thread of the pool.       *)
(***************************************************************************)

\* The workers are alike: the first idle one takes the next function.
Take(w) ==
  /\ worker[w].pc = "idle" /\ \A v \in 1..(w - 1) : worker[v].pc # "idle"
  /\ queue # <<>>
  /\ queue' = Tail(queue)
  /\ worker' = [worker EXCEPT ![w].pc = "lock", ![w].update = Head(queue)]
  /\ UNCHANGED <<Rest, cluster, thread, traffic, count>>

\* Mutant: the updates of a cluster do not exclude each other.
LockShared(w) ==
  /\ worker[w].pc = "lock"
  /\ LET n == worker[w].update
     IN IF cluster[n].destructed
          THEN worker' = [worker EXCEPT ![w].pc = "idle", ![w].update = None] /\ UNCHANGED cluster
          ELSE /\ worker' = [worker EXCEPT ![w].pc = "collect"]
               /\ cluster' = [cluster EXCEPT ![n].lock = w]
  /\ UNCHANGED <<Rest, thread, queue, traffic, count>>

\* DestructionMutex::lock throws if the object has been destructed; the pool
\* drops the exception.
Lock(w) ==
  /\ worker[w].pc = "lock"
  /\ LET n == worker[w].update
     IN /\ cluster[n].lock = None
        /\ IF cluster[n].destructed
             THEN worker' = [worker EXCEPT ![w].pc = "idle", ![w].update = None] /\ UNCHANGED cluster
             ELSE /\ worker' = [worker EXCEPT ![w].pc = "collect"]
                  /\ cluster' = [cluster EXCEPT ![n].lock = w]
  /\ UNCHANGED <<Rest, thread, queue, traffic, count>>

\* The log operation: the counters of the drives that answer.  The clients of the
\* cluster may have kept the drives busy since the last time.
Collect(w) ==
  /\ worker[w].pc = "collect"
  /\ traffic' \in {f \in [Drives -> 0..MaxTraffic] : \A d \in Drives : f[d] >= traffic[d]}
  /\ \E answer \in Answering :
       /\ worker' = [worker EXCEPT ![w].pc = "publish",
            ![w].seen = [d \in Drives |-> IF d \in answer.set THEN traffic'[d] ELSE None]]
       /\ count' = [count EXCEPT !.faults = answer.faults]
  /\ UNCHANGED <<Rest, cluster, thread, queue>>

Answered(seen) == {d \in Drives : seen[d] # None}
Total(seen) == SumFunctionOnSet(seen, Answered(seen))

\* The snapshot after an update that has seen these counters.
Updated(snapshot, seen) ==
  [seen |-> seen, total |-> Total(seen), published |-> TRUE,
   period |-> (Total(seen) - snapshot.total) % Modulus]

\* Mutant: the DestructionMutex stays locked.
PublishLocked(w) ==
  /\ worker[w].pc = "publish"
  /\ LET n == worker[w].update
     IN /\ cluster[n].mutex = None
        /\ cluster' = [cluster EXCEPT ![n].snapshot = Updated(@, worker[w].seen)]
  /\ worker' = [worker EXCEPT ![w] = [pc |-> "idle", update |-> None, seen |-> None]]
  /\ UNCHANGED <<Rest, thread, queue, traffic, count>>

\* The variables of the cluster are updated under its mutex.
Publish(w) ==
  /\ worker[w].pc = "publish"
  /\ LET n == worker[w].update
     IN /\ cluster[n].mutex = None
        /\ cluster' = [cluster EXCEPT ![n].snapshot = Updated(@, worker[w].seen),
                                      ![n].lock = None]
  /\ worker' = [worker EXCEPT ![w] = [pc |-> "idle", update |-> None, seen |-> None]]
  /\ UNCHANGED <<Rest, thread, queue, traffic, count>>

-----------------------------------------------------------------------------
(***************************************************************************)
(* KineticIoSingleton::loadConfiguration, called by the constructor of the *)
(* singleton and by KineticIoFactory::reloadConfiguration.                 *)
(***************************************************************************)

Users == <<cluster, thread, queue, worker, traffic>>

\* What parseConfiguration has assigned when it returns or throws, if the contents
\* are read that far.
Parsed(contents) ==
  CASE contents.error = "none"          -> [capacity |-> contents, pool |-> contents]
    [] contents.error = "configuration" -> [configuration EXCEPT !.capacity = contents]
    [] contents.error = "syntax"        -> configuration

\* Mutant: the clusters are taken over before the configuration has been parsed.
LoadMapFirst(contents) ==
  /\ loader.pc = "idle"
  /\ Bounded("loads", MaxLoads)
  /\ configuration' = Parsed(contents)
  /\ loader' = IF contents.error = "none" THEN [loader EXCEPT !.pc = "parsed", !.contents = contents] ELSE loader
  /\ map' = IF contents.error = "configuration" THEN [map EXCEPT !.contents = contents] ELSE map
  /\ UNCHANGED <<settings, Users>>

\* Drives, clusters and configuration are parsed, in this order.  The members of
\* configuration are assigned as they are read, before the mutex is taken.
Load(contents) ==
  /\ loader.pc = "idle"
  /\ Bounded("loads", MaxLoads)
  /\ configuration' = Parsed(contents)
  /\ loader' = IF contents.error = "none" THEN [loader EXCEPT !.pc = "parsed", !.contents = contents] ELSE loader
  /\ UNCHANGED <<settings, map, Users>>

\* Mutant: the clusters constructed so far stay in the cache.
ResetCached ==
  /\ loader.pc = "parsed"
  /\ map' = [map EXCEPT !.contents = loader.contents, !.resets = @ + 1]
  /\ loader' = [loader EXCEPT !.pc = "reset"]
  /\ UNCHANGED <<configuration, settings, Users, count>>

\* ClusterMap::reset takes over the new information and clears the cache, which
\* destructs, with the mutex of the map locked, the clusters nobody else holds.
Reset ==
  /\ loader.pc = "parsed"
  /\ LET empty == [id \in Ids |-> None]
     IN /\ map' = [contents |-> loader.contents, cache |-> empty, resets |-> map.resets + 1]
        /\ loader' = [loader EXCEPT !.pc = "reset",
             !.doomed = {n \in Range(map.cache) \ {None} : ~ Referenced(n, empty, thread)}]
  /\ UNCHANGED <<configuration, settings, Users, count>>

DestructDoomed ==
  /\ loader.pc = "reset"
  /\ \E n \in loader.doomed :
       /\ setDestructed(n)
       /\ loader' = [loader EXCEPT !.doomed = @ \ {n}]
  /\ UNCHANGED <<configuration, settings, map, thread, queue, worker, traffic, count>>

\* The cache and the pool are reconfigured.
Configure ==
  /\ loader.pc = "reset" /\ loader.doomed = {}
  /\ settings' = configuration
  /\ loader' = [loader EXCEPT !.pc = "idle", !.contents = None]
  /\ UNCHANGED <<configuration, map, Users, count>>

-----------------------------------------------------------------------------
ThreadStep(t) ==
  \/ DropTemporary(t) \/ Lookup(t) \/ Destruct(t)
  \/ StatsFresh(t) \/ StatsRun(t) \/ StatsScheduled(t)

WorkerStep(w) == Take(w) \/ Lock(w) \/ Collect(w) \/ Publish(w)

LoaderStep == Reset \/ DestructDoomed \/ Configure

Next ==
  \/ \E t \in Threads :
        \/ \E id \in Ids, admin \in BOOLEAN : getCluster(t, id, admin)
        \/ \E polls \in BOOLEAN : Call(t, polls)
        \/ Release(t)
        \/ ThreadStep(t)
  \/ \E w \in Workers : WorkerStep(w)
  \/ Elapse \/ LoaderStep \/ \E contents \in Files : Load(contents)

\* Threads that are not waiting for a lock or for the queue go on.
Fairness ==
  /\ \A t \in Threads : WF_vars(ThreadStep(t))
  /\ \A w \in Workers : WF_vars(WorkerStep(w))
  /\ WF_vars(LoaderStep)

Spec == Init /\ [][Next]_vars /\ Fairness

-----------------------------------------------------------------------------
(***************************************************************************)
(* Properties.                                                             *)
(***************************************************************************)

\* What is used exists.  A cluster is not destructed between the check in
\* DestructionMutex::lock and the last access of updateSnapshot, though nobody keeps
\* the cluster for it, and not while a thread or the map holds it.
NoUseAfterDestruction ==
  /\ \A w \in Workers :
       worker[w].pc \in {"collect", "publish"} => ~ cluster[worker[w].update].destructed
  /\ \A n \in {thread[t].held : t \in Threads} \cup Range(map.cache) :
       n # None => ~ cluster[n].destructed

\* A thread that is handed out a cluster gets the one object the map has for it,
\* constructed from the information in force, so that threads share connections and
\* statistics and none of them is given a cluster of an earlier configuration.  If
\* getCluster has found a cluster, so does getAdminCluster when it looks again,
\* unless a reload has come in between.
HandsOutCurrent ==
  [][\A t \in Threads :
       LET held == thread'[t].held
       IN /\ held \notin {thread[t].held, None} =>
               held \in Range(map'.cache) /\ cluster'[held].resets = map'.resets
          /\ thread[t].pc = "lookup" /\ thread'[t].pc # "lookup" /\ held = None =>
               map.resets > thread[t].resets]_vars

\* When no reload is under way the cluster map, the cache and the pool follow the
\* same contents of the files: a reload that throws leaves all three alone.
Coherent == loader.pc = "idle" => \A member \in {"capacity", "pool"} : settings[member] = map.contents

\* Between two snapshots for which the same drives have answered, the period is the
\* traffic of these drives in between: updates of a cluster, two of which may be
\* under way at once, are neither lost nor applied out of order.
PeriodExact ==
  [][\A n \in DOMAIN cluster :
       LET before == cluster[n].snapshot  after == cluster'[n].snapshot
       IN after # before /\ Answered(after.seen) = Answered(before.seen) =>
            /\ \A d \in Answered(after.seen) : after.seen[d] >= before.seen[d]
            /\ after.period = Total(after.seen) - Total(before.seen)]_vars

\* Every call, every update and every reload ends: neither the mutex of a cluster,
\* nor its DestructionMutex, nor that of the map is waited for for ever, and status
\* gets its first snapshot.
EverythingReturns ==
  []<>(/\ loader.pc = "idle"
       /\ queue = <<>>
       /\ \A w \in Workers : worker[w].pc = "idle"
       /\ \A t \in Threads : thread[t].pc \in {"idle", "crashed"})
=============================================================================
