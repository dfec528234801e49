-------------------------- MODULE ClusterMapProofs --------------------------
(***************************************************************************)
(* Proofs about ClusterMap, for any number of threads, workers, reloads    *)
(* and cluster objects.                                                    *)
(***************************************************************************)
EXTENDS ClusterMap, TLAPS

\* What the drives may have answered, and what a snapshot makes of it.
Counters == [Drives -> Int \cup {None}] \cup {None}
Totals == {Total(seen) : seen \in Counters} \cup {0}
Snapshots == [seen : Counters, total : Totals, published : BOOLEAN,
              period : {(a - b) % Modulus : a, b \in Totals} \cup {0}]

Objects == [id : Ids, resets : Nat, limits : BOOLEAN, mutex : Threads \cup {None},
            lock : Workers \cup {None}, scheduled : BOOLEAN, destructed : BOOLEAN,
            snapshot : Snapshots]

ThreadAt == {"idle", "temporary", "lookup", "destruct", "destruct temporary", "stats", "run",
             "crashed"}

\* The objects there are and pointers to them.
Existing == 1..Len(cluster)
Pointers == Existing \cup {None}

LoaderRecord == [pc : {"idle", "parsed", "reset"}, contents : Contents \cup {None},
                 doomed : SUBSET Existing]
MapRecord == [contents : Contents \cup {None}, cache : [Ids -> Pointers], resets : Nat]
ThreadRecord == [pc : ThreadAt, held : Pointers, temporary : Pointers, id : Ids \cup {None},
                 resets : Nat, polls : BOOLEAN]
WorkerRecord == [pc : {"idle", "lock", "collect", "publish"}, update : Pointers, seen : Counters]

TypeOK ==
  /\ loader \in LoaderRecord
  /\ map \in MapRecord
  /\ cluster \in Seq(Objects)
  /\ thread \in [Threads -> ThreadRecord]
  /\ queue \in Seq(Existing)
  /\ worker \in [Workers -> WorkerRecord]
  /\ traffic \in [Drives -> Int]

\* Where threads and workers have a pointer, and where they have none.
AttachedThread(r) ==
  /\ r.temporary # None <=> r.pc \in {"temporary", "destruct", "destruct temporary"}
  /\ r.pc \in {"stats", "run"} => r.held # None
  /\ r.held # None => r.pc \in {"idle", "stats", "run"}
  /\ r.pc \in {"temporary", "destruct temporary", "lookup"} => r.id \in Ids
AttachedWorker(r) == r.pc # "idle" => r.update # None
Attached ==
  /\ \A t \in Threads : AttachedThread(thread[t])
  /\ \A w \in Workers : AttachedWorker(worker[w])

\* The update that is under way holds the DestructionMutex of its object.
UnderWay ==
  \A w \in Workers : worker[w].pc \in {"collect", "publish"} =>
    cluster[worker[w].update].lock = w /\ ~ cluster[worker[w].update].destructed

\* What is pointed to exists, and what is about to be destructed nobody else points to.
Alive ==
  /\ \A n \in Existing : Referenced(n, map.cache, thread) => ~ cluster[n].destructed
  /\ \A n \in loader.doomed : ~ cluster[n].destructed /\ ~ Referenced(n, map.cache, thread)
  /\ \A t \in Threads : thread[t].pc \in {"destruct", "destruct temporary"} =>
       /\ \A id \in Ids : map.cache[id] # thread[t].temporary
       /\ \A u \in Threads : thread[u].held # thread[t].temporary
       /\ \A u \in Threads \ {t} : thread[u].temporary # thread[t].temporary

\* One object is changed.
Changed(n, o) ==
  /\ cluster' \in Seq(Objects) /\ Len(cluster') = Len(cluster) /\ cluster'[n] = o
  /\ \A m \in Existing \ {n} : cluster'[m] = cluster[m]

\* An assignment to one cluster object changes that object and no other.
LEMMA ChangedBy ==
  ASSUME cluster \in Seq(Objects), NEW n \in Existing, NEW o \in Objects,
         cluster' = [cluster EXCEPT ![n] = o]
  PROVE  Changed(n, o)
BY DEF Changed, Existing

\* The destructor of a cluster marks it while nobody holds its lock.
LEMMA ChangedDestructed ==
  ASSUME cluster \in Seq(Objects), NEW n \in Existing, setDestructed(n)
  PROVE  cluster[n].lock = None /\ Changed(n, [cluster[n] EXCEPT !.destructed = TRUE])
<1>1. cluster' = [cluster EXCEPT ![n] = [cluster[n] EXCEPT !.destructed = TRUE]]
  BY DEF setDestructed
<1>2. cluster[n] \in Objects
  BY DEF Existing
<1>3. [cluster[n] EXCEPT !.destructed = TRUE] \in Objects
  BY ZenonT(60), <1>2 DEF Objects
<1> QED BY ZenonT(60), <1>1, <1>3, ChangedBy DEF setDestructed

\* A background update publishes its snapshot and releases the lock of its cluster.
LEMMA ChangedPublish ==
  ASSUME cluster \in Seq(Objects), NEW w \in Workers, worker[w].update \in Existing,
         worker[w].seen \in Counters, Publish(w)
  PROVE  Changed(worker[w].update, [cluster[worker[w].update] EXCEPT
                   !.snapshot = Updated(cluster[worker[w].update].snapshot, worker[w].seen), !.lock = None])
<1> DEFINE n == worker[w].update
           s == Updated(cluster[n].snapshot, worker[w].seen)
<1>1. cluster' = [cluster EXCEPT ![n] = [cluster[n] EXCEPT !.snapshot = s, !.lock = None]]
  BY ZenonT(60) DEF Publish, Existing
<1>2. [cluster[n] EXCEPT !.snapshot = s, !.lock = None] \in Objects
  <2>1. cluster[n] \in Objects
    BY DEF Existing
  <2>2. Total(worker[w].seen) \in Totals
    BY DEF Totals
  <2>3. s \in Snapshots
    BY SMTT(60), <2>1, <2>2 DEF Updated, Snapshots, Objects
  <2> HIDE DEF s
  <2> QED BY ZenonT(60), <2>1, <2>3 DEF Objects
<1> QED BY ZenonT(60), <1>1, <1>2, ChangedBy

\* stats() takes the mutex of the cluster it is called on.
LEMMA ChangedRun ==
  ASSUME TypeOK, Attached, NEW t \in Threads, StatsRun(t)
  PROVE  Changed(thread[t].held, [cluster[thread[t].held] EXCEPT !.mutex = t])
<1> DEFINE n == thread[t].held
<1>1. n \in Existing /\ cluster \in Seq(Objects)
  BY ZenonT(60) DEF TypeOK, ThreadRecord, Pointers, Attached, AttachedThread, StatsRun
<1>2. cluster' = [cluster EXCEPT ![n] = [cluster[n] EXCEPT !.mutex = t]]
  BY DEF StatsRun
<1>3. cluster[n] \in Objects
  BY <1>1 DEF Existing
<1>4. [cluster[n] EXCEPT !.mutex = t] \in Objects
  BY <1>3 DEF Objects
<1> QED BY ZenonT(60), <1>1, <1>2, <1>4, ChangedBy

\* stats() has scheduled an update and releases the mutex.
LEMMA ChangedScheduled ==
  ASSUME TypeOK, Attached, NEW t \in Threads, StatsScheduled(t)
  PROVE  Changed(thread[t].held, [cluster[thread[t].held] EXCEPT !.mutex = None, !.scheduled = TRUE])
<1> DEFINE n == thread[t].held
<1>1. n \in Existing /\ cluster \in Seq(Objects)
  BY ZenonT(60) DEF TypeOK, ThreadRecord, Pointers, Attached, AttachedThread, StatsScheduled
<1>2. cluster' = [cluster EXCEPT ![n] = [cluster[n] EXCEPT !.mutex = None, !.scheduled = TRUE]]
  BY ZenonT(60), <1>1 DEF StatsScheduled, Existing
<1>3. cluster[n] \in Objects
  BY <1>1 DEF Existing
<1>4. [cluster[n] EXCEPT !.mutex = None, !.scheduled = TRUE] \in Objects
  BY ZenonT(60), <1>3 DEF Objects
<1> QED BY ZenonT(60), <1>1, <1>2, <1>4, ChangedBy

\* A background update gives up on a destructed cluster, or locks a living one.
LEMMA ChangedLock ==
  ASSUME TypeOK, Attached, NEW w \in Workers, Lock(w)
  PROVE  /\ worker[w].update \in Existing /\ cluster[worker[w].update].lock = None
         /\ \/ /\ cluster[worker[w].update].destructed /\ UNCHANGED cluster
               /\ worker' = [worker EXCEPT ![w].pc = "idle", ![w].update = None]
            \/ /\ ~ cluster[worker[w].update].destructed
               /\ worker' = [worker EXCEPT ![w].pc = "collect"]
               /\ Changed(worker[w].update, [cluster[worker[w].update] EXCEPT !.lock = w])
<1> DEFINE n == worker[w].update
<1>1. n \in Existing /\ cluster \in Seq(Objects)
  BY DEF TypeOK, WorkerRecord, Pointers, Attached, AttachedWorker, Lock
<1>2. cluster[n] \in Objects
  BY <1>1 DEF Existing
<1>3. [cluster[n] EXCEPT !.lock = w] \in Objects
  BY <1>2 DEF Objects
<1>4. cluster' = [cluster EXCEPT ![n] = [cluster[n] EXCEPT !.lock = w]] => Changed(n, [cluster[n] EXCEPT !.lock = w])
  BY ZenonT(60), <1>1, <1>3, ChangedBy
<1> QED BY <1>1, <1>4 DEF Lock

\* When time passes every cluster may be asked to update its statistics again.
LEMMA ElapseChanges ==
  ASSUME TypeOK, Elapse
  PROVE  /\ cluster' \in Seq(Objects) /\ Len(cluster') = Len(cluster)
         /\ \A n \in Existing : cluster'[n] = [cluster[n] EXCEPT !.scheduled = FALSE]
<1>1. DOMAIN cluster = Existing /\ Len(cluster) \in Nat
  BY DEF TypeOK, Existing
<1>2. \A n \in Existing : [cluster[n] EXCEPT !.scheduled = FALSE] \in Objects
  <2> SUFFICES ASSUME NEW n \in Existing PROVE [cluster[n] EXCEPT !.scheduled = FALSE] \in Objects
    OBVIOUS
  <2>1. cluster[n] \in Objects
    BY DEF TypeOK, Existing
  <2> QED BY ZenonT(60), <2>1 DEF Objects
<1>3. cluster' = [n \in Existing |-> [cluster[n] EXCEPT !.scheduled = FALSE]]
  BY <1>1 DEF Elapse
<1>4. cluster' \in [1..Len(cluster) -> Objects]
  BY <1>2, <1>3 DEF Existing
<1> QED BY <1>1, <1>3, <1>4

\* A cluster that is not cached is constructed behind the existing ones, which stay.
LEMMA MissAppends ==
  ASSUME TypeOK, NEW id \in Ids, NEW a \in BOOLEAN, cluster' = Append(cluster, Constructed(id, a))
  PROVE  /\ cluster' \in Seq(Objects) /\ Len(cluster') = Len(cluster) + 1
         /\ cluster'[Len(cluster) + 1] = Constructed(id, a)
         /\ \A n \in Existing : cluster'[n] = cluster[n]
<1>1. Snapshot0 \in Snapshots
  <2>1. [d \in Drives |-> 0] \in Counters
    BY DEF Counters
  <2> QED BY <2>1 DEF Snapshot0, Snapshots, Totals
<1>2. Constructed(id, a) \in Objects
  BY <1>1 DEF Constructed, Objects, TypeOK, MapRecord
<1> QED BY <1>2 DEF TypeOK, Existing

-----------------------------------------------------------------------------
\* Pointers stay what they are when no object is constructed,
LEMMA SameRecords ==
  ASSUME Len(cluster') = Len(cluster)
  PROVE  /\ Existing' = Existing /\ Pointers' = Pointers /\ LoaderRecord' = LoaderRecord
         /\ MapRecord' = MapRecord /\ ThreadRecord' = ThreadRecord /\ WorkerRecord' = WorkerRecord
<1>1. Existing' = Existing
  BY DEF Existing
<1>2. Pointers' = Pointers
  BY <1>1 DEF Pointers
<1> QED BY <1>1, <1>2 DEF LoaderRecord, MapRecord, ThreadRecord, WorkerRecord

\* and when one is.
LEMMA MoreRecords ==
  ASSUME TypeOK, cluster' \in Seq(Objects), Len(cluster') = Len(cluster) + 1
  PROVE  /\ Existing \subseteq Existing' /\ Pointers \subseteq Pointers'
         /\ Len(cluster) + 1 \in Existing'
         /\ loader \in LoaderRecord' /\ map \in MapRecord' /\ queue \in Seq(Existing')
         /\ thread \in [Threads -> ThreadRecord'] /\ worker \in [Workers -> WorkerRecord']
<1>1. Existing \subseteq Existing' /\ Len(cluster) + 1 \in Existing'
  BY DEF Existing, TypeOK
<1>2. Pointers \subseteq Pointers'
  BY <1>1 DEF Pointers
<1>3. loader \in LoaderRecord'
  BY <1>1 DEF LoaderRecord, TypeOK
<1>4. map \in MapRecord'
  BY <1>2 DEF MapRecord, TypeOK
<1>5. queue \in Seq(Existing')
  BY <1>1 DEF TypeOK
<1>6. ThreadRecord \subseteq ThreadRecord'
  BY <1>2 DEF ThreadRecord
<1>7. WorkerRecord \subseteq WorkerRecord'
  BY <1>2 DEF WorkerRecord
<1> QED BY <1>1, <1>2, <1>3, <1>4, <1>5, <1>6, <1>7 DEF TypeOK

\* The thread that gives up its pointers destructs the object if nobody else has it.
LEMMA DroppedMoves ==
  ASSUME TypeOK, NEW t \in Threads, NEW n, NEW next, Dropped(t, n, next)
  PROVE  \/ thread' = [thread EXCEPT ![t] = [@ EXCEPT !.held = None, !.temporary = None, !.pc = next]]
         \/ /\ thread' = [thread EXCEPT ![t] = [@ EXCEPT
                 !.held = None, !.temporary = n,
                 !.pc = IF next = "idle" THEN "destruct" ELSE "destruct temporary"]]
            /\ \A id \in Ids : map.cache[id] # n
            /\ \A u \in Threads \ {t} : thread[u].held # n /\ thread[u].temporary # n
<1> DEFINE bare == [thread[t] EXCEPT !.held = None, !.temporary = None]
           alone == [thread EXCEPT ![t].held = None, ![t].temporary = None]
<1>1. alone = [thread EXCEPT ![t] = bare]
  BY ZenonT(60) DEF TypeOK
<1>2. thread' = [alone EXCEPT ![t] = IF Referenced(n, map.cache, alone)
                   THEN [alone[t] EXCEPT !.pc = next]
                   ELSE [alone[t] EXCEPT !.pc = IF next = "idle" THEN "destruct" ELSE "destruct temporary",
                                         !.temporary = n]]
  BY DEF Dropped
<1> HIDE DEF alone
<1>3. alone[t] = bare /\ \A u \in Threads \ {t} : alone[u] = thread[u]
  BY <1>1 DEF TypeOK
<1>4. CASE Referenced(n, map.cache, alone)
  BY ZenonT(60), <1>1, <1>2, <1>3, <1>4 DEF TypeOK, ThreadRecord
<1>5. CASE ~ Referenced(n, map.cache, alone)
  <2>1. /\ \A id \in Ids : map.cache[id] # n
        /\ \A u \in Threads \ {t} : thread[u].held # n /\ thread[u].temporary # n
    BY <1>3, <1>5 DEF Referenced
  <2>2. thread' = [thread EXCEPT ![t] = [bare EXCEPT !.pc = IF next = "idle" THEN "destruct" ELSE "destruct temporary",
                                         !.temporary = n]]
    BY ZenonT(60), <1>1, <1>2, <1>3, <1>5 DEF TypeOK
  <2>3. [bare EXCEPT !.pc = IF next = "idle" THEN "destruct" ELSE "destruct temporary", !.temporary = n]
          = [thread[t] EXCEPT !.held = None, !.temporary = n,
                 !.pc = IF next = "idle" THEN "destruct" ELSE "destruct temporary"]
    BY ZenonT(60) DEF TypeOK, ThreadRecord
  <2> QED BY ZenonT(60), <2>1, <2>2, <2>3
<1> QED BY <1>4, <1>5

\* One thread takes a step.
LEMMA ThreadMoves ==
  ASSUME NEW R, thread \in [Threads -> R], \A u \in Threads : AttachedThread(thread[u]),
         NEW t \in Threads, NEW r \in R, AttachedThread(r), thread' = [thread EXCEPT ![t] = r]
  PROVE  /\ thread' \in [Threads -> R] /\ \A u \in Threads : AttachedThread(thread'[u])
         /\ thread'[t] = r /\ \A u \in Threads \ {t} : thread'[u] = thread[u]
OBVIOUS

\* What getCluster returns is a pointer the thread did not have.
LEMMA ObtainedType ==
  ASSUME NEW t \in Threads, thread[t].pc = "idle", thread[t].held = None, AttachedThread(thread[t]),
         NEW P, NEW id \in Ids, NEW n \in P, n # None, NEW admin \in BOOLEAN, map.resets \in Nat,
         thread[t] \in [pc : ThreadAt, held : P, temporary : P, id : Ids \cup {None},
                        resets : Nat, polls : BOOLEAN]
  PROVE  /\ Obtained(t, id, n, admin) \in [pc : ThreadAt, held : P, temporary : P,
                                           id : Ids \cup {None}, resets : Nat, polls : BOOLEAN]
         /\ AttachedThread(Obtained(t, id, n, admin))
<1>1. CASE admin
  BY ZenonT(60), <1>1 DEF Obtained, AttachedThread, ThreadAt
<1>2. CASE ~ admin
  BY ZenonT(60), <1>2 DEF Obtained, AttachedThread, ThreadAt
<1> QED BY <1>1, <1>2

\* getCluster keeps the types, on a hit and on a miss.
LEMMA GetClusterTypes ==
  ASSUME TypeOK, Attached, NEW t \in Threads, NEW id \in Ids, NEW admin \in BOOLEAN,
         getCluster(t, id, admin)
  PROVE  TypeOK' /\ Attached'
<1>1. /\ thread[t].pc = "idle" /\ thread[t].held = None /\ AttachedThread(thread[t])
      /\ UNCHANGED <<loader, worker, traffic>> /\ map.resets \in Nat
  BY DEF getCluster, Attached, TypeOK, MapRecord
<1>2. CASE Hit(t, id, admin)
  <2>1. UNCHANGED <<map, cluster, queue>> /\ map.cache[id] \in Pointers /\ map.cache[id] # None
    BY <1>2 DEF Hit, TypeOK, MapRecord
  <2> DEFINE r == Obtained(t, id, map.cache[id], admin)
  <2>2. r \in ThreadRecord /\ AttachedThread(r)
    BY SMTT(60), <1>1, <2>1, ObtainedType DEF ThreadRecord, TypeOK
  <2>3. thread' = [thread EXCEPT ![t] = r]
    BY <1>2 DEF Hit
  <2> HIDE DEF r
  <2>4. thread' \in [Threads -> ThreadRecord] /\ \A u \in Threads : AttachedThread(thread'[u])
    BY <2>2, <2>3, ThreadMoves DEF Attached, TypeOK
  <2> QED BY <1>1, <2>1, <2>4, SameRecords DEF TypeOK, Attached
<1>3. ASSUME NEW answer, Miss(t, id, admin, answer) PROVE TypeOK' /\ Attached'
  <2> DEFINE n == Len(cluster) + 1
             r == Obtained(t, id, n, admin)
  <2>1. /\ cluster' = Append(cluster, Constructed(id, answer.set # {}))
        /\ map' = [map EXCEPT !.cache[id] = n] /\ thread' = [thread EXCEPT ![t] = r] /\ try_run(n)
    BY <1>3 DEF Miss
  <2>2. cluster' \in Seq(Objects) /\ Len(cluster') = Len(cluster) + 1
    BY ZenonT(60), <2>1, MissAppends
  <2>3. /\ Pointers \subseteq Pointers' /\ n \in Existing'
        /\ loader \in LoaderRecord' /\ map \in MapRecord' /\ queue \in Seq(Existing')
        /\ thread \in [Threads -> ThreadRecord'] /\ worker \in [Workers -> WorkerRecord']
    BY <2>2, MoreRecords
  <2>4. n # None /\ n \in Pointers'
    BY <2>3, MapAssumption DEF Pointers, TypeOK
  <2>5. thread[t] \in ThreadRecord'
    BY <2>3
  <2>6. r \in ThreadRecord' /\ AttachedThread(r)
    <3> DEFINE R == [pc : ThreadAt, held : Pointers', temporary : Pointers', id : Ids \cup {None},
                     resets : Nat, polls : BOOLEAN]
    <3>1. ThreadRecord' = R
      BY DEF ThreadRecord
    <3>2. thread[t] \in R
      BY <2>5, <3>1
    <3>3. r \in R /\ AttachedThread(r)
      BY ZenonT(60), <1>1, <2>4, <3>2, ObtainedType
    <3> QED BY ZenonT(30), <3>1, <3>3
  <2>7. queue' \in Seq(Existing')
    BY <2>1, <2>3 DEF try_run
  <2>8. map' \in MapRecord'
    BY ZenonT(60), <2>1, <2>3, <2>4 DEF MapRecord
  <2> HIDE DEF r
  <2>9. thread' \in [Threads -> ThreadRecord'] /\ \A u \in Threads : AttachedThread(thread'[u])
    BY <2>1, <2>3, <2>6, ThreadMoves DEF Attached
  <2> QED BY <1>1, <2>2, <2>3, <2>7, <2>8, <2>9 DEF TypeOK, Attached
<1>4. ASSUME NEW answer, Refused(id, answer) PROVE TypeOK' /\ Attached'
  <2>1. UNCHANGED <<map, cluster, thread, queue>>
    BY <1>4 DEF Refused
  <2> QED BY <1>1, <2>1, SameRecords DEF TypeOK, Attached
<1> QED BY <1>2, <1>3, <1>4 DEF getCluster

\* A thread step that constructs no object and changes at most one.
LEMMA ThreadStepTypes ==
  ASSUME TypeOK, Attached, NEW t \in Threads,
         \/ \E polls \in BOOLEAN : Call(t, polls)
         \/ Release(t) \/ ThreadStep(t)
  PROVE  TypeOK' /\ Attached' /\ Len(cluster') = Len(cluster)
<1> DEFINE Goal == TypeOK' /\ Attached' /\ Len(cluster') = Len(cluster)
<1>0. /\ thread[t] \in ThreadRecord /\ AttachedThread(thread[t]) /\ map \in MapRecord
      /\ map.cache \in [Ids -> Pointers]
  BY DEF TypeOK, Attached, MapRecord
<1>1. ASSUME NEW r \in ThreadRecord, AttachedThread(r), thread' = [thread EXCEPT ![t] = r],
             UNCHANGED <<loader, map, worker, traffic>>, queue' \in Seq(Existing),
             cluster' \in Seq(Objects), Len(cluster') = Len(cluster)
      PROVE  Goal
  <2>1. thread' \in [Threads -> ThreadRecord] /\ \A u \in Threads : AttachedThread(thread'[u])
    BY <1>1, ThreadMoves DEF Attached, TypeOK
  <2> QED BY <1>1, <2>1, SameRecords DEF TypeOK, Attached
<1> HIDE DEF Goal
<1>2. ASSUME NEW r \in ThreadRecord, AttachedThread(r), thread' = [thread EXCEPT ![t] = r],
             UNCHANGED <<loader, map, worker, traffic, queue, cluster>>
      PROVE  Goal
  BY ZenonT(60), <1>1, <1>2 DEF TypeOK
<1>3. ASSUME NEW polls \in BOOLEAN, Call(t, polls) PROVE Goal
  <2> DEFINE r == [thread[t] EXCEPT !.pc = "stats", !.polls = polls]
  <2>1. r \in ThreadRecord /\ AttachedThread(r)
    BY ZenonT(60), <1>0, <1>3 DEF Call, ThreadRecord, ThreadAt, AttachedThread
  <2>2. thread' = [thread EXCEPT ![t] = r]
    BY ZenonT(60), <1>3 DEF Call, TypeOK
  <2> QED BY ZenonT(60), <1>2, <1>3, <2>1, <2>2 DEF Call, Rest
<1>4. ASSUME NEW n \in Pointers, n # None, NEW next \in {"idle", "lookup"}, Dropped(t, n, next),
             next = "lookup" => thread[t].id \in Ids,
             UNCHANGED <<loader, map, worker, traffic, queue, cluster>>
      PROVE  Goal
  <2> DEFINE r1 == [thread[t] EXCEPT !.held = None, !.temporary = None, !.pc = next]
             r2 == [thread[t] EXCEPT !.held = None, !.temporary = n,
                      !.pc = IF next = "idle" THEN "destruct" ELSE "destruct temporary"]
  <2>1. r1 \in ThreadRecord /\ AttachedThread(r1)
    BY ZenonT(60), <1>0, <1>4 DEF ThreadRecord, ThreadAt, AttachedThread, Pointers
  <2>2. r2 \in ThreadRecord /\ AttachedThread(r2)
    BY ZenonT(60), <1>0, <1>4 DEF ThreadRecord, ThreadAt, AttachedThread, Pointers
  <2>3. thread' = [thread EXCEPT ![t] = r1] \/ thread' = [thread EXCEPT ![t] = r2]
    BY ZenonT(60), <1>4, DroppedMoves
  <2> QED BY <1>2, <1>4, <2>1, <2>2, <2>3
<1>5. ASSUME Release(t) PROVE Goal
  BY <1>0, <1>4, <1>5 DEF Release, ThreadRecord
<1>6. ASSUME DropTemporary(t) PROVE Goal
  BY <1>0, <1>4, <1>6 DEF DropTemporary, ThreadRecord, AttachedThread
<1>7. ASSUME Lookup(t) PROVE Goal
  <2> DEFINE n == map.cache[thread[t].id]
             r == [thread[t] EXCEPT !.pc = IF Unlocked THEN "idle" ELSE "crashed",
                     !.held = IF Unlocked THEN n ELSE None, !.id = None, !.resets = 0]
  <2>1. thread[t].pc = "lookup" /\ thread' = [thread EXCEPT ![t] = r]
    BY <1>7 DEF Lookup
  <2>2. n \in Pointers /\ None \in Pointers
    BY <1>0, <2>1 DEF AttachedThread, Pointers
  <2>3. r \in ThreadRecord /\ AttachedThread(r)
    BY ZenonT(60), <1>0, <2>1, <2>2 DEF ThreadRecord, ThreadAt, AttachedThread
  <2> QED BY ZenonT(60), <1>2, <1>7, <2>1, <2>3 DEF Lookup
<1>8. ASSUME Destruct(t) PROVE Goal
  <2> DEFINE r == [thread[t] EXCEPT !.temporary = None, !.pc = IF thread[t].pc = "destruct" THEN "idle" ELSE "lookup"]
  <2>1. thread[t].pc \in {"destruct", "destruct temporary"} /\ setDestructed(thread[t].temporary)
    BY ZenonT(60), <1>8 DEF Destruct
  <2>2. thread[t].temporary \in Existing
    BY ZenonT(60), <1>0, <2>1 DEF ThreadRecord, AttachedThread, Pointers
  <2>3. cluster' \in Seq(Objects) /\ Len(cluster') = Len(cluster)
    BY ZenonT(60), <2>1, <2>2, ChangedDestructed DEF Changed, TypeOK
  <2>4. thread' = [thread EXCEPT ![t] = r]
    BY ZenonT(60), <1>0, <1>8 DEF Destruct, TypeOK, ThreadRecord
  <2>5. r \in ThreadRecord /\ AttachedThread(r)
    BY ZenonT(60), <1>0, <2>1 DEF ThreadRecord, ThreadAt, AttachedThread, Pointers
  <2>6. UNCHANGED <<loader, map, queue, worker, traffic>>
    BY ZenonT(60), <1>8 DEF Destruct
  <2> QED BY ZenonT(60), <1>1, <2>3, <2>4, <2>5, <2>6 DEF TypeOK
<1>9. ASSUME thread[t].pc \in {"stats", "run"}
      PROVE  thread[t].held \in Existing /\ AfterStats(t) \in ThreadRecord /\ AttachedThread(AfterStats(t))
  <2>1. thread[t].held \in Existing /\ thread[t].temporary = None
    BY ZenonT(60), <1>0, <1>9 DEF ThreadRecord, AttachedThread, Pointers
  <2>2. CASE thread[t].polls
    BY ZenonT(60), <1>0, <1>9, <2>1, <2>2 DEF AfterStats, ThreadRecord, ThreadAt, AttachedThread
  <2>3. CASE ~ thread[t].polls
    BY ZenonT(60), <1>0, <1>9, <2>1, <2>3 DEF AfterStats, ThreadRecord, ThreadAt, AttachedThread
  <2> QED BY <2>1, <2>2, <2>3
<1>10. ASSUME StatsFresh(t) PROVE Goal
  BY ZenonT(60), <1>2, <1>9, <1>10 DEF StatsFresh, Rest
<1>11. ASSUME StatsRun(t) PROVE Goal
  <2> DEFINE r == [thread[t] EXCEPT !.pc = "run"]
  <2>1. thread[t].pc = "stats" /\ thread' = [thread EXCEPT ![t] = r] /\ queue' = Append(queue, thread[t].held)
    BY <1>11 DEF StatsRun
  <2>2. r \in ThreadRecord /\ AttachedThread(r)
    BY ZenonT(60), <1>0, <2>1 DEF ThreadRecord, ThreadAt, AttachedThread
  <2>3. cluster' \in Seq(Objects) /\ Len(cluster') = Len(cluster)
    BY ZenonT(60), <1>11, ChangedRun DEF Changed
  <2>4. queue' \in Seq(Existing)
    BY <1>9, <2>1 DEF TypeOK
  <2> QED BY ZenonT(60), <1>1, <1>11, <2>1, <2>2, <2>3, <2>4 DEF StatsRun, Rest
<1>12. ASSUME StatsScheduled(t) PROVE Goal
  <2>1. cluster' \in Seq(Objects) /\ Len(cluster') = Len(cluster)
    BY ZenonT(60), <1>12, ChangedScheduled DEF Changed
  <2>2. queue' \in Seq(Existing)
    BY <1>12 DEF StatsScheduled, TypeOK
  <2> QED BY ZenonT(60), <1>1, <1>9, <1>12, <2>1, <2>2 DEF StatsScheduled, Rest
<1>13. Goal
  BY <1>3, <1>5, <1>6, <1>7, <1>8, <1>10, <1>11, <1>12 DEF ThreadStep
<1> QED BY <1>13 DEF Goal

\* The steps of the pool.
LEMMA WorkerStepTypes ==
  ASSUME TypeOK, Attached, NEW w \in Workers, WorkerStep(w)
  PROVE  TypeOK' /\ Attached' /\ Len(cluster') = Len(cluster)
<1> DEFINE Goal == TypeOK' /\ Attached' /\ Len(cluster') = Len(cluster)
<1>0. worker[w] \in WorkerRecord /\ AttachedWorker(worker[w])
  BY DEF TypeOK, Attached
<1>1. ASSUME NEW r \in WorkerRecord, AttachedWorker(r), worker' = [worker EXCEPT ![w] = r],
             UNCHANGED <<loader, map, thread>>, queue' \in Seq(Existing),
             traffic' \in [Drives -> Int], cluster' \in Seq(Objects), Len(cluster') = Len(cluster)
      PROVE  Goal
  <2>1. worker' \in [Workers -> WorkerRecord] /\ \A v \in Workers : AttachedWorker(worker'[v])
    BY <1>1 DEF Attached, TypeOK
  <2> QED BY <1>1, <2>1, SameRecords DEF TypeOK, Attached
<1> HIDE DEF Goal
<1>2. ASSUME Take(w) PROVE Goal
  <2> DEFINE r == [worker[w] EXCEPT !.pc = "lock", !.update = Head(queue)]
  <2>1. Head(queue) \in Existing /\ Tail(queue) \in Seq(Existing)
    BY <1>2 DEF Take, TypeOK
  <2>2. Head(queue) # None
    BY <2>1, MapAssumption DEF Existing, TypeOK
  <2>3. r \in WorkerRecord /\ AttachedWorker(r)
    BY ZenonT(60), <1>0, <2>1, <2>2 DEF WorkerRecord, AttachedWorker, Pointers
  <2>4. worker' = [worker EXCEPT ![w] = r]
    BY ZenonT(60), <1>2 DEF Take, TypeOK
  <2> QED BY ZenonT(60), <1>1, <1>2, <2>1, <2>3, <2>4 DEF Take, Rest, TypeOK
<1>3. ASSUME Lock(w) PROVE Goal
  <2>1. /\ worker[w].update \in Existing
        /\ \/ worker' = [worker EXCEPT ![w].pc = "idle", ![w].update = None]
           \/ worker[w].pc = "lock" /\ worker' = [worker EXCEPT ![w].pc = "collect"]
        /\ cluster' \in Seq(Objects) /\ Len(cluster') = Len(cluster)
    BY ZenonT(60), <1>3, ChangedLock DEF Lock, Changed, TypeOK
  <2> DEFINE r1 == [worker[w] EXCEPT !.pc = "idle", !.update = None]
             r2 == [worker[w] EXCEPT !.pc = "collect"]
  <2>2. r1 \in WorkerRecord /\ AttachedWorker(r1)
    BY ZenonT(60), <1>0 DEF WorkerRecord, AttachedWorker, Pointers
  <2>3. r2 \in WorkerRecord
    BY <1>0 DEF WorkerRecord
  <2>4. worker[w].pc = "lock" => AttachedWorker(r2)
    BY <1>0 DEF AttachedWorker, WorkerRecord
  <2>5. \/ worker' = [worker EXCEPT ![w] = r1]
        \/ worker[w].pc = "lock" /\ worker' = [worker EXCEPT ![w] = r2]
    BY ZenonT(60), <2>1 DEF TypeOK
  <2> QED BY ZenonT(60), <1>1, <1>3, <2>1, <2>2, <2>3, <2>4, <2>5 DEF Lock, Rest, TypeOK
<1>4. ASSUME Collect(w) PROVE Goal
  <2>1. traffic' \in [Drives -> Int]
    BY <1>4, MapAssumption DEF Collect
  <2>2. PICK S : worker' = [worker EXCEPT ![w].pc = "publish",
                   ![w].seen = [d \in Drives |-> IF d \in S THEN traffic'[d] ELSE None]]
    BY ZenonT(60), <1>4 DEF Collect
  <2> DEFINE seen == [d \in Drives |-> IF d \in S THEN traffic'[d] ELSE None]
             r == [worker[w] EXCEPT !.pc = "publish", !.seen = seen]
  <2>3. seen \in Counters
    BY <2>1 DEF Counters
  <2>4. worker' = [worker EXCEPT ![w] = r]
    BY ZenonT(60), <2>2 DEF TypeOK
  <2> HIDE DEF seen
  <2>5. r \in WorkerRecord /\ AttachedWorker(r)
    BY ZenonT(60), <1>0, <1>4, <2>3 DEF WorkerRecord, AttachedWorker, Collect
  <2> QED BY ZenonT(60), <1>1, <1>4, <2>1, <2>4, <2>5 DEF Collect, Rest, TypeOK
<1>5. ASSUME Publish(w) PROVE Goal
  <2> DEFINE r == [pc |-> "idle", update |-> None, seen |-> None]
  <2>1. worker[w].update \in Existing /\ worker[w].seen \in Counters
    BY <1>0, <1>5 DEF Publish, WorkerRecord, AttachedWorker, Pointers
  <2>2. cluster' \in Seq(Objects) /\ Len(cluster') = Len(cluster)
    BY ZenonT(60), <1>5, <2>1, ChangedPublish DEF Changed, TypeOK
  <2>3. r \in WorkerRecord /\ AttachedWorker(r)
    BY DEF WorkerRecord, AttachedWorker, Pointers, Counters
  <2> QED BY ZenonT(60), <1>1, <1>5, <2>2, <2>3 DEF Publish, Rest, TypeOK
<1>6. Goal
  BY <1>2, <1>3, <1>4, <1>5 DEF WorkerStep
<1> QED BY <1>6 DEF Goal

\* The steps of the loader, and of time.
LEMMA LoaderStepTypes ==
  ASSUME TypeOK, Attached, Elapse \/ LoaderStep \/ \E contents \in Files : Load(contents)
  PROVE  TypeOK' /\ Attached' /\ Len(cluster') = Len(cluster)
<1> DEFINE Goal == TypeOK' /\ Attached' /\ Len(cluster') = Len(cluster)
<1>1. ASSUME loader' \in LoaderRecord, map' \in MapRecord, UNCHANGED <<thread, queue, worker, traffic>>,
             cluster' \in Seq(Objects), Len(cluster') = Len(cluster)
      PROVE  Goal
  BY <1>1, SameRecords DEF TypeOK, Attached
<1> HIDE DEF Goal
<1>2. ASSUME Elapse PROVE Goal
  BY <1>1, <1>2, ElapseChanges DEF Elapse, Rest, TypeOK
<1>3. ASSUME NEW contents \in Files, Load(contents) PROVE Goal
  <2>1. contents \in Contents
    BY MapAssumption
  <2>2. loader' \in LoaderRecord
    BY ZenonT(60), <1>3, <2>1 DEF Load, TypeOK, LoaderRecord
  <2> QED BY ZenonT(60), <1>1, <1>3, <2>2 DEF Load, Users, TypeOK
<1>4. ASSUME Reset PROVE Goal
  <2> DEFINE empty == [id \in Ids |-> None]
             D == {n \in Range(map.cache) \ {None} : ~ Referenced(n, empty, thread)}
  <2>1. /\ map' = [contents |-> loader.contents, cache |-> empty, resets |-> map.resets + 1]
        /\ loader' = [loader EXCEPT !.pc = "reset", !.doomed = D]
    BY <1>4 DEF Reset
  <2>2. D \subseteq Existing
    BY DEF TypeOK, MapRecord, Range, Pointers
  <2>3. empty \in [Ids -> Pointers]
    BY DEF Pointers
  <2> HIDE DEF empty, D
  <2>4. map' \in MapRecord
    BY <2>1, <2>3 DEF TypeOK, MapRecord, LoaderRecord
  <2>5. loader' \in LoaderRecord
    BY ZenonT(60), <2>1, <2>2 DEF TypeOK, LoaderRecord
  <2> QED BY <1>1, <1>4, <2>4, <2>5 DEF Reset, Users, TypeOK
<1>5. ASSUME DestructDoomed PROVE Goal
  <2>1. PICK n \in loader.doomed : setDestructed(n) /\ loader' = [loader EXCEPT !.doomed = @ \ {n}]
    BY ZenonT(60), <1>5 DEF DestructDoomed
  <2>2. n \in Existing
    BY DEF TypeOK, LoaderRecord
  <2>3. cluster' \in Seq(Objects) /\ Len(cluster') = Len(cluster)
    BY ZenonT(60), <2>1, <2>2, ChangedDestructed DEF Changed, TypeOK
  <2>4. loader' \in LoaderRecord
    BY ZenonT(60), <2>1 DEF TypeOK, LoaderRecord
  <2> QED BY <1>1, <1>5, <2>3, <2>4 DEF DestructDoomed, TypeOK
<1>6. ASSUME Configure PROVE Goal
  <2>1. loader' \in LoaderRecord
    BY ZenonT(60), <1>6 DEF Configure, TypeOK, LoaderRecord
  <2> QED BY <1>1, <1>6, <2>1 DEF Configure, Users, TypeOK
<1>7. Goal
  BY <1>2, <1>3, <1>4, <1>5, <1>6 DEF LoaderStep
<1> QED BY <1>7 DEF Goal

\* Every step keeps the types.
LEMMA TypesStep ==
  ASSUME TypeOK, Attached, [Next]_vars
  PROVE  TypeOK' /\ Attached'
<1>1. CASE UNCHANGED vars
  BY <1>1, SameRecords DEF vars, TypeOK, Attached
<1> QED BY <1>1, GetClusterTypes, ThreadStepTypes, WorkerStepTypes, LoaderStepTypes DEF Next

-----------------------------------------------------------------------------
\* A step that neither destructs nor locks an object, nor moves a worker.
Calm ==
  /\ Len(cluster') >= Len(cluster)
  /\ \A n \in Existing : /\ cluster'[n].lock = cluster[n].lock
                         /\ cluster'[n].destructed = cluster[n].destructed
                         /\ cluster'[n].resets = cluster[n].resets
  /\ UNCHANGED worker

\* Most steps are of that kind.
LEMMA CalmSteps ==
  ASSUME TypeOK, Attached,
         \/ Elapse \/ Reset \/ Configure \/ UNCHANGED vars
         \/ \E contents \in Files : Load(contents)
         \/ \E t \in Threads :
              \/ \E id \in Ids, admin \in BOOLEAN : getCluster(t, id, admin)
              \/ \E polls \in BOOLEAN : Call(t, polls)
              \/ Release(t) \/ DropTemporary(t) \/ Lookup(t)
              \/ StatsFresh(t) \/ StatsRun(t) \/ StatsScheduled(t)
  PROVE  Calm
<1>0. Len(cluster) \in Nat /\ \A n \in Existing : cluster[n] \in Objects
  BY DEF TypeOK, Existing
<1>1. ASSUME UNCHANGED <<cluster, worker>> PROVE Calm
  BY <1>0, <1>1 DEF Calm
<1>2. CASE Elapse
  <2>1. Len(cluster') = Len(cluster) /\ \A n \in Existing : cluster'[n] = [cluster[n] EXCEPT !.scheduled = FALSE]
    BY <1>2, ElapseChanges
  <2>2. UNCHANGED worker
    BY <1>2 DEF Elapse
  <2>3. ASSUME NEW n \in Existing
        PROVE  /\ cluster'[n].lock = cluster[n].lock /\ cluster'[n].destructed = cluster[n].destructed
               /\ cluster'[n].resets = cluster[n].resets
    BY ZenonT(60), <1>0, <2>1 DEF Objects
  <2> QED BY <1>0, <2>1, <2>2, <2>3 DEF Calm
<1>3. CASE Reset \/ Configure \/ UNCHANGED vars \/ \E contents \in Files : Load(contents)
  BY ZenonT(60), <1>1, <1>3 DEF Reset, Configure, Load, Users, vars
<1>4. ASSUME NEW t \in Threads, NEW id \in Ids, NEW admin \in BOOLEAN, getCluster(t, id, admin)
      PROVE  Calm
  <2>1. UNCHANGED worker
    BY <1>4 DEF getCluster
  <2>2. CASE UNCHANGED cluster
    BY <1>1, <2>1, <2>2
  <2>3. ASSUME NEW answer, Miss(t, id, admin, answer) PROVE Calm
    <3>1. cluster' = Append(cluster, Constructed(id, answer.set # {}))
      BY <2>3 DEF Miss
    <3>2. Len(cluster') = Len(cluster) + 1 /\ \A n \in Existing : cluster'[n] = cluster[n]
      BY ZenonT(60), <3>1, MissAppends
    <3> QED BY <1>0, <2>1, <3>2 DEF Calm
  <2> QED BY ZenonT(60), <1>4, <2>2, <2>3 DEF getCluster, Hit, Refused
<1>5. ASSUME NEW t \in Threads, \/ \E polls \in BOOLEAN : Call(t, polls)
                                \/ Release(t) \/ DropTemporary(t) \/ Lookup(t) \/ StatsFresh(t)
      PROVE  Calm
  BY ZenonT(60), <1>1, <1>5 DEF Call, Release, DropTemporary, Lookup, StatsFresh
<1>6. ASSUME NEW t \in Threads, StatsRun(t) PROVE Calm
  <2>1. Changed(thread[t].held, [cluster[thread[t].held] EXCEPT !.mutex = t]) /\ UNCHANGED worker
    BY ZenonT(60), <1>6, ChangedRun DEF StatsRun
  <2>2. ASSUME NEW n \in Existing
        PROVE  /\ cluster'[n].lock = cluster[n].lock /\ cluster'[n].destructed = cluster[n].destructed
               /\ cluster'[n].resets = cluster[n].resets
    <3>1. cluster'[n] = cluster[n] \/ cluster'[n] = [cluster[n] EXCEPT !.mutex = t]
      BY <2>1 DEF Changed
    <3> QED BY <1>0, <3>1 DEF Objects
  <2> QED BY <1>0, <2>1, <2>2 DEF Changed, Calm
<1>7. ASSUME NEW t \in Threads, StatsScheduled(t) PROVE Calm
  <2>1. Changed(thread[t].held, [cluster[thread[t].held] EXCEPT !.mutex = None, !.scheduled = TRUE])
        /\ UNCHANGED worker
    BY ZenonT(60), <1>7, ChangedScheduled DEF StatsScheduled
  <2>2. ASSUME NEW n \in Existing
        PROVE  /\ cluster'[n].lock = cluster[n].lock /\ cluster'[n].destructed = cluster[n].destructed
               /\ cluster'[n].resets = cluster[n].resets
    <3>1. cluster'[n] = cluster[n] \/ cluster'[n] = [cluster[n] EXCEPT !.mutex = None, !.scheduled = TRUE]
      BY ZenonT(60), <2>1 DEF Changed
    <3> QED BY ZenonT(60), <1>0, <3>1 DEF Objects
  <2> QED BY <1>0, <2>1, <2>2 DEF Changed, Calm
<1> QED BY <1>2, <1>3, <1>4, <1>5, <1>6, <1>7

\* No update begins on a destructed object and none is destructed under an update.
LEMMA UnderWayStep ==
  ASSUME TypeOK, Attached, UnderWay, [Next]_vars
  PROVE  UnderWay'
<1>0. /\ \A v \in Workers : worker[v] \in WorkerRecord /\ AttachedWorker(worker[v]) /\ v # None
      /\ \A n \in Existing : cluster[n] \in Objects
  <2>1. /\ \A v \in Workers : worker[v] \in WorkerRecord
        /\ \A n \in Existing : cluster[n] \in Objects
    BY DEF TypeOK, Existing
  <2>2. \A v \in Workers : AttachedWorker(worker[v])
    BY Zenon DEF Attached
  <2>3. \A v \in Workers : v # None
    BY MapAssumption DEF Workers
  <2> QED BY Zenon, <2>1, <2>2, <2>3
<1>1. \A v \in Workers : worker[v].pc # "idle" => worker[v].update \in Existing
  BY <1>0 DEF WorkerRecord, AttachedWorker, Pointers
<1>2. CASE Calm
  BY <1>1, <1>2 DEF Calm, UnderWay
<1>3. ASSUME NEW n \in Existing, setDestructed(n), UNCHANGED worker PROVE UnderWay'
  <2>1. cluster[n].lock = None /\ Changed(n, [cluster[n] EXCEPT !.destructed = TRUE])
    BY <1>3, ChangedDestructed DEF TypeOK
  <2>2. \A v \in Workers : worker[v].pc \in {"collect", "publish"} => worker[v].update # n
    BY <1>0, <2>1 DEF UnderWay
  <2> QED BY <1>1, <1>3, <2>1, <2>2 DEF UnderWay, Changed
<1>4. ASSUME NEW t \in Threads, Destruct(t) PROVE UnderWay'
  <2>1. thread[t].temporary \in Existing
    BY ZenonT(60), <1>4 DEF TypeOK, Attached, ThreadRecord, AttachedThread, Pointers, Destruct
  <2> QED BY ZenonT(60), <1>3, <1>4, <2>1 DEF Destruct
<1>5. ASSUME DestructDoomed PROVE UnderWay'
  BY <1>3, <1>5 DEF DestructDoomed, TypeOK, LoaderRecord
<1>6. ASSUME NEW w \in Workers, Take(w) PROVE UnderWay'
  BY <1>0, <1>6 DEF Take, UnderWay, WorkerRecord, TypeOK
<1>7. ASSUME NEW w \in Workers, Lock(w) PROVE UnderWay'
  <2> DEFINE n == worker[w].update
  <2>1. n \in Existing /\ cluster[n].lock = None
    BY ZenonT(60), <1>7, ChangedLock
  <2>2. CASE UNCHANGED cluster /\ worker' = [worker EXCEPT ![w].pc = "idle", ![w].update = None]
    BY <1>0, <2>2 DEF UnderWay, WorkerRecord, TypeOK
  <2>3. CASE /\ ~ cluster[n].destructed /\ worker' = [worker EXCEPT ![w].pc = "collect"]
             /\ Changed(n, [cluster[n] EXCEPT !.lock = w])
    <3>1. cluster'[n].lock = w /\ ~ cluster'[n].destructed
      BY <1>0, <2>1, <2>3 DEF Changed, Objects
    <3>2. worker'[w].update = n /\ \A v \in Workers \ {w} : worker'[v] = worker[v]
      BY <1>0, <2>3 DEF TypeOK, WorkerRecord
    <3>3. \A v \in Workers : worker[v].pc \in {"collect", "publish"} => worker[v].update # n
      BY <1>0, <2>1 DEF UnderWay
    <3>4. \A m \in Existing \ {n} : cluster'[m] = cluster[m]
      BY <2>3 DEF Changed
    <3> QED BY SMTT(60), <1>1, <3>1, <3>2, <3>3, <3>4 DEF UnderWay
  <2> QED BY <1>7, <2>2, <2>3, ChangedLock
<1>8. ASSUME NEW w \in Workers, Collect(w) PROVE UnderWay'
  <2>1. \A v \in Workers : worker'[v].update = worker[v].update
    BY <1>0, <1>8 DEF Collect, TypeOK, WorkerRecord
  <2>2. \A v \in Workers : worker'[v].pc \in {"collect", "publish"} => worker[v].pc \in {"collect", "publish"}
    BY <1>0, <1>8 DEF Collect, TypeOK, WorkerRecord
  <2> QED BY ZenonT(60), <1>8, <2>1, <2>2 DEF UnderWay, Collect
<1>9. ASSUME NEW w \in Workers, Publish(w) PROVE UnderWay'
  <2> DEFINE n == worker[w].update
  <2>1. /\ worker[w].pc = "publish" /\ worker'[w].pc = "idle"
        /\ \A v \in Workers \ {w} : worker'[v] = worker[v]
    BY <1>9 DEF Publish, TypeOK
  <2>2. n \in Existing /\ cluster[n].lock = w /\ worker[w].seen \in Counters
    BY <1>0, <1>1, <2>1 DEF UnderWay, WorkerRecord
  <2>3. \A m \in Existing \ {n} : cluster'[m] = cluster[m]
    BY ZenonT(60), <1>9, <2>2, ChangedPublish DEF Changed, TypeOK
  <2>4. \A v \in Workers \ {w} : worker[v].pc \in {"collect", "publish"} => worker[v].update # n
    BY <2>2 DEF UnderWay
  <2> QED BY SMTT(60), <1>1, <2>1, <2>3, <2>4 DEF UnderWay
<1> QED BY <1>2, <1>4, <1>5, <1>6, <1>7, <1>8, <1>9, CalmSteps
           DEF Next, ThreadStep, WorkerStep, LoaderStep

-----------------------------------------------------------------------------
Destructing == {"destruct", "destruct temporary"}

\* No object is destructed, and every pointer stays where it is.
SamePointers ==
  /\ Len(cluster') = Len(cluster)
  /\ \A n \in Existing : cluster'[n].destructed = cluster[n].destructed
  /\ \A t \in Threads : /\ thread'[t].held = thread[t].held
                        /\ thread'[t].temporary = thread[t].temporary
                        /\ thread'[t].pc \in Destructing => thread[t].pc \in Destructing
  /\ map'.cache = map.cache /\ loader'.doomed = loader.doomed

\* A step that changes no pointer and destructs nothing keeps what is pointed to alive.
LEMMA SamePointersAlive == ASSUME TypeOK, Alive, SamePointers PROVE Alive'
<1>1. Existing' = Existing /\ loader.doomed \subseteq Existing
  BY DEF SamePointers, Existing, TypeOK, LoaderRecord
<1>2. \A n : Referenced(n, map.cache, thread)' <=> Referenced(n, map.cache, thread)
  BY DEF SamePointers, Referenced
<1>3. \A n \in Existing' : Referenced(n, map.cache, thread)' => ~ cluster'[n].destructed
  BY ZenonT(60), <1>1, <1>2 DEF SamePointers, Alive
<1>4. \A n \in loader'.doomed : ~ cluster'[n].destructed /\ ~ Referenced(n, map.cache, thread)'
  BY ZenonT(60), <1>1, <1>2 DEF SamePointers, Alive
<1>5. \A t \in Threads : thread'[t].pc \in Destructing =>
        /\ \A id \in Ids : map'.cache[id] # thread'[t].temporary
        /\ \A u \in Threads : thread'[u].held # thread'[t].temporary
        /\ \A u \in Threads \ {t} : thread'[u].temporary # thread'[t].temporary
  <2> SUFFICES ASSUME NEW t \in Threads, thread'[t].pc \in Destructing
               PROVE  /\ \A id \in Ids : map'.cache[id] # thread'[t].temporary
                      /\ \A u \in Threads : thread'[u].held # thread'[t].temporary
                      /\ \A u \in Threads \ {t} : thread'[u].temporary # thread'[t].temporary
    OBVIOUS
  <2>1. thread[t].pc \in Destructing /\ thread'[t].temporary = thread[t].temporary
    BY DEF SamePointers
  <2>2. /\ \A id \in Ids : map.cache[id] # thread[t].temporary
        /\ \A u \in Threads : thread[u].held # thread[t].temporary
        /\ \A u \in Threads \ {t} : thread[u].temporary # thread[t].temporary
    BY ZenonT(60), <2>1 DEF Alive, Destructing
  <2> QED BY <2>1, <2>2 DEF SamePointers
<1> QED BY ZenonT(60), <1>3, <1>4, <1>5 DEF Alive, Destructing

\* The steps of the pool, of stats, of time and of the loader outside of a reset.
LEMMA SamePointersSteps ==
  ASSUME TypeOK, Attached,
         \/ Elapse \/ Configure \/ UNCHANGED vars
         \/ \E contents \in Files : Load(contents)
         \/ \E w \in Workers : WorkerStep(w)
         \/ \E t \in Threads :
              \/ \E polls \in BOOLEAN : Call(t, polls)
              \/ StatsFresh(t) \/ StatsRun(t) \/ StatsScheduled(t)
  PROVE  SamePointers
<1>0. /\ loader \in LoaderRecord /\ thread \in [Threads -> ThreadRecord]
      /\ \A n \in Existing : cluster[n] \in Objects
  BY DEF TypeOK, Existing
<1>1. ASSUME UNCHANGED <<map, thread, loader>>, Len(cluster') = Len(cluster),
             \A n \in Existing : cluster'[n].destructed = cluster[n].destructed
      PROVE  SamePointers
  BY <1>1 DEF SamePointers
<1>2. CASE Elapse
  <2>1. Calm /\ Len(cluster') = Len(cluster)
    BY <1>2, CalmSteps, ElapseChanges
  <2> QED BY <1>1, <1>2, <2>1 DEF Elapse, Rest, Calm
<1>3. CASE UNCHANGED vars
  BY <1>1, <1>3 DEF vars
<1>4. CASE Configure
  BY <1>0, <1>4 DEF Configure, Users, SamePointers, LoaderRecord
<1>5. ASSUME NEW contents \in Files, Load(contents) PROVE SamePointers
  BY ZenonT(60), <1>0, <1>5 DEF Load, Users, SamePointers, LoaderRecord
<1>6. ASSUME NEW w \in Workers, WorkerStep(w) PROVE SamePointers
  <2>1. UNCHANGED <<map, thread, loader>>
    BY ZenonT(60), <1>6 DEF WorkerStep, Take, Lock, Collect, Publish, Rest
  <2>2. CASE UNCHANGED cluster
    BY <1>1, <2>1, <2>2
  <2>3. CASE Lock(w)
    <3>1. UNCHANGED cluster \/ Changed(worker[w].update, [cluster[worker[w].update] EXCEPT !.lock = w])
      BY ZenonT(60), <2>3, ChangedLock
    <3>2. CASE Changed(worker[w].update, [cluster[worker[w].update] EXCEPT !.lock = w])
      BY ZenonT(60), <1>0, <1>1, <2>1, <3>2 DEF Changed, Objects
    <3> QED BY <2>2, <3>1, <3>2
  <2>4. CASE Publish(w)
    <3> DEFINE m == worker[w].update
               new == Updated(cluster[m].snapshot, worker[w].seen)
    <3>1. m \in Existing /\ worker[w].seen \in Counters
      BY <2>4 DEF TypeOK, WorkerRecord, Attached, AttachedWorker, Pointers, Publish
    <3>2. Changed(m, [cluster[m] EXCEPT !.snapshot = new, !.lock = None])
      BY ZenonT(60), <2>4, <3>1, ChangedPublish DEF TypeOK
    <3> HIDE DEF new
    <3>3. \A n \in Existing : cluster'[n].destructed = cluster[n].destructed
      <4>1. cluster'[m].destructed = cluster[m].destructed
        BY <1>0, <3>1, <3>2 DEF Changed, Objects
      <4> QED BY ZenonT(60), <3>2, <4>1 DEF Changed
    <3> QED BY <1>1, <2>1, <3>2, <3>3 DEF Changed
  <2> QED BY <1>6, <2>2, <2>3, <2>4 DEF WorkerStep, Take, Collect
<1>7. ASSUME NEW t \in Threads, NEW r \in ThreadRecord, thread' = [thread EXCEPT ![t] = r],
             r.held = thread[t].held, r.temporary = thread[t].temporary, r.pc \notin Destructing,
             UNCHANGED <<map, loader>>, Calm, Len(cluster') = Len(cluster)
      PROVE  SamePointers
  BY <1>0, <1>7 DEF SamePointers, Calm
<1>8. ASSUME NEW t \in Threads, thread[t].pc \in {"stats", "run"}
      PROVE  /\ AfterStats(t) \in ThreadRecord
             /\ AfterStats(t).held = thread[t].held /\ AfterStats(t).temporary = thread[t].temporary
             /\ AfterStats(t).pc \notin Destructing
  BY ZenonT(60), <1>0, <1>8 DEF AfterStats, ThreadRecord, ThreadAt, Destructing
<1>9. ASSUME NEW t \in Threads, \/ \E polls \in BOOLEAN : Call(t, polls)
                                \/ StatsFresh(t) \/ StatsRun(t) \/ StatsScheduled(t)
      PROVE  SamePointers
  <2>1. Calm /\ Len(cluster') = Len(cluster)
    BY <1>9, CalmSteps, ThreadStepTypes DEF ThreadStep
  <2>2. UNCHANGED <<map, loader>>
    BY ZenonT(60), <1>9 DEF Call, StatsFresh, StatsRun, StatsScheduled, Rest
  <2>3. ASSUME NEW polls \in BOOLEAN, Call(t, polls) PROVE SamePointers
    <3> DEFINE r == [thread[t] EXCEPT !.pc = "stats", !.polls = polls]
    <3>1. r \in ThreadRecord /\ r.held = thread[t].held /\ r.temporary = thread[t].temporary
          /\ r.pc \notin Destructing
      BY ZenonT(60), <1>0 DEF ThreadRecord, ThreadAt, Destructing
    <3>2. thread' = [thread EXCEPT ![t] = r]
      BY ZenonT(60), <1>0, <2>3 DEF Call
    <3> QED BY ZenonT(60), <1>7, <2>1, <2>2, <3>1, <3>2
  <2>4. CASE StatsRun(t)
    <3> DEFINE r == [thread[t] EXCEPT !.pc = "run"]
    <3>1. r \in ThreadRecord /\ r.held = thread[t].held /\ r.temporary = thread[t].temporary
          /\ r.pc \notin Destructing
      BY ZenonT(60), <1>0 DEF ThreadRecord, ThreadAt, Destructing
    <3>2. thread' = [thread EXCEPT ![t] = r]
      BY <2>4 DEF StatsRun
    <3> QED BY ZenonT(60), <1>7, <2>1, <2>2, <3>1, <3>2
  <2>5. CASE StatsFresh(t) \/ StatsScheduled(t)
    BY ZenonT(60), <1>7, <1>8, <2>1, <2>2, <2>5 DEF StatsFresh, StatsScheduled
  <2> QED BY <1>9, <2>3, <2>4, <2>5
<1> QED BY <1>2, <1>3, <1>4, <1>5, <1>6, <1>9

\* A thread that has at most the pointer n from the cache afterwards.
LEMMA TakesPointer ==
  ASSUME TypeOK, Attached, Alive, NEW t \in Threads, NEW n,
         n = None \/ \E id \in Ids : map.cache[id] = n,
         UNCHANGED <<cluster, map, loader>>,
         \A u \in Threads \ {t} : thread'[u] = thread[u],
         thread'[t].pc \notin Destructing,
         thread'[t].held \in {n, None}, thread'[t].temporary \in {n, None}
  PROVE  Alive'
<1>1. Existing' = Existing /\ None \notin Existing /\ loader.doomed \subseteq Existing
  BY SMTT(60), MapAssumption DEF Existing, TypeOK, LoaderRecord
<1>2. \A m \in Existing : Referenced(m, map.cache, thread)' => Referenced(m, map.cache, thread)
  BY SMTT(60), <1>1 DEF Referenced
<1>3. \A m \in Existing' : Referenced(m, map.cache, thread)' => ~ cluster'[m].destructed
  BY ZenonT(60), <1>1, <1>2 DEF Alive
<1>4. \A m \in loader'.doomed : ~ cluster'[m].destructed /\ ~ Referenced(m, map.cache, thread)'
  BY ZenonT(60), <1>1, <1>2 DEF Alive
<1>5. ASSUME NEW v \in Threads, thread'[v].pc \in Destructing
      PROVE  /\ \A id \in Ids : map'.cache[id] # thread'[v].temporary
             /\ \A u \in Threads : thread'[u].held # thread'[v].temporary
             /\ \A u \in Threads \ {v} : thread'[u].temporary # thread'[v].temporary
  <2>1. v # t /\ thread'[v] = thread[v]
    BY <1>5
  <2>2. /\ \A id \in Ids : map.cache[id] # thread[v].temporary
        /\ \A u \in Threads : thread[u].held # thread[v].temporary
        /\ \A u \in Threads \ {v} : thread[u].temporary # thread[v].temporary
    BY ZenonT(60), <1>5, <2>1 DEF Alive, Destructing
  <2>3. thread[v].temporary # None
    BY ZenonT(60), <1>5, <2>1 DEF Attached, AttachedThread, Destructing
  <2>4. thread'[t].held # thread[v].temporary /\ thread'[t].temporary # thread[v].temporary
    BY <2>2, <2>3
  <2>5. map' = map
    OBVIOUS
  <2> QED BY <2>1, <2>2, <2>4, <2>5
<1> QED BY ZenonT(60), <1>3, <1>4, <1>5 DEF Alive, Destructing

\* A thread that gives up the last pointer to an object is about to destruct it.
LEMMA DroppedAlive ==
  ASSUME TypeOK, Attached, Alive, NEW t \in Threads, NEW n \in Existing, NEW next \in {"idle", "lookup"},
         n \in {thread[t].held, thread[t].temporary}, thread[t].pc \notin Destructing,
         Dropped(t, n, next), UNCHANGED <<cluster, map, loader>>
  PROVE  Alive'
<1> DEFINE r1 == [thread[t] EXCEPT !.held = None, !.temporary = None, !.pc = next]
           r2 == [thread[t] EXCEPT !.held = None, !.temporary = n,
                      !.pc = IF next = "idle" THEN "destruct" ELSE "destruct temporary"]
<1>0. thread \in [Threads -> ThreadRecord] /\ thread[t] \in ThreadRecord
  BY DEF TypeOK
<1>1. CASE thread' = [thread EXCEPT ![t] = r1]
  <2>1. thread'[t] = r1 /\ \A u \in Threads \ {t} : thread'[u] = thread[u]
    BY <1>0, <1>1
  <2>2. r1.held = None /\ r1.temporary = None /\ r1.pc = next
    BY <1>0 DEF ThreadRecord
  <2> HIDE DEF r1
  <2>3. thread'[t].pc \notin Destructing /\ thread'[t].held = None /\ thread'[t].temporary = None
    BY ZenonT(60), <2>1, <2>2 DEF Destructing
  <2> QED BY <2>1, <2>3, TakesPointer
<1>2. CASE /\ thread' = [thread EXCEPT ![t] = r2]
           /\ \A id \in Ids : map.cache[id] # n
           /\ \A u \in Threads \ {t} : thread[u].held # n /\ thread[u].temporary # n
  <2>1. thread'[t] = r2 /\ \A u \in Threads \ {t} : thread'[u] = thread[u]
    BY <1>0, <1>2
  <2>2. r2.held = None /\ r2.temporary = n
    BY <1>0 DEF ThreadRecord
  <2> HIDE DEF r2
  <2>3. Existing' = Existing /\ None \notin Existing /\ loader.doomed \subseteq Existing /\ map' = map
    BY SMTT(60), MapAssumption DEF Existing, TypeOK, LoaderRecord
  <2>4. \A m \in Existing : Referenced(m, map.cache, thread)' => Referenced(m, map.cache, thread)
    BY <2>1, <2>2, <2>3 DEF Referenced
  <2>5. \A m \in Existing' : Referenced(m, map.cache, thread)' => ~ cluster'[m].destructed
    BY ZenonT(60), <2>3, <2>4 DEF Alive
  <2>6. \A m \in loader'.doomed : ~ cluster'[m].destructed /\ ~ Referenced(m, map.cache, thread)'
    BY ZenonT(60), <2>3, <2>4 DEF Alive
  <2>7. ASSUME NEW v \in Threads, thread'[v].pc \in Destructing
        PROVE  /\ \A id \in Ids : map'.cache[id] # thread'[v].temporary
               /\ \A u \in Threads : thread'[u].held # thread'[v].temporary
               /\ \A u \in Threads \ {v} : thread'[u].temporary # thread'[v].temporary
    <3>1. CASE v = t
      BY <1>2, <2>1, <2>2, <2>3, <3>1
    <3>2. CASE v # t
      <4>1. thread'[v] = thread[v]
        BY <2>1, <3>2
      <4>2. /\ \A id \in Ids : map.cache[id] # thread[v].temporary
            /\ \A u \in Threads : thread[u].held # thread[v].temporary
            /\ \A u \in Threads \ {v} : thread[u].temporary # thread[v].temporary
        BY ZenonT(60), <2>7, <4>1 DEF Alive, Destructing
      <4>3. thread[v].temporary # None
        BY ZenonT(60), <2>7, <4>1 DEF Attached, AttachedThread, Destructing
      <4>4. n # thread[v].temporary
        BY <3>2, <4>2
      <4> QED BY <2>1, <2>2, <2>3, <4>1, <4>2, <4>3, <4>4
    <3> QED BY <3>1, <3>2
  <2> QED BY ZenonT(60), <2>5, <2>6, <2>7 DEF Alive, Destructing
<1> QED BY ZenonT(60), <1>1, <1>2, DroppedMoves

\* Asking the map for a cluster.
LEMMA GetClusterAlive ==
  ASSUME TypeOK, Attached, Alive, NEW t \in Threads, NEW id \in Ids, NEW admin \in BOOLEAN,
         getCluster(t, id, admin)
  PROVE  Alive'
<1>0. /\ thread \in [Threads -> ThreadRecord] /\ thread[t] \in ThreadRecord
      /\ thread[t].pc = "idle" /\ thread[t].held = None /\ thread[t].temporary = None
      /\ UNCHANGED loader
  BY ZenonT(60) DEF getCluster, TypeOK, Attached, AttachedThread
<1>1. \A n : LET r == Obtained(t, id, n, admin)
             IN r.pc \notin Destructing /\ r.held \in {n, None} /\ r.temporary \in {n, None}
  BY ZenonT(60), <1>0 DEF Obtained, ThreadRecord, Destructing
<1>2. CASE Hit(t, id, admin)
  <2> DEFINE r == Obtained(t, id, map.cache[id], admin)
  <2>1. thread' = [thread EXCEPT ![t] = r] /\ UNCHANGED <<map, cluster>>
    BY <1>2 DEF Hit
  <2>2. r.pc \notin Destructing /\ r.held \in {map.cache[id], None} /\ r.temporary \in {map.cache[id], None}
    BY <1>1
  <2> HIDE DEF r
  <2>3. thread'[t] = r /\ \A u \in Threads \ {t} : thread'[u] = thread[u]
    BY <1>0, <2>1
  <2> QED BY <1>0, <2>1, <2>2, <2>3, TakesPointer
<1>3. ASSUME NEW answer, Miss(t, id, admin, answer) PROVE Alive'
  <2> DEFINE n == Len(cluster) + 1
             r == Obtained(t, id, n, admin)
  <2>1. /\ cluster' = Append(cluster, Constructed(id, answer.set # {}))
        /\ map' = [map EXCEPT !.cache[id] = n] /\ thread' = [thread EXCEPT ![t] = r]
    BY <1>3 DEF Miss
  <2>2. r.pc \notin Destructing /\ r.held \in {n, None} /\ r.temporary \in {n, None}
    BY <1>1
  <2> HIDE DEF r
  <2>3. thread'[t] = r /\ \A u \in Threads \ {t} : thread'[u] = thread[u]
    BY <1>0, <2>1
  <2>4. /\ Len(cluster') = n /\ cluster'[n] = Constructed(id, answer.set # {})
        /\ \A m \in Existing : cluster'[m] = cluster[m]
    BY ZenonT(60), <2>1, MissAppends
  <2>5. n \notin Existing /\ n # None /\ None \notin Existing /\ Existing' = Existing \cup {n}
    <3>1. Len(cluster) \in Nat
      BY DEF TypeOK
    <3>2. None \notin Nat
      BY ZenonT(30), MapAssumption
    <3>3. Len(cluster') = n
      BY <2>4
    <3> QED BY <3>1, <3>2, <3>3 DEF Existing
  <2>6. loader.doomed \subseteq Existing /\ ~ cluster'[n].destructed
    <3>1. loader.doomed \subseteq Existing
      BY DEF TypeOK, LoaderRecord
    <3>2. ~ cluster'[n].destructed
      BY SMTT(60), <2>4 DEF Constructed
    <3> QED BY <3>1, <3>2
  <2>7. \A i \in Ids : map'.cache[i] = IF i = id THEN n ELSE map.cache[i]
    BY <2>1 DEF TypeOK, MapRecord
  <2>8. \A m \in Existing : Referenced(m, map.cache, thread)' => Referenced(m, map.cache, thread)
    BY SMTT(60), <2>2, <2>3, <2>5, <2>7 DEF Referenced
  <2>9. \A m \in Existing' : Referenced(m, map.cache, thread)' => ~ cluster'[m].destructed
    BY ZenonT(60), <2>4, <2>5, <2>6, <2>8 DEF Alive
  <2>10. \A m \in loader'.doomed : ~ cluster'[m].destructed /\ ~ Referenced(m, map.cache, thread)'
    BY ZenonT(60), <1>0, <2>4, <2>6, <2>8 DEF Alive
  <2>11. ASSUME NEW v \in Threads, thread'[v].pc \in Destructing
         PROVE  /\ \A i \in Ids : map'.cache[i] # thread'[v].temporary
                /\ \A u \in Threads : thread'[u].held # thread'[v].temporary
                /\ \A u \in Threads \ {v} : thread'[u].temporary # thread'[v].temporary
    <3>1. v # t /\ thread'[v] = thread[v]
      BY <2>2, <2>3, <2>11
    <3>2. /\ \A i \in Ids : map.cache[i] # thread[v].temporary
          /\ \A u \in Threads : thread[u].held # thread[v].temporary
          /\ \A u \in Threads \ {v} : thread[u].temporary # thread[v].temporary
      BY ZenonT(60), <2>11, <3>1 DEF Alive, Destructing
    <3>3. thread[v].temporary \in Existing
      BY ZenonT(60), <2>11, <3>1 DEF TypeOK, ThreadRecord, Pointers, Attached, AttachedThread, Destructing
    <3> QED BY SMTT(60), <2>2, <2>3, <2>5, <2>7, <3>1, <3>2, <3>3
  <2> QED BY ZenonT(60), <2>9, <2>10, <2>11 DEF Alive, Destructing
<1>4. ASSUME NEW answer, Refused(id, answer) PROVE Alive'
  <2>1. SamePointers
    BY <1>0, <1>4 DEF Refused, SamePointers
  <2> QED BY <2>1, SamePointersAlive
<1> QED BY <1>2, <1>3, <1>4 DEF getCluster

\* The destruction of an object that nobody points to any more.
LEMMA DestructAlive ==
  ASSUME TypeOK, Attached, Alive, NEW t \in Threads, Destruct(t)
  PROVE  Alive'
<1>0. thread[t].temporary \in Existing
  BY ZenonT(60) DEF Destruct, TypeOK, ThreadRecord, Attached, AttachedThread, Pointers
<1> PICK n \in Existing : n = thread[t].temporary
  BY <1>0
<1>1. /\ thread[t].pc \in Destructing /\ thread[t] \in ThreadRecord
      /\ setDestructed(n) /\ UNCHANGED <<map, loader>>
  BY ZenonT(60) DEF Destruct, TypeOK, Destructing
<1>2. Changed(n, [cluster[n] EXCEPT !.destructed = TRUE])
  BY <1>1, ChangedDestructed DEF TypeOK
<1>3. /\ thread'[t].held = thread[t].held /\ thread'[t].temporary = None
      /\ thread'[t].pc \notin Destructing /\ \A u \in Threads \ {t} : thread'[u] = thread[u]
  BY ZenonT(60), <1>1 DEF Destruct, TypeOK, ThreadRecord, Destructing
<1>4. /\ \A id \in Ids : map.cache[id] # n
      /\ \A u \in Threads : thread[u].held # n
      /\ \A u \in Threads \ {t} : thread[u].temporary # n
  BY ZenonT(60), <1>1 DEF Alive, Destructing
<1>5. Existing' = Existing /\ None \notin Existing /\ loader.doomed \subseteq Existing
  BY <1>2, MapAssumption DEF Changed, Existing, TypeOK, LoaderRecord
<1>6. /\ ~ Referenced(n, map.cache, thread)' /\ Referenced(n, map.cache, thread)
      /\ \A m \in Existing : Referenced(m, map.cache, thread)' => Referenced(m, map.cache, thread)
  BY SMTT(60), <1>1, <1>3, <1>4, <1>5 DEF Referenced
<1>7. \A m \in Existing' : Referenced(m, map.cache, thread)' => ~ cluster'[m].destructed
  BY ZenonT(60), <1>2, <1>5, <1>6 DEF Alive, Changed
<1>8. \A m \in loader'.doomed : ~ cluster'[m].destructed /\ ~ Referenced(m, map.cache, thread)'
  BY ZenonT(60), <1>1, <1>2, <1>5, <1>6 DEF Alive, Changed
<1>9. ASSUME NEW v \in Threads, thread'[v].pc \in Destructing
      PROVE  /\ \A id \in Ids : map'.cache[id] # thread'[v].temporary
             /\ \A u \in Threads : thread'[u].held # thread'[v].temporary
             /\ \A u \in Threads \ {v} : thread'[u].temporary # thread'[v].temporary
  <2>1. v # t /\ thread'[v] = thread[v]
    BY <1>3, <1>9
  <2>2. /\ \A i \in Ids : map.cache[i] # thread[v].temporary
        /\ \A u \in Threads : thread[u].held # thread[v].temporary
        /\ \A u \in Threads \ {v} : thread[u].temporary # thread[v].temporary
    BY ZenonT(60), <1>9, <2>1 DEF Alive, Destructing
  <2>3. thread[v].temporary # None
    BY ZenonT(60), <1>9, <2>1 DEF Attached, AttachedThread, Destructing
  <2> QED BY <1>1, <1>3, <2>1, <2>2, <2>3
<1> QED BY ZenonT(60), <1>7, <1>8, <1>9 DEF Alive, Destructing

\* The map gives up its pointers and destructs what nobody else points to.
LEMMA ResetAlive ==
  ASSUME TypeOK, Attached, Alive, Reset \/ DestructDoomed
  PROVE  Alive'
<1>0. None \notin Existing /\ loader.doomed \subseteq Existing
  BY MapAssumption DEF Existing, TypeOK, LoaderRecord
<1>1. CASE Reset
  <2> DEFINE empty == [id \in Ids |-> None]
  <2>1. /\ map'.cache = empty /\ UNCHANGED <<cluster, thread>>
        /\ loader'.doomed = {n \in Range(map.cache) \ {None} : ~ Referenced(n, empty, thread)}
    BY <1>1 DEF Reset, Users, TypeOK, LoaderRecord
  <2>2. \A m \in Existing : Referenced(m, map.cache, thread)' => Referenced(m, map.cache, thread)
    BY <1>0, <2>1 DEF Referenced
  <2>3. \A m \in Existing' : Referenced(m, map.cache, thread)' => ~ cluster'[m].destructed
    BY ZenonT(60), <2>1, <2>2 DEF Alive, Existing
  <2>4. \A m \in loader'.doomed : ~ cluster'[m].destructed /\ ~ Referenced(m, map.cache, thread)'
    <3> SUFFICES ASSUME NEW m \in loader'.doomed
                 PROVE  ~ cluster'[m].destructed /\ ~ Referenced(m, map.cache, thread)'
      OBVIOUS
    <3>1. m \in Range(map.cache) /\ m # None /\ ~ Referenced(m, empty, thread)
      BY <2>1
    <3>2. PICK id \in Ids : map.cache[id] = m
      BY <3>1 DEF Range, TypeOK, MapRecord
    <3>3. m \in Existing /\ Referenced(m, map.cache, thread)
      BY <3>1, <3>2 DEF Referenced, TypeOK, MapRecord, Pointers
    <3>4. ~ Referenced(m, map.cache, thread)'
      BY <2>1, <3>1 DEF Referenced
    <3> QED BY ZenonT(60), <2>1, <3>3, <3>4 DEF Alive
  <2>5. ASSUME NEW v \in Threads, thread[v].pc \in Destructing PROVE \A id \in Ids : empty[id] # thread[v].temporary
    BY ZenonT(60), <2>5 DEF Attached, AttachedThread, Destructing
  <2> QED BY ZenonT(60), <2>1, <2>3, <2>4, <2>5 DEF Alive, Destructing
<1>2. CASE DestructDoomed
  <2>1. PICK n \in loader.doomed : setDestructed(n) /\ loader' = [loader EXCEPT !.doomed = @ \ {n}]
    BY ZenonT(60), <1>2 DEF DestructDoomed
  <2>2. /\ Changed(n, [cluster[n] EXCEPT !.destructed = TRUE]) /\ UNCHANGED <<map, thread>>
        /\ loader'.doomed = loader.doomed \ {n}
    BY <1>0, <1>2, <2>1, ChangedDestructed DEF TypeOK, DestructDoomed, LoaderRecord
  <2>3. ~ Referenced(n, map.cache, thread)
    BY ZenonT(60) DEF Alive
  <2>4. Existing' = Existing
    BY <2>2 DEF Changed, Existing
  <2>5. \A m : Referenced(m, map.cache, thread)' <=> Referenced(m, map.cache, thread)
    BY <2>2 DEF Referenced
  <2>6. \A m \in Existing \ {n} : cluster'[m] = cluster[m]
    BY <2>2 DEF Changed
  <2>7. \A m \in Existing' : Referenced(m, map.cache, thread)' => ~ cluster'[m].destructed
    BY ZenonT(60), <2>3, <2>4, <2>5, <2>6 DEF Alive
  <2>8. \A m \in loader'.doomed : ~ cluster'[m].destructed /\ ~ Referenced(m, map.cache, thread)'
    BY ZenonT(60), <1>0, <2>2, <2>5, <2>6 DEF Alive
  <2> QED BY ZenonT(60), <2>2, <2>7, <2>8 DEF Alive
<1> QED BY <1>1, <1>2

\* Every step keeps what is pointed to.
LEMMA AliveStep ==
  ASSUME TypeOK, Attached, Alive, [Next]_vars
  PROVE  Alive'
<1>1. ASSUME NEW t \in Threads, Release(t) \/ DropTemporary(t) PROVE Alive'
  <2>0. thread[t] \in ThreadRecord /\ AttachedThread(thread[t])
    BY DEF TypeOK, Attached
  <2>1. CASE Release(t)
    <3>1. thread[t].held \in Existing /\ thread[t].pc \notin Destructing
      BY <2>0, <2>1 DEF Release, ThreadRecord, Pointers, Destructing
    <3> QED BY <2>1, <3>1, DroppedAlive DEF Release
  <2>2. CASE DropTemporary(t)
    <3>1. thread[t].temporary \in Existing /\ thread[t].pc \notin Destructing
      BY <2>0, <2>2 DEF DropTemporary, ThreadRecord, Pointers, Destructing, AttachedThread
    <3> QED BY <2>2, <3>1, DroppedAlive DEF DropTemporary
  <2> QED BY <1>1, <2>1, <2>2
<1>2. ASSUME NEW t \in Threads, Lookup(t) PROVE Alive'
  <2> DEFINE n == map.cache[thread[t].id]
  <2>1. /\ thread[t] \in ThreadRecord /\ thread[t].pc = "lookup" /\ thread[t].id \in Ids
        /\ thread[t].temporary = None
    BY ZenonT(60), <1>2 DEF TypeOK, Attached, AttachedThread, Lookup
  <2>2. /\ thread'[t].pc \notin Destructing /\ thread'[t].held \in {n, None} /\ thread'[t].temporary = None
        /\ \A u \in Threads \ {t} : thread'[u] = thread[u] /\ UNCHANGED <<cluster, map, loader>>
    BY <1>2, <2>1 DEF Lookup, TypeOK, ThreadRecord, Destructing
  <2>3. UNCHANGED <<cluster, map, loader>>
    BY <1>2 DEF Lookup
  <2> QED BY ZenonT(60), <2>1, <2>2, <2>3, TakesPointer
<1>3. CASE SamePointers
  BY <1>3, SamePointersAlive
<1> QED BY <1>1, <1>2, <1>3, SamePointersSteps, GetClusterAlive, DestructAlive, ResetAlive
           DEF Next, ThreadStep, LoaderStep

\* The types hold in every behaviour.
LEMMA TypesInvariant == Spec => [](TypeOK /\ Attached)
<1>1. Init => TypeOK /\ Attached
  <2> SUFFICES ASSUME Init PROVE TypeOK /\ Attached
    OBVIOUS
  <2>1. TypeOK
    <3>1. None \in Pointers
      BY DEF Pointers
    <3>2. loader \in LoaderRecord
      BY DEF Init, LoaderRecord
    <3>3. map \in MapRecord
      BY <3>1 DEF Init, MapRecord
    <3>4. thread \in [Threads -> ThreadRecord]
      <4>1. "idle" \in ThreadAt
        BY DEF ThreadAt
      <4> QED BY <3>1, <4>1 DEF Init, ThreadRecord
    <3>5. worker \in [Workers -> WorkerRecord]
      <4>1. None \in Counters
        BY DEF Counters
      <4> QED BY <3>1, <4>1 DEF Init, WorkerRecord
    <3>6. traffic \in [Drives -> Int]
      BY SMTT(60) DEF Init
    <3>7. cluster \in Seq(Objects) /\ queue \in Seq(Existing)
      BY SMTT(60) DEF Init
    <3> QED BY <3>2, <3>3, <3>4, <3>5, <3>6, <3>7 DEF TypeOK
  <2>2. Attached
    BY ZenonT(60) DEF Init, Attached, AttachedThread, AttachedWorker
  <2> QED BY <2>1, <2>2
<1>2. TypeOK /\ Attached /\ [Next]_vars => (TypeOK /\ Attached)'
  BY TypesStep
<1> QED BY <1>1, <1>2, PTL DEF Spec

\* What is used exists, whichever threads, workers and reloads interleave.
THEOREM NoUseAfterDestructionHolds == Spec => []NoUseAfterDestruction
<1> DEFINE Inv == TypeOK /\ Attached /\ UnderWay /\ Alive
<1>1. Init => UnderWay /\ Alive
  <2> SUFFICES ASSUME Init PROVE UnderWay /\ Alive
    OBVIOUS
  <2>1. Existing = {}
    BY SMTT(60) DEF Init, Existing
  <2>2. UnderWay
    BY DEF Init, UnderWay
  <2> QED BY ZenonT(60), <2>1, <2>2 DEF Init, Alive
<1>2. TypeOK /\ Attached /\ UnderWay /\ Alive /\ [Next]_vars => (UnderWay /\ Alive)'
  BY UnderWayStep, AliveStep
<1>3. Inv => NoUseAfterDestruction
  <2> SUFFICES ASSUME Inv PROVE NoUseAfterDestruction
    OBVIOUS
  <2>1. ASSUME NEW n \in {thread[t].held : t \in Threads} \cup Range(map.cache), n # None
        PROVE  ~ cluster[n].destructed
    <3>1. n \in Existing
      BY <2>1 DEF TypeOK, ThreadRecord, MapRecord, Pointers, Range
    <3>2. Referenced(n, map.cache, thread)
      BY <2>1 DEF Referenced, Range, TypeOK, MapRecord
    <3> QED BY ZenonT(60), <3>1, <3>2 DEF Alive
  <2> QED BY <2>1 DEF UnderWay, NoUseAfterDestruction
<1> QED BY <1>1, <1>2, <1>3, TypesInvariant, PTL DEF Spec

-----------------------------------------------------------------------------
\* From the end of the parsing on, what has been parsed is what is taken over.
TakenOver ==
  /\ loader.pc # "idle" => configuration = [capacity |-> loader.contents, pool |-> loader.contents]
  /\ loader.pc = "reset" => map.contents = loader.contents
  /\ loader.pc # "reset" => settings.capacity = map.contents /\ settings.pool = map.contents

\* Outside of a reload, map, cache and pool follow the same contents of the files,
\* however many loads fail half way and whatever the threads do meanwhile.
THEOREM CoherentHolds == Spec => []Coherent
<1>1. Init => TakenOver
  <2> SUFFICES ASSUME Init PROVE TakenOver
    OBVIOUS
  <2>1. loader.pc = "idle" /\ map.contents = None /\ settings.capacity = None /\ settings.pool = None
    BY DEF Init
  <2> QED BY <2>1 DEF TakenOver
<1>2. TypeOK /\ TakenOver /\ [Next]_vars => TakenOver'
  <2> SUFFICES ASSUME TypeOK, TakenOver, [Next]_vars PROVE TakenOver'
    OBVIOUS
  <2>0. loader \in LoaderRecord /\ map \in MapRecord
    BY DEF TypeOK
  <2>1. ASSUME UNCHANGED <<configuration, settings, loader>>, map'.contents = map.contents PROVE TakenOver'
    BY <2>1 DEF TakenOver
  <2>2. ASSUME NEW t \in Threads, NEW id \in Ids, NEW admin \in BOOLEAN, getCluster(t, id, admin)
        PROVE  TakenOver'
    <3>1. UNCHANGED map \/ \E n : map' = [map EXCEPT !.cache[id] = n]
      BY ZenonT(60), <2>2 DEF getCluster, Hit, Miss, Refused
    <3>2. map'.contents = map.contents
      BY <2>0, <3>1 DEF MapRecord
    <3> QED BY <2>1, <2>2, <3>2 DEF getCluster
  <2>3. ASSUME NEW t \in Threads, \/ \E polls \in BOOLEAN : Call(t, polls)
                                  \/ Release(t) \/ ThreadStep(t)
        PROVE  TakenOver'
    BY ZenonT(60), <2>1, <2>3 DEF Call, Release, ThreadStep, DropTemporary, Lookup, Destruct, StatsFresh, StatsRun,
                      StatsScheduled, Rest
  <2>4. ASSUME NEW w \in Workers, WorkerStep(w) PROVE TakenOver'
    BY <2>1, <2>4 DEF WorkerStep, Take, Lock, Collect, Publish, Rest
  <2>5. ASSUME Elapse \/ UNCHANGED vars PROVE TakenOver'
    BY <2>1, <2>5 DEF Elapse, Rest, vars
  <2>6. ASSUME NEW contents \in Files, Load(contents) PROVE TakenOver'
    <3>1. contents.error \in {"none", "syntax", "configuration"}
      BY MapAssumption DEF Contents
    <3>2. loader.pc = "idle" /\ configuration' = Parsed(contents) /\ UNCHANGED <<settings, map>>
      BY <2>6 DEF Load
    <3>3. CASE contents.error = "none"
      BY <2>0, <2>6, <3>2, <3>3 DEF Load, Parsed, TakenOver, LoaderRecord
    <3>4. CASE contents.error # "none"
      BY <2>6, <3>2, <3>4 DEF Load, TakenOver
    <3> QED BY <3>3, <3>4
  <2>7. ASSUME Reset PROVE TakenOver'
    BY <2>0, <2>7 DEF Reset, TakenOver, LoaderRecord
  <2>8. ASSUME DestructDoomed PROVE TakenOver'
    BY <2>0, <2>8 DEF DestructDoomed, TakenOver, LoaderRecord
  <2>9. ASSUME Configure PROVE TakenOver'
    BY <2>0, <2>9 DEF Configure, TakenOver, LoaderRecord
  <2> QED BY <2>2, <2>3, <2>4, <2>5, <2>6, <2>7, <2>8, <2>9 DEF Next, LoaderStep
<1>3. TakenOver => Coherent
  BY DEF TakenOver, Coherent
<1> QED BY <1>1, <1>2, <1>3, TypesInvariant, PTL DEF Spec

-----------------------------------------------------------------------------
\* A thread that is on its way from getCluster to its second look at the cache.
Asks(r) == r.pc \in {"temporary", "destruct temporary", "lookup"}

\* The cached objects are those of the information in force, and what a thread has
\* asked for is still in the cache unless the map has been reset.
Fresh ==
  /\ \A id \in Ids : map.cache[id] # None => cluster[map.cache[id]].resets = map.resets
  /\ \A t \in Threads : Asks(thread[t]) =>
       /\ thread[t].resets <= map.resets
       /\ thread[t].resets = map.resets => loader.pc # "reset" /\ map.cache[thread[t].id] # None

\* Thread t neither gets a pointer to hold nor asks for one.
Idles(t) ==
  /\ thread'[t].held \in {thread[t].held, None}
  /\ Asks(thread'[t]) =>
       Asks(thread[t]) /\ thread'[t].id = thread[t].id /\ thread'[t].resets = thread[t].resets
  /\ thread[t].pc = "lookup" => thread'[t].pc = "lookup"

\* Objects keep the information they were constructed from.
LEMMA ResetsKept ==
  ASSUME TypeOK, Attached, [Next]_vars
  PROVE  \A n \in Existing : cluster'[n].resets = cluster[n].resets
<1> DEFINE Goal == \A n \in Existing : cluster'[n].resets = cluster[n].resets
<1>0. \A n \in Existing : cluster[n] \in Objects
  BY DEF TypeOK, Existing
<1>1. CASE Calm
  BY <1>1 DEF Calm
<1>2. ASSUME NEW n \in Existing, setDestructed(n) PROVE Goal
  <2>1. Changed(n, [cluster[n] EXCEPT !.destructed = TRUE])
    BY <1>2, ChangedDestructed DEF TypeOK
  <2> QED BY <1>0, <2>1 DEF Changed, Objects
<1>3. ASSUME NEW t \in Threads, Destruct(t) PROVE Goal
  <2>1. thread[t].temporary \in Existing
    BY ZenonT(60), <1>3 DEF TypeOK, Attached, ThreadRecord, AttachedThread, Pointers, Destruct
  <2> QED BY ZenonT(60), <1>2, <1>3, <2>1 DEF Destruct
<1>4. ASSUME DestructDoomed PROVE Goal
  BY <1>2, <1>4 DEF DestructDoomed, TypeOK, LoaderRecord
<1>5. ASSUME NEW w \in Workers, Lock(w) PROVE Goal
  <2>1. UNCHANGED cluster \/ Changed(worker[w].update, [cluster[worker[w].update] EXCEPT !.lock = w])
    BY ZenonT(60), <1>5, ChangedLock
  <2> QED BY <1>0, <2>1 DEF Changed, Objects
<1>6. ASSUME NEW w \in Workers, Publish(w) PROVE Goal
  <2> DEFINE m == worker[w].update
             new == Updated(cluster[m].snapshot, worker[w].seen)
  <2>1. m \in Existing /\ worker[w].seen \in Counters
    BY <1>6 DEF TypeOK, WorkerRecord, Attached, AttachedWorker, Pointers, Publish
  <2>2. Changed(m, [cluster[m] EXCEPT !.snapshot = new, !.lock = None])
    BY ZenonT(60), <1>6, <2>1, ChangedPublish DEF TypeOK
  <2> HIDE DEF new
  <2>3. cluster'[m].resets = cluster[m].resets
    BY <1>0, <2>1, <2>2 DEF Changed, Objects
  <2> QED BY ZenonT(60), <2>2, <2>3 DEF Changed
<1>7. ASSUME NEW w \in Workers, Take(w) \/ Collect(w) PROVE Goal
  BY <1>7 DEF Take, Collect
<1> QED BY <1>1, <1>3, <1>4, <1>5, <1>6, <1>7, CalmSteps DEF Next, ThreadStep, WorkerStep, LoaderStep

\* The thread steps other than getCluster and the lookup.
LEMMA IdlesSteps ==
  ASSUME TypeOK, Attached, NEW t \in Threads,
         \/ \E polls \in BOOLEAN : Call(t, polls)
         \/ Release(t) \/ DropTemporary(t) \/ Destruct(t)
         \/ StatsFresh(t) \/ StatsRun(t) \/ StatsScheduled(t)
  PROVE  /\ UNCHANGED <<map, loader>>
         /\ \A u \in Threads : Idles(u)
<1>0. thread \in [Threads -> ThreadRecord] /\ thread[t] \in ThreadRecord /\ AttachedThread(thread[t])
  BY DEF TypeOK, Attached
<1>1. UNCHANGED <<map, loader>>
  BY ZenonT(60) DEF Call, Release, DropTemporary, Destruct, StatsFresh, StatsRun, StatsScheduled, Rest
<1>2. ASSUME NEW r, thread' = [thread EXCEPT ![t] = r], r.held \in {thread[t].held, None},
             Asks(r) => Asks(thread[t]) /\ r.id = thread[t].id /\ r.resets = thread[t].resets,
             thread[t].pc # "lookup"
      PROVE  \A u \in Threads : Idles(u)
  BY <1>0, <1>2 DEF Idles
<1>3. ASSUME NEW polls \in BOOLEAN, Call(t, polls) PROVE \A u \in Threads : Idles(u)
  <2> DEFINE r == [thread[t] EXCEPT !.pc = "stats", !.polls = polls]
  <2>1. thread' = [thread EXCEPT ![t] = r] /\ thread[t].pc = "idle"
    BY ZenonT(60), <1>0, <1>3 DEF Call
  <2>2. r.held = thread[t].held /\ ~ Asks(r)
    BY <1>0 DEF Asks, ThreadRecord
  <2> QED BY ZenonT(60), <1>2, <2>1, <2>2
<1>4. ASSUME NEW n, NEW next \in {"idle", "lookup"}, Dropped(t, n, next), thread[t].pc # "lookup",
             next = "lookup" => Asks(thread[t])
      PROVE  \A u \in Threads : Idles(u)
  <2> DEFINE r1 == [thread[t] EXCEPT !.held = None, !.temporary = None, !.pc = next]
             r2 == [thread[t] EXCEPT !.held = None, !.temporary = n,
                      !.pc = IF next = "idle" THEN "destruct" ELSE "destruct temporary"]
  <2>1. thread' = [thread EXCEPT ![t] = r1] \/ thread' = [thread EXCEPT ![t] = r2]
    BY ZenonT(60), <1>4, DroppedMoves
  <2>2. /\ r1.held = None /\ r1.id = thread[t].id /\ r1.resets = thread[t].resets
        /\ Asks(r1) => next = "lookup"
    BY ZenonT(60), <1>0, <1>4 DEF Asks, ThreadRecord
  <2>3. /\ r2.held = None /\ r2.id = thread[t].id /\ r2.resets = thread[t].resets
        /\ Asks(r2) => next = "lookup"
    BY ZenonT(60), <1>0, <1>4 DEF Asks, ThreadRecord
  <2> HIDE DEF r1, r2
  <2> QED BY <1>2, <1>4, <2>1, <2>2, <2>3
<1>5. ASSUME Release(t) PROVE \A u \in Threads : Idles(u)
  BY <1>4, <1>5 DEF Release
<1>6. ASSUME DropTemporary(t) PROVE \A u \in Threads : Idles(u)
  BY ZenonT(60), <1>4, <1>6 DEF DropTemporary, Asks
<1>7. ASSUME Destruct(t) PROVE \A u \in Threads : Idles(u)
  <2> DEFINE r == [thread[t] EXCEPT !.temporary = None, !.pc = IF thread[t].pc = "destruct" THEN "idle" ELSE "lookup"]
  <2>1. thread[t].pc \in {"destruct", "destruct temporary"} /\ thread' = [thread EXCEPT ![t] = r]
    BY ZenonT(60), <1>0, <1>7 DEF Destruct, ThreadRecord
  <2>2. /\ r.held = thread[t].held /\ r.id = thread[t].id /\ r.resets = thread[t].resets
        /\ Asks(r) => Asks(thread[t])
    BY ZenonT(60), <1>0, <2>1 DEF Asks, ThreadRecord
  <2> HIDE DEF r
  <2> QED BY ZenonT(60), <1>2, <2>1, <2>2
<1>8. ASSUME StatsRun(t) PROVE \A u \in Threads : Idles(u)
  <2> DEFINE r == [thread[t] EXCEPT !.pc = "run"]
  <2>1. thread' = [thread EXCEPT ![t] = r] /\ thread[t].pc = "stats"
    BY <1>8 DEF StatsRun
  <2>2. r.held = thread[t].held /\ ~ Asks(r)
    BY <1>0 DEF Asks, ThreadRecord
  <2> QED BY ZenonT(60), <1>2, <2>1, <2>2
<1>9. ASSUME StatsFresh(t) \/ StatsScheduled(t) PROVE \A u \in Threads : Idles(u)
  <2>1. thread' = [thread EXCEPT ![t] = AfterStats(t)] /\ thread[t].pc \in {"stats", "run"}
    BY <1>9 DEF StatsFresh, StatsScheduled
  <2>2. AfterStats(t).held = thread[t].held /\ ~ Asks(AfterStats(t))
    BY <1>0 DEF AfterStats, Asks, ThreadRecord
  <2> QED BY ZenonT(60), <1>2, <2>1, <2>2
<1> QED BY <1>1, <1>3, <1>5, <1>6, <1>7, <1>8, <1>9

\* The steps of the pool, of time and of the loader leave the threads alone.
LEMMA IdlesOthers ==
  ASSUME Elapse \/ LoaderStep \/ UNCHANGED vars \/ (\E contents \in Files : Load(contents))
           \/ \E w \in Workers : WorkerStep(w)
  PROVE  \A u \in Threads : Idles(u)
<1>1. UNCHANGED thread
  BY ZenonT(60) DEF Elapse, LoaderStep, Reset, DestructDoomed, Configure, vars, Load, WorkerStep, Take, Lock,
         Collect, Publish, Users
<1> QED BY <1>1 DEF Idles

\* What getCluster gives thread t is in the cache afterwards.
LEMMA GetClusterGives ==
  ASSUME TypeOK, Attached, Fresh, NEW t \in Threads, NEW id \in Ids, NEW admin \in BOOLEAN,
         getCluster(t, id, admin)
  PROVE  /\ loader' = loader /\ loader.pc # "reset" /\ map'.resets = map.resets
         /\ \A u \in Threads \ {t} : thread'[u] = thread[u]
         /\ \A i \in Ids : /\ map.cache[i] # None => map'.cache[i] = map.cache[i]
                           /\ map'.cache[i] # None => cluster'[map'.cache[i]].resets = map.resets
         /\ \/ thread'[t] = thread[t]
            \/ /\ map'.cache[id] # None
               /\ \/ ~ Asks(thread'[t]) /\ thread'[t].held = map'.cache[id]
                  \/ /\ thread'[t].held = None /\ thread'[t].id = id
                     /\ thread'[t].resets = map.resets
<1>0. /\ loader' = loader /\ loader.pc # "reset"
      /\ thread \in [Threads -> ThreadRecord] /\ thread[t] \in ThreadRecord /\ map \in MapRecord
      /\ thread[t].pc = "idle" /\ thread[t].held = None
  BY DEF getCluster, Unlocked, TypeOK
<1>1. \A n : LET r == Obtained(t, id, n, admin)
             IN \/ ~ Asks(r) /\ r.held = n
                \/ r.held = None /\ r.id = id /\ r.resets = map.resets
  BY ZenonT(60), <1>0 DEF Obtained, ThreadRecord, Asks
<1>2. CASE Hit(t, id, admin)
  <2> DEFINE n == map.cache[id]
             r == Obtained(t, id, n, admin)
  <2>1. n # None /\ thread' = [thread EXCEPT ![t] = r] /\ UNCHANGED <<map, cluster>>
    BY <1>2 DEF Hit
  <2>2. \/ ~ Asks(r) /\ r.held = n
        \/ r.held = None /\ r.id = id /\ r.resets = map.resets
    BY <1>1
  <2> HIDE DEF r
  <2>3. thread'[t] = r /\ \A u \in Threads \ {t} : thread'[u] = thread[u]
    BY <1>0, <2>1
  <2>4. \A i \in Ids : map.cache[i] # None => cluster[map.cache[i]].resets = map.resets
    BY DEF Fresh
  <2> QED BY ZenonT(60), <1>0, <2>1, <2>2, <2>3, <2>4
<1>3. ASSUME NEW answer, Miss(t, id, admin, answer)
      PROVE  /\ map'.resets = map.resets
             /\ \A u \in Threads \ {t} : thread'[u] = thread[u]
             /\ \A i \in Ids : /\ map.cache[i] # None => map'.cache[i] = map.cache[i]
                               /\ map'.cache[i] # None => cluster'[map'.cache[i]].resets = map.resets
             /\ map'.cache[id] # None
             /\ \/ ~ Asks(thread'[t]) /\ thread'[t].held = map'.cache[id]
                \/ /\ thread'[t].held = None /\ thread'[t].id = id
                   /\ thread'[t].resets = map.resets
  <2> DEFINE n == Len(cluster) + 1
             r == Obtained(t, id, n, admin)
  <2>1. /\ cluster' = Append(cluster, Constructed(id, answer.set # {})) /\ map.cache[id] = None
        /\ map' = [map EXCEPT !.cache[id] = n] /\ thread' = [thread EXCEPT ![t] = r]
    BY <1>3 DEF Miss
  <2>2. \/ ~ Asks(r) /\ r.held = n
        \/ r.held = None /\ r.id = id /\ r.resets = map.resets
    BY <1>1
  <2> HIDE DEF r
  <2>3. thread'[t] = r /\ \A u \in Threads \ {t} : thread'[u] = thread[u]
    BY <1>0, <2>1
  <2>4. /\ cluster'[n] = Constructed(id, answer.set # {})
        /\ \A m \in Existing : cluster'[m] = cluster[m]
    BY ZenonT(60), <2>1, MissAppends
  <2>5. n # None
    BY SMTT(60), MapAssumption DEF TypeOK
  <2>6. map'.resets = map.resets /\ \A i \in Ids : map'.cache[i] = IF i = id THEN n ELSE map.cache[i]
    BY <1>0, <2>1 DEF MapRecord
  <2>7. cluster'[n].resets = map.resets
    BY SMTT(60), <2>4 DEF Constructed
  <2>8. ASSUME NEW i \in Ids, map.cache[i] # None PROVE cluster'[map.cache[i]].resets = map.resets
    <3>1. map.cache[i] \in Existing
      BY <1>0, <2>8 DEF MapRecord, Pointers
    <3> QED BY ZenonT(60), <2>4, <2>8, <3>1 DEF Fresh
  <2>9. \A i \in Ids : /\ map.cache[i] # None => map'.cache[i] = map.cache[i]
                       /\ map'.cache[i] # None => cluster'[map'.cache[i]].resets = map.resets
    <3> SUFFICES ASSUME NEW i \in Ids
                 PROVE  /\ map.cache[i] # None => map'.cache[i] = map.cache[i]
                        /\ map'.cache[i] # None => cluster'[map'.cache[i]].resets = map.resets
      OBVIOUS
    <3>1. CASE i = id
      <4>1. map.cache[i] = None /\ map'.cache[i] = n
        BY <2>1, <2>6, <3>1
      <4> QED BY <2>7, <4>1
    <3>2. CASE i # id
      <4>1. map'.cache[i] = map.cache[i]
        BY <2>6, <3>2
      <4> QED BY <2>8, <4>1
    <3> QED BY <3>1, <3>2
  <2>10. map'.cache[id] = n
    BY <2>6
  <2> HIDE DEF n
  <2> QED BY <2>2, <2>3, <2>5, <2>6, <2>9, <2>10
<1>4. ASSUME NEW answer, Refused(id, answer) PROVE UNCHANGED <<map, cluster, thread>>
  BY <1>4 DEF Refused
<1>5. CASE UNCHANGED <<map, cluster, thread>>
  BY ZenonT(60), <1>0, <1>5 DEF Fresh
<1> QED BY ZenonT(60), <1>0, <1>2, <1>3, <1>4, <1>5 DEF getCluster

\* Every step keeps the cache fresh, and hands out what is in it.
LEMMA FreshStep ==
  ASSUME TypeOK, Attached, Fresh, [Next]_vars
  PROVE  Fresh'
<1>0. /\ \A i \in Ids : map.cache[i] # None => map.cache[i] \in Existing
      /\ map.resets \in Nat /\ \A t \in Threads : thread[t].resets \in Nat
  BY DEF TypeOK, MapRecord, ThreadRecord, Pointers
<1>1. ASSUME \A u \in Threads : Idles(u), map' = map, loader'.pc = "reset" => loader.pc = "reset" PROVE Fresh'
  <2>1. \A i \in Ids : map'.cache[i] # None => cluster'[map'.cache[i]].resets = map'.resets
    BY <1>0, <1>1, ResetsKept DEF Fresh
  <2>2. ASSUME NEW t \in Threads, Asks(thread'[t])
        PROVE  /\ thread'[t].resets <= map'.resets
               /\ thread'[t].resets = map'.resets => loader'.pc # "reset" /\ map'.cache[thread'[t].id] # None
    <3>1. Asks(thread[t]) /\ thread'[t].id = thread[t].id /\ thread'[t].resets = thread[t].resets
      BY <1>1, <2>2 DEF Idles
    <3> QED BY <1>1, <3>1 DEF Fresh
  <2> QED BY ZenonT(60), <2>1, <2>2 DEF Fresh
<1>2. ASSUME NEW t \in Threads, NEW id \in Ids, NEW admin \in BOOLEAN, getCluster(t, id, admin)
      PROVE  Fresh'
  <2>1. ASSUME NEW u \in Threads, Asks(thread'[u])
        PROVE  /\ thread'[u].resets <= map'.resets
               /\ thread'[u].resets = map'.resets => loader'.pc # "reset" /\ map'.cache[thread'[u].id] # None
    <3>1. CASE thread'[u] = thread[u]
      <4>1. Asks(thread[u]) /\ thread[u].id \in Ids
        BY ZenonT(60), <2>1, <3>1 DEF Asks, Attached, AttachedThread
      <4>2. /\ thread[u].resets <= map.resets
            /\ thread[u].resets = map.resets => loader.pc # "reset" /\ map.cache[thread[u].id] # None
        BY Zenon, <4>1 DEF Fresh
      <4>3. /\ loader' = loader /\ map'.resets = map.resets
            /\ \A i \in Ids : map.cache[i] # None => map'.cache[i] = map.cache[i]
        BY ZenonT(30), <1>2, GetClusterGives
      <4>4. map.cache[thread[u].id] # None => map'.cache[thread[u].id] # None
        BY Zenon, <4>1, <4>3
      <4> QED BY ZenonT(30), <3>1, <4>2, <4>3, <4>4
    <3>2. CASE thread'[u] # thread[u]
      <4>1. /\ loader' = loader /\ loader.pc # "reset" /\ map'.resets = map.resets
            /\ \A v \in Threads \ {t} : thread'[v] = thread[v]
            /\ \/ thread'[t] = thread[t]
               \/ /\ map'.cache[id] # None
                  /\ \/ ~ Asks(thread'[t])
                     \/ thread'[t].id = id /\ thread'[t].resets = map.resets
        BY ZenonT(60), <1>2, GetClusterGives
      <4>2. map'.cache[id] # None /\ thread'[u].id = id /\ thread'[u].resets = map.resets
        BY ZenonT(30), <2>1, <3>2, <4>1
      <4>3. map.resets <= map.resets
        BY SMTT(60), <1>0
      <4> QED BY ZenonT(30), <4>1, <4>2, <4>3
    <3> QED BY <3>1, <3>2
  <2>2. \A i \in Ids : map'.cache[i] # None => cluster'[map'.cache[i]].resets = map'.resets
    <3>1. /\ map'.resets = map.resets
          /\ \A i \in Ids : map'.cache[i] # None => cluster'[map'.cache[i]].resets = map.resets
      BY ZenonT(30), <1>2, GetClusterGives
    <3> QED BY Zenon, <3>1
  <2> QED BY Zenon, <2>1, <2>2 DEF Fresh
<1>3. ASSUME NEW t \in Threads, Lookup(t) PROVE Fresh'
  <2>1. /\ ~ Asks(thread'[t]) /\ UNCHANGED <<map, loader, cluster>>
        /\ \A u \in Threads \ {t} : thread'[u] = thread[u]
    BY <1>3 DEF Lookup, TypeOK, ThreadRecord, Asks
  <2> QED BY <2>1 DEF Fresh
<1>4. ASSUME Reset PROVE Fresh'
  <2>1. /\ map'.cache = [id \in Ids |-> None] /\ map'.resets = map.resets + 1 /\ UNCHANGED thread
    BY <1>4 DEF Reset, Users
  <2> QED BY SMTT(60), <1>0, <2>1 DEF Fresh
<1>5. ASSUME DestructDoomed \/ Configure \/ Elapse \/ UNCHANGED vars \/ \E contents \in Files : Load(contents)
      PROVE  map' = map /\ (loader'.pc = "reset" => loader.pc = "reset")
  BY ZenonT(60), <1>5 DEF DestructDoomed, Configure, Elapse, vars, Load, Rest, TypeOK, LoaderRecord
<1>6. ASSUME NEW w \in Workers, WorkerStep(w) PROVE UNCHANGED <<map, loader>>
  BY <1>6 DEF WorkerStep, Take, Lock, Collect, Publish, Rest
<1> QED BY <1>1, <1>2, <1>3, <1>4, <1>5, <1>6, IdlesSteps, IdlesOthers DEF Next, ThreadStep, LoaderStep

\* Every thread is handed out the one object of the information in force, and
\* getAdminCluster finds on its second look what getCluster found, unless the map
\* has been reset in between.
THEOREM HandsOutCurrentHolds == Spec => HandsOutCurrent
<1> DEFINE Hands(t) == LET held == thread'[t].held
                       IN /\ held \notin {thread[t].held, None} =>
                               held \in Range(map'.cache) /\ cluster'[held].resets = map'.resets
                          /\ thread[t].pc = "lookup" /\ thread'[t].pc # "lookup" /\ held = None =>
                               map.resets > thread[t].resets
<1>1. Init => Fresh
  <2> SUFFICES ASSUME Init PROVE Fresh
    OBVIOUS
  <2>1. \A id \in Ids : map.cache[id] = None
    BY ZenonT(60) DEF Init
  <2>2. \A t \in Threads : ~ Asks(thread[t])
    BY ZenonT(60) DEF Init, Asks
  <2> QED BY <2>1, <2>2 DEF Fresh
<1>2. TypeOK /\ Attached /\ Fresh /\ [Next]_vars => Fresh'
  BY FreshStep
<1>3. ASSUME TypeOK, Attached, TypeOK', Fresh, [Next]_vars, NEW u \in Threads PROVE Hands(u)
  <2>1. CASE Idles(u)
    BY ZenonT(60), <2>1 DEF Idles
  <2>2. ASSUME NEW t \in Threads, NEW id \in Ids, NEW admin \in BOOLEAN, getCluster(t, id, admin)
        PROVE  Hands(u)
    <3>1. CASE thread'[u] = thread[u]
      BY <3>1
    <3>2. CASE thread'[u] # thread[u]
      <4>0. u = t /\ thread[u].pc = "idle"
        BY ZenonT(60), <1>3, <2>2, <3>2, GetClusterGives DEF getCluster
      <4>1. /\ thread'[u].held \in {None, map'.cache[id]}
            /\ map'.cache[id] # None => cluster'[map'.cache[id]].resets = map'.resets
        <5>1. /\ map'.resets = map.resets
              /\ map'.cache[id] # None => cluster'[map'.cache[id]].resets = map.resets
          BY ZenonT(60), <1>3, <2>2, GetClusterGives
        <5>2. thread'[t].held \in {None, map'.cache[id]}
          BY <1>3, <2>2, <3>2, <4>0, GetClusterGives
        <5> QED BY <4>0, <5>1, <5>2
      <4>2. map'.cache[id] \in Range(map'.cache)
        BY <1>3 DEF TypeOK, MapRecord, Range
      <4> QED BY <4>0, <4>1, <4>2
    <3> QED BY <3>1, <3>2
  <2>3. ASSUME NEW t \in Threads, Lookup(t) PROVE Hands(u)
    <3>1. CASE u # t
      <4>1. thread'[u] = thread[u]
        BY <2>3, <3>1 DEF Lookup, TypeOK
      <4> QED BY <4>1
    <3>2. CASE u = t
      <4>1. /\ thread[t].pc = "lookup" /\ thread[t].id \in Ids /\ UNCHANGED <<map, cluster>>
            /\ thread[t].resets \in Nat /\ map.resets \in Nat
        BY ZenonT(60), <2>3, <1>3 DEF Lookup, Attached, AttachedThread, TypeOK, ThreadRecord, MapRecord
      <4>2. thread'[t].held = IF Unlocked THEN map.cache[thread[t].id] ELSE None
        BY <2>3, <1>3 DEF Lookup, TypeOK, ThreadRecord
      <4>3. Asks(thread[t])
        BY <4>1 DEF Asks
      <4>4. thread'[t].held = None => map.resets > thread[t].resets
        BY SMTT(60), <1>3, <4>1, <4>2, <4>3 DEF Fresh, Unlocked
      <4>5. thread'[t].held # None => thread'[t].held \in Range(map'.cache) /\ cluster'[thread'[t].held].resets = map'.resets
        BY ZenonT(60), <1>3, <4>1, <4>2 DEF Fresh, Range, TypeOK, MapRecord
      <4> QED BY <3>2, <4>4, <4>5
    <3> QED BY ZenonT(60), <3>1, <3>2
  <2> QED BY ZenonT(60), <1>3, <2>1, <2>2, <2>3, IdlesSteps, IdlesOthers DEF Next, ThreadStep
<1>4. TypeOK /\ Attached /\ TypeOK' /\ Fresh /\ [Next]_vars =>
        [\A t \in Threads :
           LET held == thread'[t].held
           IN /\ held \notin {thread[t].held, None} =>
                   held \in Range(map'.cache) /\ cluster'[held].resets = map'.resets
              /\ thread[t].pc = "lookup" /\ thread'[t].pc # "lookup" /\ held = None =>
                   map.resets > thread[t].resets]_vars
  BY <1>3
<1> QED BY <1>1, <1>2, <1>4, TypesInvariant, PTL DEF Spec, HandsOutCurrent
=============================================================================
