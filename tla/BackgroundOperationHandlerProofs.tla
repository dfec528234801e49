------------------ MODULE BackgroundOperationHandlerProofs ------------------
(***************************************************************************)
(* Proofs about BackgroundOperationHandler, for any number of producers,   *)
(* threads and changes of the configuration.                               *)
(***************************************************************************)
EXTENDS BackgroundOperationHandler, FiniteSetTheorems, TLAPS

ProducerAt == {"idle", "push", "notify_worker", "check", "blocked", "spawn", "inline",
               "returned", "refused"}
SlotAt == {"none", "new", "new_noqueue", "lock", "prewait", "waiting", "notify_controller",
           "execute", "execute_noqueue", "exit"}
AdminAt == {"idle", "drain", "draining", "flag", "notify_all", "join", "destroyed",
            "change_flag", "change_notify_all", "change_join", "change_spawn", "change_limits"}

\* Every thread is at one of the locations of its kind.
Located ==
  /\ pc \in [Threads -> ProducerAt \cup SlotAt \cup AdminAt]
  /\ \A p \in Producers : pc[p] \in ProducerAt
  /\ \A s \in Slots : pc[s] \in SlotAt
  /\ pc[Admin] \in AdminAt

TypeOK ==
  /\ q \in Seq(Producers)
  /\ numthreads \in Int
  /\ Located
  /\ function \in [Slots -> Producers \cup {None}]
  /\ runs \in [Producers -> Nat]

InQueue(p) == \E i \in 1..Len(q) : q[i] = p
InHands(p) == \E s \in Slots : function[s] = p

\* Every function has one place: the queue, the hands of one thread, or the past;
\* and it has one exactly if it has been accepted.
Placed ==
  /\ \A i, j \in 1..Len(q) : q[i] = q[j] => i = j
  /\ \A s, t \in Slots : function[s] = function[t] /\ function[s] # None => s = t
  /\ \A p \in Producers :
       /\ ~ (InQueue(p) /\ InHands(p))
       /\ runs[p] \in {0, 1}
       /\ runs[p] = 1 => ~ InQueue(p) /\ ~ InHands(p)
       /\ Accepted(p) <=> InQueue(p) \/ InHands(p) \/ runs[p] = 1

\* A thread has a function exactly from when it gets it until it has executed it.
Busy == {"new_noqueue", "notify_controller", "execute", "execute_noqueue"}
Occupied == \A s \in Slots : function[s] \in Producers <=> pc[s] \in Busy

\* numthreads counts the threads that have counted themselves.
Uncounted == {"none", "new", "new_noqueue"}
Counted == {s \in Slots : pc[s] \notin Uncounted}
CountExact == numthreads = Cardinality(Counted)

\* Once the destructor is past its wait for the queue, nobody adds to it.
Destructing == {"drain", "draining", "flag", "notify_all", "join", "destroyed"}
Emptied == {"flag", "notify_all", "join", "destroyed"}
Abandoned ==
  /\ pc[Admin] \in Destructing => \A p \in Producers : pc[p] \in {"idle", "returned", "refused"}
  /\ pc[Admin] \in Emptied => q = <<>>
  /\ pc[Admin] = "destroyed" =>
       \A s \in Slots : pc[s] \in Busy => pc[s] \in {"new_noqueue", "execute_noqueue"}

HandlerInv == TypeOK /\ Placed /\ Occupied /\ CountExact /\ Abandoned

\* Two threads move at the same time.
LEMMA MoveTwo ==
  ASSUME NEW T, NEW R, NEW f \in [T -> R], NEW a \in T, NEW b \in T, a # b,
         NEW x \in R, NEW y \in R
  PROVE  LET g == [f EXCEPT ![a] = x, ![b] = y]
         IN  /\ g \in [T -> R] /\ g[a] = x /\ g[b] = y
             /\ \A t \in T \ {a, b} : g[t] = f[t]
OBVIOUS

\* A thread of one kind and another one move to locations of their kinds.
LEMMA LocatedMoveTwo ==
  ASSUME Located, NEW a \in Threads, NEW b \in Threads, a # b,
         NEW x, NEW y, pc' = [pc EXCEPT ![a] = x, ![b] = y],
         a \in Producers => x \in ProducerAt, b \in Producers => y \in ProducerAt,
         a \in Slots => x \in SlotAt, b \in Slots => y \in SlotAt,
         a = Admin => x \in AdminAt, b = Admin => y \in AdminAt
  PROVE  Located'
<1> DEFINE R == ProducerAt \cup SlotAt \cup AdminAt
<1>1. x \in R /\ y \in R
  BY DEF Threads
<1>2. /\ pc' \in [Threads -> R] /\ pc'[a] = x /\ pc'[b] = y
      /\ \A t \in Threads \ {a, b} : pc'[t] = pc[t]
  BY <1>1, MoveTwo DEF Located
<1>3. Producers \subseteq Threads /\ Slots \subseteq Threads /\ Admin \in Threads
  BY DEF Threads
<1> QED BY <1>2, <1>3 DEF Located

\* A notification moves the thread that makes it and at most one that waits.
LEMMA NotifyWorkerMoves ==
  ASSUME NEW p, NotifyWorker(p)
  PROVE  \/ pc' = [pc EXCEPT ![p] = AfterPush(p)]
         \/ \E w \in Waiting("waiting") : pc' = [pc EXCEPT ![p] = AfterPush(p), ![w] = "lock"]
<1>1. Notify(p, AfterPush(p), Waiting("waiting"), [t \in Threads |-> "lock"])
  BY DEF NotifyWorker
<1>2. \A w \in Waiting("waiting") : [t \in Threads |-> "lock"][w] = "lock"
  BY DEF Waiting
<1> QED BY <1>1, <1>2 DEF Notify, Goto

\* So does the notification of those that wait for the queue to shrink.
LEMMA NotifyControllerMoves ==
  ASSUME NEW s, NotifyController(s)
  PROVE  \/ pc' = [pc EXCEPT ![s] = "execute"]
         \/ \E w \in Waiting("blocked") \cup Waiting("draining") :
              pc' = [pc EXCEPT ![s] = "execute", ![w] = Resume[w]]
<1>1. Notify(s, "execute", Waiting("blocked") \cup Waiting("draining"), Resume)
  BY DEF NotifyController
<1> QED BY <1>1 DEF Notify, Goto

\* A function that is not queued goes to a new thread, to its caller, or nowhere.
LEMMA SpawnThreadMoves ==
  ASSUME NEW p, SpawnThread(p)
  PROVE  \/ \E l \in {"inline", "refused"} : pc' = [pc EXCEPT ![p] = l] /\ UNCHANGED function
         \/ \E s \in Slots : /\ pc[s] = "none"
                            /\ pc' = [pc EXCEPT ![p] = "returned", ![s] = "new_noqueue"]
                            /\ function' = [function EXCEPT ![s] = p]
BY DEF SpawnThread, Goto

\* Every step keeps the threads at locations of their kind.
LEMMA LocatedStep == TypeOK /\ [Next]_vars => Located'
<1> SUFFICES ASSUME TypeOK, [Next]_vars PROVE Located'
  OBVIOUS
<1> USE HandlerAssumption DEF TypeOK, Located, Threads, ProducerAt, SlotAt, AdminAt
<1>1. ASSUME NEW p \in Producers, NEW name, Call(p, name) PROVE Located'
  BY <1>1 DEF Call, Goto
<1>2. ASSUME NEW p \in Producers, Push(p) PROVE Located'
  <2>1. \E l \in {"refused", "notify_worker"} : pc' = [pc EXCEPT ![p] = l]
    BY ZenonT(30), <1>2 DEF Push, Goto
  <2> QED BY <2>1
<1>3. ASSUME NEW p \in Producers, NotifyWorker(p) PROVE Located'
  <2>1. AfterPush(p) \in ProducerAt
    BY DEF AfterPush
  <2>2. Waiting("waiting") \subseteq Slots
    BY DEF Waiting
  <2>3. CASE pc' = [pc EXCEPT ![p] = AfterPush(p)]
    BY <2>1, <2>3
  <2>4. ASSUME NEW w \in Slots, pc' = [pc EXCEPT ![p] = AfterPush(p), ![w] = "lock"]
        PROVE  Located'
    BY ZenonT(60), <2>1, <2>4, LocatedMoveTwo
  <2> QED BY ZenonT(60), <1>3, <2>2, <2>3, <2>4, NotifyWorkerMoves
<1>4. ASSUME NEW p \in Producers, CheckCapacity(p) PROVE Located'
  BY <1>4 DEF CheckCapacity, Goto
<1>5. ASSUME NEW p \in Producers, SpawnThread(p) PROVE Located'
  <2>1. CASE \E l \in {"inline", "refused"} : pc' = [pc EXCEPT ![p] = l]
    BY <2>1
  <2>2. ASSUME NEW s \in Slots, pc' = [pc EXCEPT ![p] = "returned", ![s] = "new_noqueue"]
        PROVE  Located'
    BY ZenonT(60), <2>2, LocatedMoveTwo
  <2> QED BY ZenonT(60), <1>5, <2>1, <2>2, SpawnThreadMoves
<1>6. ASSUME NEW p \in Producers, ExecuteInline(p) PROVE Located'
  BY <1>6 DEF ExecuteInline, Goto
<1>7. ASSUME NEW s \in Slots, Start(s) PROVE Located'
  <2>1. \E l \in {"lock", "execute_noqueue"} : pc' = [pc EXCEPT ![s] = l]
    BY ZenonT(30), <1>7 DEF Start, Goto
  <2> QED BY <2>1
<1>8. ASSUME NEW s \in Slots, Take(s) \/ DecideToWait(s) \/ Wait(s) \/ Leave(s) PROVE Located'
  <2>1. CASE Take(s)
    <3>1. pc' = [pc EXCEPT ![s] = "notify_controller"]
      BY <2>1 DEF Take, Goto
    <3> QED BY <3>1
  <2>2. CASE DecideToWait(s)
    BY <2>2 DEF DecideToWait, Goto
  <2>3. CASE Wait(s)
    BY <2>3 DEF Wait, Goto
  <2>4. CASE Leave(s)
    BY <2>4 DEF Leave, Goto
  <2> QED BY <1>8, <2>1, <2>2, <2>3, <2>4
<1>9. ASSUME NEW s \in Slots, NotifyController(s) PROVE Located'
  <2>1. \A w \in Waiting("blocked") \cup Waiting("draining") :
          \/ w \in Producers /\ Resume[w] = "check"
          \/ w = Admin /\ Resume[w] = "drain"
    BY DEF Waiting, Resume
  <2>2. CASE pc' = [pc EXCEPT ![s] = "execute"]
    BY <2>2
  <2>3. ASSUME NEW w \in Waiting("blocked") \cup Waiting("draining"),
               pc' = [pc EXCEPT ![s] = "execute", ![w] = Resume[w]]
        PROVE  Located'
    <3>1. CASE w \in Producers /\ Resume[w] = "check"
      BY ZenonT(60), <2>3, <3>1, LocatedMoveTwo
    <3>2. CASE w = Admin /\ Resume[w] = "drain"
      BY ZenonT(60), <2>3, <3>2, LocatedMoveTwo
    <3> QED BY ZenonT(60), <2>1, <3>1, <3>2
  <2> QED BY ZenonT(60), <1>9, <2>2, <2>3, NotifyControllerMoves
<1>10. ASSUME NEW s \in Slots, Execute(s) \/ Exit(s) PROVE Located'
  BY ZenonT(60), <1>10 DEF Execute, Exit, Goto
<1>11. CASE Destroy \/ Drain \/ SetShutdown \/ Destroyed \/ Joined \/ SetLimits
  BY SMTT(60), <1>11 DEF Destroy, Drain, SetShutdown, Destroyed, Joined, SetLimits, Goto
<1>12. CASE NotifyAll
  BY <1>12 DEF NotifyAll
<1>13. ASSUME NEW c, changeConfiguration(c) PROVE Located'
  BY <1>13 DEF changeConfiguration, Goto
<1>14. CASE SpawnWorkers
  <2>1. PICK S \in SUBSET Slots :
          pc' = [t \in Threads |-> IF t \in S THEN "new" ELSE [pc EXCEPT ![Admin] = "change_limits"][t]]
    BY ZenonT(60), <1>14 DEF SpawnWorkers, Spawn
  <2> QED BY <2>1
<1>15. CASE UNCHANGED vars
  BY <1>15 DEF vars
<1> QED BY ZenonT(60), <1>1, <1>2, <1>3, <1>4, <1>5, <1>6, <1>7, <1>8, <1>9, <1>10, <1>11, <1>12, <1>13,
           <1>14, <1>15 DEF Next, Run, TryRun, Produce, Work, Administer

\* A step that gives no function a new place: no call is accepted and no thread gets
\* or executes a function.
Keeps ==
  /\ UNCHANGED <<q, function, runs>>
  /\ \A p \in Producers : Accepted(p)' <=> Accepted(p)
  /\ \A s \in Slots : pc'[s] \in Busy <=> pc[s] \in Busy

\* Such a step keeps every function in its place.
LEMMA KeepsPlaced == ASSUME Placed, Occupied, Keeps PROVE Placed' /\ Occupied'
<1>1. \A p \in Producers : (InQueue(p)' <=> InQueue(p)) /\ (InHands(p)' <=> InHands(p))
  BY DEF Keeps, InQueue, InHands
<1>2. Placed'
  BY <1>1 DEF Keeps, Placed
<1>3. Occupied'
  BY DEF Keeps, Occupied
<1> QED BY <1>2, <1>3

\* Most steps of producers are of that kind,
LEMMA ProducerKeeps ==
  ASSUME TypeOK, Occupied, NEW p \in Producers,
         \/ \E name : Call(p, name)
         \/ NotifyWorker(p) \/ CheckCapacity(p)
         \/ Push(p) /\ Full(p)
         \/ SpawnThread(p) /\ UNCHANGED function
  PROVE  Keeps
<1> USE HandlerAssumption DEF TypeOK, Located, Threads, Accepted, Busy, Keeps
<1>1. ASSUME NEW name, Call(p, name) PROVE Keeps
  BY <1>1 DEF Call, Goto
<1>2. CASE NotifyWorker(p)
  <2>1. UNCHANGED <<q, function, runs>> /\ pc[p] = "notify_worker"
    BY <1>2 DEF NotifyWorker
  <2>2. AfterPush(p) \in {"check", "returned"}
    BY DEF AfterPush
  <2>3. CASE pc' = [pc EXCEPT ![p] = AfterPush(p)]
    BY <2>1, <2>2, <2>3
  <2>4. ASSUME NEW w \in Waiting("waiting"), pc' = [pc EXCEPT ![p] = AfterPush(p), ![w] = "lock"]
        PROVE  Keeps
    <3>1. w \in Slots /\ pc[w] = "waiting"
      BY ZenonT(60) DEF Waiting, ProducerAt, AdminAt
    <3>2. \A t \in Threads : pc'[t] = IF t = w THEN "lock" ELSE IF t = p THEN AfterPush(p) ELSE pc[t]
      BY <2>4
    <3> QED BY ZenonT(60), <2>1, <2>2, <3>1, <3>2
  <2> QED BY ZenonT(60), <1>2, <2>3, <2>4, NotifyWorkerMoves
<1>3. CASE CheckCapacity(p)
  BY <1>3 DEF CheckCapacity, Goto
<1>4. CASE Push(p) /\ Full(p)
  BY <1>4 DEF Push, Goto
<1>5. CASE SpawnThread(p) /\ UNCHANGED function
  <2>1. pc[p] = "spawn" /\ UNCHANGED <<q, function, runs>>
    BY ZenonT(60), <1>5 DEF SpawnThread
  <2>2. CASE \E l \in {"inline", "refused"} : pc' = [pc EXCEPT ![p] = l]
    BY <2>1, <2>2
  <2>3. ASSUME NEW s \in Slots, pc[s] = "none", function' = [function EXCEPT ![s] = p]
        PROVE  FALSE
    BY <1>5, <2>3 DEF Occupied
  <2> QED BY <1>5, <2>2, <2>3, SpawnThreadMoves
<1> QED BY <1>1, <1>2, <1>3, <1>4, <1>5

\* and of the threads of the handler,
LEMMA WorkerKeeps ==
  ASSUME TypeOK, NEW s \in Slots,
         \/ Start(s) \/ DecideToWait(s) \/ Wait(s) \/ Leave(s) \/ NotifyController(s) \/ Exit(s)
  PROVE  Keeps
<1> USE HandlerAssumption DEF TypeOK, Located, Threads, Accepted, Busy, Keeps
<1>1. CASE Start(s) \/ DecideToWait(s) \/ Wait(s) \/ Leave(s) \/ Exit(s)
  BY SMTT(60), <1>1 DEF Start, DecideToWait, Wait, Leave, Exit, Goto
<1>2. CASE NotifyController(s)
  <2>1. UNCHANGED <<q, function, runs>> /\ pc[s] = "notify_controller"
    BY <1>2 DEF NotifyController
  <2>2. CASE pc' = [pc EXCEPT ![s] = "execute"]
    BY <2>1, <2>2
  <2>3. ASSUME NEW w \in Waiting("blocked") \cup Waiting("draining"),
               pc' = [pc EXCEPT ![s] = "execute", ![w] = Resume[w]]
        PROVE  Keeps
    <3>1. \/ w \in Producers /\ pc[w] = "blocked" /\ Resume[w] = "check"
          \/ w = Admin
      BY ZenonT(60) DEF Waiting, Resume, SlotAt, ProducerAt
    <3>2. \A t \in Threads : pc'[t] = IF t = w THEN Resume[w] ELSE IF t = s THEN "execute" ELSE pc[t]
      BY <2>3
    <3> QED BY ZenonT(60), <2>1, <3>1, <3>2
  <2> QED BY ZenonT(60), <1>2, <2>2, <2>3, NotifyControllerMoves
<1> QED BY <1>1, <1>2

\* and all steps of the administrator.
LEMMA AdminKeeps ==
  ASSUME TypeOK, Destroy \/ Administer \/ \E c : changeConfiguration(c)
  PROVE  Keeps
<1> USE HandlerAssumption DEF TypeOK, Located, Threads, Accepted, Busy, Keeps
<1>1. CASE Destroy \/ Drain \/ SetShutdown \/ Destroyed \/ Joined \/ SetLimits
  BY <1>1 DEF Destroy, Drain, SetShutdown, Destroyed, Joined, SetLimits, Goto
<1>2. CASE NotifyAll
  BY <1>2 DEF NotifyAll
<1>3. ASSUME NEW c, changeConfiguration(c) PROVE Keeps
  BY <1>3 DEF changeConfiguration, Goto
<1>4. CASE SpawnWorkers
  <2>1. UNCHANGED <<q, function, runs>>
    BY <1>4 DEF SpawnWorkers
  <2>2. PICK S \in SUBSET {s \in Slots : [pc EXCEPT ![Admin] = "change_limits"][s] = "none"} :
          pc' = [t \in Threads |-> IF t \in S THEN "new" ELSE [pc EXCEPT ![Admin] = "change_limits"][t]]
    BY ZenonT(60), <1>4 DEF SpawnWorkers, Spawn
  <2>3. \A s \in S : s \in Slots /\ pc[s] = "none"
    BY <2>2
  <2> QED BY <2>1, <2>2, <2>3
<1> QED BY ZenonT(60), <1>1, <1>2, <1>3, <1>4 DEF Administer

\* A function that is pushed had no place before, and has the last one in the queue.
LEMMA PushPlaced ==
  ASSUME TypeOK, Placed, Occupied, NEW p \in Producers, Push(p), ~ Full(p)
  PROVE  q' \in Seq(Producers) /\ Placed' /\ Occupied'
<1>1. /\ pc[p] = "push" /\ q' = Append(q, p) /\ pc' = [pc EXCEPT ![p] = "notify_worker"]
      /\ UNCHANGED <<function, runs>>
  BY DEF Push, Goto
<1>2. /\ q' \in Seq(Producers) /\ Len(q') = Len(q) + 1 /\ Len(q) \in Nat
      /\ \A i \in 1..Len(q) : q'[i] = q[i] /\ q[i] \in Producers
      /\ q'[Len(q) + 1] = p
  BY <1>1 DEF TypeOK
<1>3. \A t \in Producers : Accepted(t)' <=> Accepted(t) \/ t = p
  BY <1>1 DEF Accepted, TypeOK, Located, Threads
<1>4. ~ Accepted(p)
  BY <1>1 DEF Accepted
<1>5. \A t \in Producers : (InQueue(t)' <=> InQueue(t) \/ t = p) /\ (InHands(t)' <=> InHands(t))
  BY <1>1, <1>2 DEF InQueue, InHands
<1>6. \A i, j \in 1..Len(q') : q'[i] = q'[j] => i = j
  BY <1>2, <1>4 DEF Placed, InQueue
<1>7. Placed'
  BY <1>1, <1>3, <1>4, <1>5, <1>6 DEF Placed
<1>8. Occupied'
  BY <1>1, HandlerAssumption DEF Occupied, TypeOK, Located, Threads
<1> QED BY <1>2, <1>7, <1>8

\* A function for which a thread is created is in the hands of that thread alone.
LEMMA SpawnPlaced ==
  ASSUME TypeOK, Placed, Occupied, NEW p \in Producers, SpawnThread(p), NEW s \in Slots,
         pc[s] = "none", pc' = [pc EXCEPT ![p] = "returned", ![s] = "new_noqueue"],
         function' = [function EXCEPT ![s] = p]
  PROVE  Placed' /\ Occupied'
<1>1. pc[p] = "spawn" /\ UNCHANGED <<q, runs>>
  BY DEF SpawnThread
<1>2. \A t \in Threads : pc'[t] = IF t = s THEN "new_noqueue" ELSE IF t = p THEN "returned" ELSE pc[t]
  BY DEF TypeOK, Located
<1>3. \A t \in Slots : function'[t] = IF t = s THEN p ELSE function[t]
  BY DEF TypeOK
<1>4. \A t \in Producers : Accepted(t)' <=> Accepted(t) \/ t = p
  BY ZenonT(60), <1>1, <1>2, HandlerAssumption DEF Accepted, Threads
<1>5. ~ Accepted(p) /\ function[s] = None
  BY <1>1 DEF Accepted, Occupied, Busy, TypeOK
<1>6. \A t \in Producers : (InHands(t)' <=> InHands(t) \/ t = p) /\ (InQueue(t)' <=> InQueue(t))
  BY <1>1, <1>3, <1>5, HandlerAssumption DEF InHands, InQueue
<1>7. \A t, u \in Slots : function'[t] = function'[u] /\ function'[t] # None => t = u
  BY SMTT(60), <1>3, <1>5 DEF Placed, InHands
<1>8. Placed'
  BY ZenonT(60), <1>1, <1>4, <1>5, <1>6, <1>7 DEF Placed
<1>9. Occupied'
  BY ZenonT(60), <1>2, <1>3, HandlerAssumption DEF Occupied, Busy, Threads
<1> QED BY <1>8, <1>9

\* A function that its caller executes has no other place.
LEMMA InlinePlaced ==
  ASSUME TypeOK, Placed, Occupied, NEW p \in Producers, ExecuteInline(p)
  PROVE  Placed' /\ Occupied'
<1>1. /\ pc[p] = "inline" /\ runs' = [runs EXCEPT ![p] = @ + 1]
      /\ pc' = [pc EXCEPT ![p] = "returned"] /\ UNCHANGED <<q, function>>
  BY DEF ExecuteInline, Goto
<1>2. \A t \in Producers : Accepted(t)' <=> Accepted(t) \/ t = p
  BY <1>1, HandlerAssumption DEF Accepted, TypeOK, Located, Threads
<1>3. ~ Accepted(p) /\ runs[p] = 0 /\ runs'[p] = 1 /\ \A t \in Producers \ {p} : runs'[t] = runs[t]
  BY <1>1 DEF Accepted, Placed, TypeOK
<1>4. \A t \in Producers : (InHands(t)' <=> InHands(t)) /\ (InQueue(t)' <=> InQueue(t))
  BY <1>1 DEF InHands, InQueue
<1>5. Placed'
  BY <1>1, <1>2, <1>3, <1>4 DEF Placed
<1>6. Occupied'
  BY <1>1, HandlerAssumption DEF Occupied, TypeOK, Located, Threads
<1> QED BY <1>5, <1>6

\* A thread that takes the first function of the queue is the only place of it.
LEMMA TakePlaced ==
  ASSUME TypeOK, Placed, Occupied, NEW s \in Slots, Take(s)
  PROVE  q' \in Seq(Producers) /\ function' \in [Slots -> Producers \cup {None}] /\ Placed' /\ Occupied'
<1>1. /\ pc[s] = "lock" /\ q # <<>> /\ function' = [function EXCEPT ![s] = Head(q)] /\ q' = Tail(q)
      /\ pc' = [pc EXCEPT ![s] = "notify_controller"] /\ UNCHANGED runs
  BY DEF Take, Goto
<1>2. /\ Len(q) \in Nat \ {0} /\ Head(q) = q[1] /\ Len(q') = Len(q) - 1 /\ q' \in Seq(Producers)
      /\ \A i \in 1..Len(q') : q'[i] = q[i + 1] /\ i + 1 \in 1..Len(q)
      /\ \A i \in 1..Len(q) : q[i] \in Producers
  BY <1>1 DEF TypeOK
<1>3. \A t \in Slots : function'[t] = IF t = s THEN q[1] ELSE function[t]
  BY <1>1, <1>2 DEF TypeOK
<1>4. function' \in [Slots -> Producers \cup {None}]
  BY <1>1, <1>2 DEF TypeOK
<1>5. function[s] = None
  BY ZenonT(60), <1>1 DEF Occupied, Busy, TypeOK
<1>6. \A t \in Producers : Accepted(t)' <=> Accepted(t)
  BY <1>1, HandlerAssumption DEF Accepted, TypeOK, Located, Threads
<1>7. \A t \in Producers : InQueue(t)' <=> InQueue(t) /\ t # q[1]
  <2>1. \A i \in 1..Len(q) : i # 1 => i - 1 \in 1..Len(q') /\ q'[i - 1] = q[i]
    BY <1>2
  <2>2. \A i \in 1..Len(q') : q'[i] # q[1]
    BY <1>2 DEF Placed
  <2>3. ASSUME NEW t \in Producers, InQueue(t)' PROVE InQueue(t) /\ t # q[1]
    <3>1. PICK i \in 1..Len(q') : q'[i] = t
      BY <2>3 DEF InQueue
    <3> QED BY <1>2, <2>2, <3>1 DEF InQueue
  <2>4. ASSUME NEW t \in Producers, InQueue(t), t # q[1] PROVE InQueue(t)'
    <3>1. PICK i \in 1..Len(q) : q[i] = t
      BY <2>4 DEF InQueue
    <3> QED BY <2>1, <2>4, <3>1 DEF InQueue
  <2> QED BY <2>3, <2>4
<1>8. \A t \in Producers : InHands(t)' <=> InHands(t) \/ t = q[1]
  BY <1>3, <1>5, HandlerAssumption DEF InHands
<1>9. InQueue(q[1]) /\ q[1] \in Producers
  BY SMTT(60), <1>2 DEF InQueue
<1>10. \A i, j \in 1..Len(q') : q'[i] = q'[j] => i = j
  BY SMTT(60), <1>2 DEF Placed
<1>11. \A t, u \in Slots : function'[t] = function'[u] /\ function'[t] # None => t = u
  BY SMTT(60), <1>3, <1>5, <1>9 DEF Placed, InHands
<1>12. Placed'
  BY ZenonT(60), <1>1, <1>6, <1>7, <1>8, <1>9, <1>10, <1>11 DEF Placed
<1>13. Occupied'
  BY <1>1, <1>3, <1>9, HandlerAssumption DEF Occupied, Busy, TypeOK, Located, Threads
<1> QED BY <1>2, <1>4, <1>12, <1>13

\* A thread that has executed its function has none.
LEMMA ExecutePlaced ==
  ASSUME TypeOK, Placed, Occupied, NEW s \in Slots, Execute(s)
  PROVE  /\ function' \in [Slots -> Producers \cup {None}] /\ runs' \in [Producers -> Nat]
         /\ Placed' /\ Occupied'
<1>1. /\ pc[s] \in {"execute", "execute_noqueue"} /\ runs' = [runs EXCEPT ![function[s]] = @ + 1]
      /\ function' = [function EXCEPT ![s] = None] /\ UNCHANGED q
      /\ \E l \in {"lock", "exit"} : pc' = [pc EXCEPT ![s] = l]
  BY ZenonT(60) DEF Execute, Goto
<1> DEFINE f == function[s]
<1>2. f \in Producers
  BY <1>1 DEF Occupied, Busy
<1>3. InHands(f)
  BY DEF InHands
<1>4. runs[f] = 0 /\ runs'[f] = 1 /\ \A t \in Producers \ {f} : runs'[t] = runs[t]
  BY SMTT(60), <1>1, <1>2, <1>3 DEF Placed, TypeOK
<1>5. \A t \in Slots : function'[t] = IF t = s THEN None ELSE function[t]
  BY <1>1 DEF TypeOK
<1>6. function' \in [Slots -> Producers \cup {None}] /\ runs' \in [Producers -> Nat]
  BY <1>1, <1>2 DEF TypeOK
<1>7. \A t \in Producers : Accepted(t)' <=> Accepted(t)
  BY <1>1, HandlerAssumption DEF Accepted, TypeOK, Located, Threads
<1>8. \A t \in Producers : (InHands(t)' <=> InHands(t) /\ t # f) /\ (InQueue(t)' <=> InQueue(t))
  BY SMTT(60), <1>1, <1>2, <1>5, HandlerAssumption DEF InHands, InQueue, Placed
<1>9. \A t, u \in Slots : function'[t] = function'[u] /\ function'[t] # None => t = u
  BY <1>5 DEF Placed
<1> HIDE DEF f
<1>10. Placed'
  BY <1>1, <1>2, <1>3, <1>4, <1>7, <1>8, <1>9 DEF Placed
<1>11. Occupied'
  BY <1>1, <1>5, HandlerAssumption DEF Occupied, Busy, TypeOK, Located, Threads
<1> QED BY <1>6, <1>10, <1>11

\* Every step keeps the types and gives every function at most one place.
LEMMA PlacedStep ==
  ASSUME TypeOK, Placed, Occupied, [Next]_vars
  PROVE  TypeOK' /\ Placed' /\ Occupied'
<1> DEFINE Goal == TypeOK' /\ Placed' /\ Occupied'
<1>0. Located'
  BY LocatedStep
<1>1. ASSUME Keeps, numthreads' \in Int PROVE Goal
  BY <1>0, <1>1, KeepsPlaced DEF Keeps, TypeOK
<1> HIDE DEF Goal
<1>2. ASSUME NEW p \in Producers, Run(p) \/ TryRun(p) \/ NotifyWorker(p) \/ CheckCapacity(p) PROVE Goal
  <2>1. Keeps
    BY <1>2, ProducerKeeps DEF Run, TryRun
  <2>2. UNCHANGED numthreads
    BY <1>2 DEF Run, TryRun, Call, NotifyWorker, CheckCapacity
  <2> QED BY <1>1, <2>1, <2>2 DEF TypeOK
<1>3. ASSUME NEW p \in Producers, Push(p) PROVE Goal
  <2>1. UNCHANGED <<numthreads, function, runs>>
    BY <1>3 DEF Push
  <2>2. CASE Full(p)
    BY ZenonT(60), <1>1, <1>3, <2>1, <2>2, ProducerKeeps DEF TypeOK
  <2>3. CASE ~ Full(p)
    <3>1. q' \in Seq(Producers) /\ Placed' /\ Occupied'
      BY <1>3, <2>3, PushPlaced
    <3> QED BY <1>0, <2>1, <3>1 DEF Goal, TypeOK
  <2> QED BY <2>2, <2>3
<1>4. ASSUME NEW p \in Producers, SpawnThread(p) PROVE Goal
  <2>1. UNCHANGED <<numthreads, q, runs>>
    BY <1>4 DEF SpawnThread
  <2>2. CASE UNCHANGED function
    BY ZenonT(60), <1>1, <1>4, <2>1, <2>2, ProducerKeeps DEF TypeOK
  <2>3. ASSUME NEW s \in Slots, pc[s] = "none", function' = [function EXCEPT ![s] = p],
               pc' = [pc EXCEPT ![p] = "returned", ![s] = "new_noqueue"]
        PROVE  Goal
    <3>1. Placed' /\ Occupied'
      BY ZenonT(60), <1>4, <2>3, SpawnPlaced
    <3> QED BY <1>0, <2>1, <2>3, <3>1 DEF Goal, TypeOK
  <2> QED BY <1>4, <2>2, <2>3, SpawnThreadMoves
<1>5. ASSUME NEW p \in Producers, ExecuteInline(p) PROVE Goal
  <2>1. Placed' /\ Occupied'
    BY <1>5, InlinePlaced
  <2> QED BY <1>0, <1>5, <2>1 DEF ExecuteInline, Goal, TypeOK
<1>6. ASSUME NEW s \in Slots, Start(s) \/ DecideToWait(s) \/ Wait(s) \/ Leave(s) \/ NotifyController(s) \/ Exit(s)
      PROVE  Goal
  <2>1. Keeps
    BY <1>6, WorkerKeeps
  <2>2. numthreads' \in Int
    BY SMTT(60), <1>6 DEF Start, DecideToWait, Wait, Leave, NotifyController, Exit, TypeOK
  <2> QED BY <1>1, <2>1, <2>2
<1>7. ASSUME NEW s \in Slots, Take(s) PROVE Goal
  <2>1. UNCHANGED <<numthreads, runs>>
    BY <1>7 DEF Take
  <2> QED BY <1>0, <1>7, <2>1, TakePlaced DEF Goal, TypeOK
<1>8. ASSUME NEW s \in Slots, Execute(s) PROVE Goal
  <2>1. UNCHANGED <<numthreads, q>>
    BY <1>8 DEF Execute
  <2> QED BY <1>0, <1>8, <2>1, ExecutePlaced DEF Goal, TypeOK
<1>9. ASSUME Destroy \/ Administer \/ \E c \in Configurations : changeConfiguration(c) PROVE Goal
  <2>1. Keeps
    BY <1>9, AdminKeeps
  <2>2. UNCHANGED numthreads
    BY <1>9 DEF Destroy, Administer, changeConfiguration, Drain, SetShutdown, NotifyAll, Destroyed,
               Joined, SpawnWorkers, SetLimits
  <2> QED BY <1>1, <2>1, <2>2 DEF TypeOK
<1>10. ASSUME UNCHANGED vars PROVE Goal
  <2>1. Keeps /\ UNCHANGED numthreads
    BY <1>10 DEF vars, Keeps, Accepted
  <2> QED BY <1>1, <2>1 DEF TypeOK
<1>11. Goal
  BY <1>2, <1>3, <1>4, <1>5, <1>6, <1>7, <1>8, <1>9, <1>10 DEF Next, Produce, Work
<1> QED BY <1>11 DEF Goal

\* In the initial states the queue is empty and no call has been made.
LEMMA HandlerInit == Init => TypeOK /\ Placed /\ Occupied
<1> SUFFICES ASSUME Init PROVE TypeOK /\ Placed /\ Occupied
  OBVIOUS
<1>1. PICK S \in SUBSET Slots :
        pc = [t \in Threads |-> IF t \in S THEN "new" ELSE IF t \in Slots THEN "none" ELSE "idle"]
  BY ZenonT(60) DEF Init
<1>2. q = <<>> /\ numthreads = 0 /\ function = [s \in Slots |-> None] /\ runs = [p \in Producers |-> 0]
  BY DEF Init
<1>3. \A p \in Producers : pc[p] = "idle"
  BY <1>1, HandlerAssumption DEF Threads
<1>4. TypeOK
  BY SMTT(60), <1>1, <1>2, HandlerAssumption DEF TypeOK, Located, Threads, ProducerAt, SlotAt, AdminAt
<1>5. Placed
  BY SMTT(60), <1>2, <1>3, HandlerAssumption DEF Placed, InQueue, InHands, Accepted
<1>6. Occupied
  BY <1>1, <1>2, HandlerAssumption DEF Occupied, Busy, Threads
<1> QED BY <1>4, <1>5, <1>6

\* Types and places are kept in every behaviour.
LEMMA PlacedInvariant == Spec => [](TypeOK /\ Placed /\ Occupied)
<1>1. TypeOK /\ Placed /\ Occupied /\ [Next]_vars => (TypeOK /\ Placed /\ Occupied)'
  BY PlacedStep
<1> QED BY <1>1, HandlerInit, PTL DEF Spec

\* One place is one occurrence in the queue and the threads' hands together.
LEMMA PlacedOnce == TypeOK /\ Placed => NothingLostOrRepeated
<1> SUFFICES ASSUME TypeOK, Placed, NEW p \in Producers
             PROVE  Occurrences(p) + runs[p] = IF Accepted(p) THEN 1 ELSE 0
  BY DEF NothingLostOrRepeated
<1> DEFINE Q == {i \in DOMAIN q : q[i] = p}
           H == {s \in Slots : function[s] = p}
<1>1. DOMAIN q = 1..Len(q) /\ p # None
  BY HandlerAssumption DEF TypeOK
<1>2. Cardinality(Q) = IF InQueue(p) THEN 1 ELSE 0
  <2>1. CASE InQueue(p)
    <3>1. PICK i \in 1..Len(q) : q[i] = p
      BY <2>1 DEF InQueue
    <3>2. Q = {i}
      BY <1>1, <3>1 DEF Placed
    <3> QED BY ZenonT(60), <2>1, <3>2, FS_Singleton
  <2>2. CASE ~ InQueue(p)
    <3>1. Q = {}
      BY <1>1, <2>2 DEF InQueue
    <3> QED BY <2>2, <3>1, FS_EmptySet
  <2> QED BY <2>1, <2>2
<1>3. Cardinality(H) = IF InHands(p) THEN 1 ELSE 0
  <2>1. CASE InHands(p)
    <3>1. PICK s \in Slots : function[s] = p
      BY <2>1 DEF InHands
    <3>2. H = {s}
      BY <1>1, <3>1 DEF Placed
    <3> QED BY ZenonT(60), <2>1, <3>2, FS_Singleton
  <2>2. CASE ~ InHands(p)
    <3>1. H = {}
      BY <2>2 DEF InHands
    <3> QED BY <2>2, <3>1, FS_EmptySet
  <2> QED BY <2>1, <2>2
<1>4. Occurrences(p) = Cardinality(Q) + Cardinality(H)
  BY DEF Occurrences
<1> HIDE DEF Q, H
<1> QED BY <1>2, <1>3, <1>4 DEF Placed

\* Every function that is accepted is in the queue, in the hands of one thread, or
\* has been executed, exactly once, however the configuration is changed.
THEOREM NothingLostOrRepeatedHolds == Spec => []NothingLostOrRepeated
BY PlacedInvariant, PlacedOnce, PTL

-----------------------------------------------------------------------------
\* Threads count themselves when they start and when they end, and only then.
LEMMA CountStep == ASSUME TypeOK, CountExact, [Next]_vars PROVE CountExact'
<1> USE HandlerAssumption DEF TypeOK, Located, Threads, Uncounted
<1>0. IsFiniteSet(Counted)
  BY FS_Subset DEF Counted
<1>1. ASSUME UNCHANGED numthreads, \A s \in Slots : pc'[s] \in Uncounted <=> pc[s] \in Uncounted
      PROVE  CountExact'
  <2>1. Counted' = Counted
    BY <1>1 DEF Counted
  <2> QED BY <1>1, <2>1 DEF CountExact
<1>2. ASSUME NEW p \in Producers, Run(p) \/ TryRun(p) \/ Push(p) \/ CheckCapacity(p) \/ ExecuteInline(p)
      PROVE  CountExact'
  <2>1. UNCHANGED numthreads /\ \E l : pc' = [pc EXCEPT ![p] = l]
    BY ZenonT(30), <1>2 DEF Run, TryRun, Call, Push, CheckCapacity, ExecuteInline, Goto
  <2> QED BY <1>1, <2>1
<1>3. ASSUME NEW p \in Producers, NotifyWorker(p) PROVE CountExact'
  <2>1. UNCHANGED numthreads
    BY <1>3 DEF NotifyWorker
  <2>2. CASE pc' = [pc EXCEPT ![p] = AfterPush(p)]
    BY <1>1, <2>1, <2>2
  <2>3. ASSUME NEW w \in Waiting("waiting"), pc' = [pc EXCEPT ![p] = AfterPush(p), ![w] = "lock"]
        PROVE  CountExact'
    <3>1. pc[w] = "waiting"
      BY DEF Waiting
    <3>2. \A t \in Threads : pc'[t] = IF t = w THEN "lock" ELSE IF t = p THEN AfterPush(p) ELSE pc[t]
      BY <2>3 DEF Waiting
    <3> QED BY <1>1, <2>1, <3>1, <3>2
  <2> QED BY ZenonT(60), <1>3, <2>2, <2>3, NotifyWorkerMoves
<1>4. ASSUME NEW p \in Producers, SpawnThread(p) PROVE CountExact'
  <2>1. UNCHANGED numthreads
    BY <1>4 DEF SpawnThread
  <2>2. CASE \E l : pc' = [pc EXCEPT ![p] = l]
    BY <1>1, <2>1, <2>2
  <2>3. ASSUME NEW s \in Slots, pc[s] = "none", pc' = [pc EXCEPT ![p] = "returned", ![s] = "new_noqueue"]
        PROVE  CountExact'
    <3>1. \A t \in Threads : pc'[t] = IF t = s THEN "new_noqueue" ELSE IF t = p THEN "returned" ELSE pc[t]
      BY <2>3
    <3> QED BY SMTT(60), <1>1, <2>1, <2>3, <3>1
  <2> QED BY ZenonT(60), <1>4, <2>2, <2>3, SpawnThreadMoves
<1>5. ASSUME NEW s \in Slots, Start(s) PROVE CountExact'
  <2>1. Counted' = Counted \cup {s} /\ s \notin Counted /\ numthreads' = numthreads + 1
    BY <1>5 DEF Start, Goto, Counted
  <2> QED BY ZenonT(60), <1>0, <2>1, FS_AddElement DEF CountExact
<1>6. ASSUME NEW s \in Slots, Exit(s) PROVE CountExact'
  <2>1. Counted' = Counted \ {s} /\ s \in Counted /\ numthreads' = numthreads - 1
    BY <1>6 DEF Exit, Goto, Counted
  <2> QED BY ZenonT(60), <1>0, <2>1, FS_RemoveElement DEF CountExact
<1>7. ASSUME NEW s \in Slots, Take(s) \/ DecideToWait(s) \/ Wait(s) \/ Leave(s) \/ Execute(s)
      PROVE  CountExact'
  BY <1>1, <1>7 DEF Take, DecideToWait, Wait, Leave, Execute, Goto
<1>8. ASSUME NEW s \in Slots, NotifyController(s) PROVE CountExact'
  <2>1. UNCHANGED numthreads /\ pc[s] = "notify_controller"
    BY <1>8 DEF NotifyController
  <2>2. CASE pc' = [pc EXCEPT ![s] = "execute"]
    BY <1>1, <2>1, <2>2
  <2>3. ASSUME NEW w \in Waiting("blocked") \cup Waiting("draining"),
               pc' = [pc EXCEPT ![s] = "execute", ![w] = Resume[w]]
        PROVE  CountExact'
    <3>1. w \notin Slots
      BY ZenonT(60) DEF Waiting, SlotAt
    <3>2. \A t \in Threads : pc'[t] = IF t = w THEN Resume[w] ELSE IF t = s THEN "execute" ELSE pc[t]
      BY <2>3
    <3> QED BY <1>1, <2>1, <3>1, <3>2
  <2> QED BY ZenonT(60), <1>8, <2>2, <2>3, NotifyControllerMoves
<1>9. ASSUME Destroy \/ Drain \/ SetShutdown \/ Destroyed \/ Joined \/ SetLimits PROVE CountExact'
  BY <1>1, <1>9 DEF Destroy, Drain, SetShutdown, Destroyed, Joined, SetLimits, Goto
<1>10. ASSUME NotifyAll PROVE CountExact'
  BY <1>1, <1>10 DEF NotifyAll
<1>11. ASSUME NEW c, changeConfiguration(c) PROVE CountExact'
  BY <1>1, <1>11 DEF changeConfiguration, Goto
<1>12. ASSUME SpawnWorkers PROVE CountExact'
  <2>1. PICK S \in SUBSET {s \in Slots : [pc EXCEPT ![Admin] = "change_limits"][s] = "none"} :
          pc' = [t \in Threads |-> IF t \in S THEN "new" ELSE [pc EXCEPT ![Admin] = "change_limits"][t]]
    BY ZenonT(60), <1>12 DEF SpawnWorkers, Spawn
  <2>2. \A s \in S : s \in Slots /\ pc[s] = "none"
    BY <2>1
  <2> QED BY <1>1, <1>12, <2>1, <2>2 DEF SpawnWorkers
<1>13. ASSUME UNCHANGED vars PROVE CountExact'
  BY <1>1, <1>13 DEF vars
<1> HIDE HandlerAssumption DEF TypeOK, Located, Threads, Uncounted
<1> QED BY ZenonT(60), <1>2, <1>3, <1>4, <1>5, <1>6, <1>7, <1>8, <1>9, <1>10, <1>11, <1>12, <1>13
           DEF Next, Produce, Work, Administer

\* While the handler is destroyed only its threads and the destructor take steps.
LEMMA AbandonedStep ==
  ASSUME TypeOK, CountExact, Abandoned, [Next]_vars
  PROVE  Abandoned'
<1> USE HandlerAssumption DEF TypeOK, Located, Threads, ProducerAt, SlotAt, AdminAt,
                              Destructing, Emptied, Busy, Abandoned
<1> DEFINE Quiet == {"idle", "returned", "refused"}
<1>1. ASSUME NEW p \in Producers, Run(p) \/ TryRun(p) \/ Produce(p), pc[Admin] \in Destructing
      PROVE  FALSE
  <2>1. pc[p] \in Quiet
    BY <1>1
  <2> QED BY <1>1, <2>1 DEF Run, TryRun, Call, InUse, Produce, Push, NotifyWorker, CheckCapacity,
                           SpawnThread, ExecuteInline
<1>2. ASSUME NEW p \in Producers, Run(p) \/ TryRun(p) \/ Produce(p) PROVE Abandoned'
  <2>1. pc'[Admin] = pc[Admin]
    <3>1. CASE \E l : pc' = [pc EXCEPT ![p] = l]
      BY <3>1
    <3>2. CASE NotifyWorker(p)
      BY SMTT(60), <3>2, NotifyWorkerMoves DEF Waiting
    <3>3. CASE SpawnThread(p)
      BY SMTT(60), <3>3, SpawnThreadMoves
    <3>4. \/ NotifyWorker(p) \/ SpawnThread(p)
          \/ \E l : pc' = [pc EXCEPT ![p] = l]
      BY ZenonT(30), <1>2 DEF Run, TryRun, Call, Produce, Push, CheckCapacity, ExecuteInline, Goto
    <3> QED BY <3>1, <3>2, <3>3, <3>4
  <2> QED BY <1>1, <1>2, <2>1
<1>3. ASSUME NEW s \in Slots, Start(s) \/ DecideToWait(s) \/ Wait(s) \/ Leave(s) \/ Execute(s) \/ Exit(s)
      PROVE  Abandoned'
  <2>1. CASE Start(s)
    BY <2>1 DEF Start, Goto
  <2>2. CASE DecideToWait(s)
    BY <2>2 DEF DecideToWait, Goto
  <2>3. CASE Wait(s)
    BY <2>3 DEF Wait, Goto
  <2>4. CASE Leave(s)
    BY <2>4 DEF Leave, Goto
  <2>5. CASE Execute(s)
    BY ZenonT(60), <2>5 DEF Execute, Goto
  <2>6. CASE Exit(s)
    BY <2>6 DEF Exit, Goto
  <2> QED BY ZenonT(60), <1>3, <2>1, <2>2, <2>3, <2>4, <2>5, <2>6
<1>4. ASSUME NEW s \in Slots, Take(s) PROVE Abandoned'
  BY <1>4 DEF Take, Goto
<1>5. ASSUME NEW s \in Slots, NotifyController(s) PROVE Abandoned'
  <2>1. pc[s] = "notify_controller" /\ UNCHANGED q
    BY <1>5 DEF NotifyController
  <2>2. CASE pc' = [pc EXCEPT ![s] = "execute"]
    BY <2>1, <2>2
  <2>3. ASSUME NEW w \in Waiting("blocked") \cup Waiting("draining"),
               pc' = [pc EXCEPT ![s] = "execute", ![w] = Resume[w]]
        PROVE  Abandoned'
    <3>1. \A t \in Threads : pc'[t] = IF t = w THEN Resume[w] ELSE IF t = s THEN "execute" ELSE pc[t]
      BY <2>3 DEF Waiting
    <3>2. Resume[w] = IF w = Admin THEN "drain" ELSE "check"
      BY DEF Resume, Waiting
    <3>3. w = Admin => pc[w] = "draining"
      BY DEF Waiting
    <3>4. w # Admin => w \in Producers /\ pc[w] = "blocked"
      BY ZenonT(60) DEF Waiting
    <3> QED BY ZenonT(60), <2>1, <3>1, <3>2, <3>3, <3>4
  <2> QED BY ZenonT(60), <1>5, <2>2, <2>3, NotifyControllerMoves
<1>6. ASSUME Destroy \/ Drain \/ SetShutdown \/ Joined \/ SetLimits PROVE Abandoned'
  <2>1. CASE Destroy
    BY <2>1 DEF Destroy, Goto
  <2>2. CASE Drain
    BY <2>2 DEF Drain, Goto
  <2>3. CASE SetShutdown
    BY <2>3 DEF SetShutdown, Goto
  <2>4. CASE Joined
    BY <2>4 DEF Joined, Goto
  <2>5. CASE SetLimits
    BY <2>5 DEF SetLimits, Goto
  <2> QED BY ZenonT(60), <1>6, <2>1, <2>2, <2>3, <2>4, <2>5
<1>7. ASSUME Destroyed PROVE Abandoned'
  <2>1. IsFiniteSet(Counted) /\ Cardinality(Counted) = 0
    BY <1>7, FS_Subset DEF Counted, CountExact, Destroyed
  <2>2. Counted = {}
    BY <2>1, FS_EmptySet
  <2>3. \A s \in Slots : pc[s] \in Uncounted
    BY <2>2 DEF Counted
  <2> QED BY ZenonT(60), <1>7, <2>3 DEF Destroyed, Goto, Uncounted
<1>8. ASSUME NotifyAll PROVE Abandoned'
  BY <1>8 DEF NotifyAll
<1>9. ASSUME NEW c, changeConfiguration(c) PROVE Abandoned'
  BY <1>9 DEF changeConfiguration, Goto
<1>10. ASSUME SpawnWorkers PROVE Abandoned'
  <2>1. pc'[Admin] = "change_limits"
    BY <1>10 DEF SpawnWorkers, Spawn
  <2> QED BY <2>1
<1>11. ASSUME UNCHANGED vars PROVE Abandoned'
  BY <1>11 DEF vars
<1> HIDE HandlerAssumption DEF TypeOK, Located, Threads, ProducerAt, SlotAt, AdminAt,
                              Destructing, Emptied, Busy, Abandoned
<1> QED BY ZenonT(60), <1>2, <1>3, <1>4, <1>5, <1>6, <1>7, <1>8, <1>9, <1>10, <1>11
           DEF Next, Work, Administer

\* The inductive invariant as a whole.
LEMMA HandlerInvariant == Spec => []HandlerInv
<1>1. Init => HandlerInv
  <2> SUFFICES ASSUME Init PROVE HandlerInv
    OBVIOUS
  <2>1. TypeOK /\ Placed /\ Occupied
    BY HandlerInit
  <2>2. Counted = {}
    BY HandlerAssumption DEF Init, Counted, Uncounted, Threads
  <2>3. CountExact
    BY <2>2, FS_EmptySet DEF CountExact, Init
  <2>4. pc[Admin] = "idle"
    BY HandlerAssumption DEF Init, Threads
  <2> QED BY <2>1, <2>3, <2>4 DEF HandlerInv, Abandoned, Destructing, Emptied
<1>2. HandlerInv /\ [Next]_vars => HandlerInv'
  BY PlacedStep, CountStep, AbandonedStep DEF HandlerInv
<1> QED BY <1>1, <1>2, PTL DEF Spec

\* When the destructor is done every accepted function has been executed, except
\* those of threads that run_noqueue or try_run_noqueue created and that had not
\* counted themselves when ~BackgroundOperationHandler saw no thread left.
THEOREM DestroyedRanAllHolds == Spec => []DestroyedRanAll
<1>1. HandlerInv => DestroyedRanAll
  <2> SUFFICES ASSUME HandlerInv, pc[Admin] = "destroyed", NEW p \in Producers, Accepted(p),
                      runs[p] # 1
               PROVE  \E s \in Slots : function[s] = p /\ pc[s] \in {"new_noqueue", "execute_noqueue"}
    BY DEF DestroyedRanAll
  <2>1. ~ InQueue(p)
    BY DEF HandlerInv, Abandoned, Emptied, InQueue
  <2>2. InHands(p)
    BY <2>1 DEF HandlerInv, Placed
  <2>3. PICK s \in Slots : function[s] = p
    BY <2>2 DEF InHands
  <2>4. pc[s] \in Busy
    BY <2>3 DEF HandlerInv, Occupied
  <2> QED BY <2>3, <2>4 DEF HandlerInv, Abandoned
<1> QED BY <1>1, HandlerInvariant, PTL

-----------------------------------------------------------------------------
\* A step that changes what has been done with one function, in one of the ways
\* Executor allows, is a step of Executor.
LEMMA OneFunctionStep ==
  ASSUME NEW p \in Producers,
         \A o \in Producers \ {p} : ExecutorState'[o] = ExecutorState[o],
         \/ ExecutorState'[p] = ExecutorState[p]
         \/ ExecutorState[p] = "new" /\ ExecutorState'[p] \in {"accepted", "refused", "executed"}
         \/ ExecutorState[p] = "accepted" /\ ExecutorState'[p] = "executed"
  PROVE  [Executor!Next]_ExecutorState
<1>1. \A v : ExecutorState'[p] = v => ExecutorState' = [ExecutorState EXCEPT ![p] = v]
  BY ZenonT(60) DEF ExecutorState
<1>2. ExecutorState'[p] = ExecutorState[p] => ExecutorState' = ExecutorState
  BY ZenonT(60) DEF ExecutorState
<1>3. CASE ExecutorState'[p] = ExecutorState[p]
  BY <1>2, <1>3
<1>4. CASE ExecutorState[p] = "new" /\ ExecutorState'[p] \in {"accepted", "refused", "executed"}
  <2>1. Executor!Accept(p) \/ Executor!Refuse(p) \/ Executor!Execute(p)
    BY <1>1, <1>4 DEF Executor!Accept, Executor!Refuse, Executor!Execute
  <2> QED BY <2>1 DEF Executor!Next
<1>5. CASE ExecutorState[p] = "accepted" /\ ExecutorState'[p] = "executed"
  <2>1. Executor!Execute(p)
    BY <1>1, <1>5 DEF Executor!Execute
  <2> QED BY <2>1 DEF Executor!Next
<1> QED BY <1>3, <1>4, <1>5

\* What has been done with a function is known from its runs and its call.
LEMMA SameState ==
  ASSUME NEW p \in Producers, runs'[p] = runs[p], Accepted(p)' <=> Accepted(p),
         pc'[p] = "refused" <=> pc[p] = "refused"
  PROVE  ExecutorState'[p] = ExecutorState[p]
BY DEF ExecutorState

\* A step that moves no producer to or from refusal, and keeps places, stutters.
LEMMA KeepsStutters ==
  ASSUME Keeps, \A p \in Producers : pc'[p] = "refused" <=> pc[p] = "refused"
  PROVE  ExecutorState' = ExecutorState
<1>1. \A p \in Producers : ExecutorState'[p] = ExecutorState[p]
  BY SameState DEF Keeps
<1> QED BY <1>1 DEF ExecutorState

\* A function whose call is neither accepted nor refused is new to the executor.
LEMMA NewState ==
  ASSUME Placed, NEW p \in Producers, pc[p] \in {"idle", "push", "spawn", "inline"}
  PROVE  runs[p] = 0 /\ ExecutorState[p] = "new"
<1>1. ~ Accepted(p)
  BY DEF Accepted
<1>2. runs[p] = 0
  BY <1>1 DEF Placed
<1>3. ~ (runs[p] > 1) /\ runs[p] # 1 /\ pc[p] # "refused"
  BY SMTT(60), <1>2
<1> QED BY <1>1, <1>2, <1>3 DEF ExecutorState

\* A function that has not run and runs now has been executed.
LEMMA RunOnce ==
  ASSUME TypeOK, NEW p \in Producers, runs[p] = 0, runs' = [runs EXCEPT ![p] = runs[p] + 1]
  PROVE  ExecutorState'[p] = "executed"
<1>1. runs \in [Producers -> Nat]
  BY ZenonT(30) DEF TypeOK
<1>2. runs'[p] = 1
  BY <1>1
<1> QED BY <1>2 DEF ExecutorState

\* Every step of a producer is a step of Executor, or changes nothing there.
LEMMA ProducerRefines ==
  ASSUME TypeOK, Placed, Occupied, NEW p \in Producers, Run(p) \/ TryRun(p) \/ Produce(p)
  PROVE  [Executor!Next]_ExecutorState
<1> DEFINE Goal == [Executor!Next]_ExecutorState
<1> USE HandlerAssumption DEF TypeOK, Located, Threads
<1>0. ASSUME UNCHANGED runs, \A o \in Producers \ {p} : pc'[o] = pc[o]
      PROVE  \A o \in Producers \ {p} : ExecutorState'[o] = ExecutorState[o]
  BY <1>0, SameState DEF Accepted
<1>1. ASSUME UNCHANGED runs, \A o \in Producers \ {p} : pc'[o] = pc[o],
             pc[p] \in {"push", "spawn"}, pc'[p] \in {"notify_worker", "returned", "refused", "inline"}
      PROVE  Goal
  <2>1. runs[p] = 0 /\ ExecutorState[p] = "new"
    BY <1>1, NewState
  <2>2. ExecutorState'[p] \in {"accepted", "refused", "new"}
    BY ZenonT(60), <1>1, <2>1 DEF ExecutorState, Accepted
  <2> QED BY ZenonT(60), <1>0, <1>1, <2>1, <2>2, OneFunctionStep
<1>2. ASSUME Run(p) \/ TryRun(p) \/ CheckCapacity(p) PROVE Goal
  <2>1. Keeps
    BY <1>2, ProducerKeeps DEF Run, TryRun
  <2>2. \A o \in Producers : pc'[o] = "refused" <=> pc[o] = "refused"
    BY <1>2 DEF Run, TryRun, Call, CheckCapacity, Goto
  <2> QED BY <2>1, <2>2, KeepsStutters
<1>3. ASSUME NotifyWorker(p) PROVE Goal
  <2>1. Keeps
    BY <1>3, ProducerKeeps
  <2>2. pc[p] = "notify_worker" /\ AfterPush(p) \in {"check", "returned"}
    BY ZenonT(60), <1>3 DEF NotifyWorker, AfterPush
  <2>3. CASE pc' = [pc EXCEPT ![p] = AfterPush(p)]
    BY ZenonT(60), <2>1, <2>2, <2>3, KeepsStutters
  <2>4. ASSUME NEW w \in Waiting("waiting"), pc' = [pc EXCEPT ![p] = AfterPush(p), ![w] = "lock"]
        PROVE  Goal
    <3>1. w \notin Producers
      BY ZenonT(60) DEF Waiting, ProducerAt
    <3>2. \A t \in Producers : pc'[t] = IF t = p THEN AfterPush(p) ELSE pc[t]
      BY <2>4, <3>1
    <3> QED BY <2>1, <2>2, <3>2, KeepsStutters
  <2> QED BY ZenonT(60), <1>3, <2>3, <2>4, NotifyWorkerMoves
<1>4. ASSUME Push(p) PROVE Goal
  <2>1. pc[p] = "push" /\ UNCHANGED runs
    BY <1>4 DEF Push
  <2>2. \E l \in {"refused", "notify_worker"} : pc' = [pc EXCEPT ![p] = l]
    BY ZenonT(30), <1>4 DEF Push, Goto
  <2> QED BY <1>1, <2>1, <2>2
<1>5. ASSUME SpawnThread(p) PROVE Goal
  <2>1. pc[p] = "spawn" /\ UNCHANGED runs
    BY ZenonT(60), <1>5 DEF SpawnThread
  <2>2. CASE \E l \in {"inline", "refused"} : pc' = [pc EXCEPT ![p] = l]
    BY <1>1, <2>1, <2>2
  <2>3. ASSUME NEW s \in Slots, pc' = [pc EXCEPT ![p] = "returned", ![s] = "new_noqueue"]
        PROVE  Goal
    <3>1. \A t \in Producers : pc'[t] = IF t = p THEN "returned" ELSE pc[t]
      BY <2>3
    <3> QED BY <1>1, <2>1, <3>1
  <2> QED BY ZenonT(60), <1>5, <2>2, <2>3, SpawnThreadMoves
<1>6. ASSUME ExecuteInline(p) PROVE Goal
  <2>1. /\ pc[p] = "inline" /\ runs' = [runs EXCEPT ![p] = runs[p] + 1]
        /\ pc' = [pc EXCEPT ![p] = "returned"]
    BY <1>6 DEF ExecuteInline, Goto
  <2>2. runs[p] = 0 /\ ExecutorState[p] = "new"
    BY <2>1, NewState
  <2>3. ExecutorState'[p] = "executed"
    <3> HIDE HandlerAssumption DEF TypeOK, Located, Threads
    <3> QED BY ZenonT(60), <2>1, <2>2, RunOnce
  <2>4. \A o \in Producers \ {p} : ExecutorState'[o] = ExecutorState[o]
    BY <2>1, SameState DEF Accepted
  <2> QED BY <2>2, <2>3, <2>4, OneFunctionStep
<1> QED BY ZenonT(60), <1>2, <1>3, <1>4, <1>5, <1>6 DEF Produce

\* Of the steps of the handler's threads only the execution changes what has been
\* done with a function, and it executes one that is accepted.
LEMMA WorkerRefines ==
  ASSUME TypeOK, Placed, Occupied, NEW s \in Slots, Work(s)
  PROVE  [Executor!Next]_ExecutorState
<1> DEFINE Goal == [Executor!Next]_ExecutorState
<1> USE HandlerAssumption DEF TypeOK, Located, Threads
<1>1. ASSUME Start(s) \/ DecideToWait(s) \/ Wait(s) \/ Leave(s) \/ Exit(s) PROVE Goal
  <2>1. Keeps
    BY <1>1, WorkerKeeps
  <2>2. \A o \in Producers : pc'[o] = pc[o]
    BY <1>1 DEF Start, DecideToWait, Wait, Leave, Exit, Goto
  <2> QED BY <2>1, <2>2, KeepsStutters
<1>2. ASSUME NotifyController(s) PROVE Goal
  <2>1. Keeps
    BY <1>2, WorkerKeeps
  <2>2. CASE pc' = [pc EXCEPT ![s] = "execute"]
    BY <2>1, <2>2, KeepsStutters
  <2>3. ASSUME NEW w \in Waiting("blocked") \cup Waiting("draining"),
               pc' = [pc EXCEPT ![s] = "execute", ![w] = Resume[w]]
        PROVE  Goal
    <3>1. w \in Producers => pc[w] = "blocked" /\ Resume[w] = "check"
      BY ZenonT(60) DEF Waiting, Resume, ProducerAt
    <3>2. \A t \in Producers : pc'[t] = IF t = w THEN Resume[w] ELSE pc[t]
      BY <2>3
    <3> QED BY <2>1, <3>1, <3>2, KeepsStutters
  <2> QED BY ZenonT(60), <1>2, <2>2, <2>3, NotifyControllerMoves
<1>3. ASSUME Take(s) PROVE Goal
  <2>1. UNCHANGED runs /\ \A o \in Producers : pc'[o] = pc[o]
    BY <1>3 DEF Take, Goto
  <2>2. \A o \in Producers : ExecutorState'[o] = ExecutorState[o]
    BY ZenonT(60), <2>1, SameState DEF Accepted
  <2> QED BY ZenonT(60), <2>2 DEF ExecutorState
<1>4. ASSUME Execute(s) PROVE Goal
  <2> DEFINE f == function[s]
  <2>1. /\ pc[s] \in Busy /\ runs' = [runs EXCEPT ![f] = runs[f] + 1]
        /\ \A o \in Producers : pc'[o] = pc[o]
    BY <1>4 DEF Execute, Goto, Busy
  <2>2. f \in Producers
    BY <2>1 DEF Occupied
  <2>3. InHands(f)
    BY <2>2 DEF InHands
  <2>4. runs[f] = 0 /\ Accepted(f)
    BY <2>2, <2>3 DEF Placed
  <2>5. ExecutorState[f] = "accepted" /\ ExecutorState'[f] = "executed"
    <3> HIDE HandlerAssumption DEF f, TypeOK, Located, Threads
    <3>1. ExecutorState'[f] = "executed"
      BY ZenonT(60), <2>1, <2>2, <2>4, RunOnce
    <3>2. ExecutorState[f] = "accepted"
      BY SMTT(60), <2>2, <2>4 DEF ExecutorState
    <3> QED BY <3>1, <3>2
  <2>6. \A o \in Producers \ {f} : ExecutorState'[o] = ExecutorState[o]
    BY ZenonT(60), <2>1, SameState DEF Accepted
  <2> QED BY <2>2, <2>5, <2>6, OneFunctionStep
<1> QED BY ZenonT(60), <1>1, <1>2, <1>3, <1>4 DEF Work

\* Reconfiguration and destruction change nothing the executor promises.
LEMMA AdminStutters ==
  ASSUME TypeOK, Destroy \/ Administer \/ \E c : changeConfiguration(c)
  PROVE  ExecutorState' = ExecutorState
<1> USE HandlerAssumption DEF TypeOK, Located, Threads
<1>1. Keeps
  BY AdminKeeps
<1>2. \A o \in Producers : pc'[o] = pc[o]
  <2>1. CASE Destroy \/ Drain \/ SetShutdown \/ Destroyed \/ Joined \/ SetLimits
    BY <2>1 DEF Destroy, Drain, SetShutdown, Destroyed, Joined, SetLimits, Goto
  <2>2. CASE NotifyAll
    BY <2>2 DEF NotifyAll, ProducerAt
  <2>3. ASSUME NEW c, changeConfiguration(c) PROVE \A o \in Producers : pc'[o] = pc[o]
    BY <2>3 DEF changeConfiguration, Goto
  <2>4. CASE SpawnWorkers
    BY <2>4 DEF SpawnWorkers, Spawn
  <2> QED BY <2>1, <2>2, <2>3, <2>4 DEF Administer
<1> QED BY <1>1, <1>2, KeepsStutters

\* The handler implements Executor, for any number of producers and threads,
\* any configuration and any change of it: a function is executed at most once,
\* never after run or try_run refused it, and stays accepted until it is executed.
THEOREM ExecutorImplemented == Spec => ImplementsExecutor
<1>1. Init => Executor!Init
  <2> SUFFICES ASSUME Init PROVE Executor!Init
    OBVIOUS
  <2>1. \A p \in Producers : pc[p] = "idle" /\ runs[p] = 0
    BY HandlerAssumption DEF Init, Threads
  <2>2. \A p \in Producers : ExecutorState[p] = "new"
    BY <2>1 DEF ExecutorState, Accepted
  <2> QED BY <2>2 DEF Executor!Init, ExecutorState
<1>2. TypeOK /\ Placed /\ Occupied /\ [Next]_vars => [Executor!Next]_ExecutorState
  <2> SUFFICES ASSUME TypeOK, Placed, Occupied, [Next]_vars
               PROVE  [Executor!Next]_ExecutorState
    OBVIOUS
  <2>1. CASE UNCHANGED vars
    BY <2>1 DEF vars, ExecutorState, Accepted
  <2>2. ASSUME NEW p \in Producers, Run(p) \/ TryRun(p) \/ Produce(p)
        PROVE  [Executor!Next]_ExecutorState
    BY <2>2, ProducerRefines
  <2>3. ASSUME NEW s \in Slots, Work(s) PROVE [Executor!Next]_ExecutorState
    BY <2>3, WorkerRefines
  <2>4. CASE Destroy \/ Administer \/ \E c \in Configurations : changeConfiguration(c)
    BY <2>4, AdminStutters
  <2> QED BY <2>1, <2>2, <2>3, <2>4 DEF Next
<1> QED BY <1>1, <1>2, PlacedInvariant, PTL DEF Spec, ImplementsExecutor, Executor!Spec
=============================================================================
