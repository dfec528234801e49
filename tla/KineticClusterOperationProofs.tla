------------------- MODULE KineticClusterOperationProofs --------------------
(***************************************************************************)
(* The safety properties of KineticAutoConnection and                      *)
(* KineticClusterOperation, for any number of drives, clients, connections *)
(* and executions, and what ChunkPlacement guarantees.                     *)
(***************************************************************************)
EXTENDS KineticClusterOperation, ChunkPlacement, FiniteSetTheorems, Loops, TLAPS

-----------------------------------------------------------------------------
(***************************************************************************)
(* The inductive invariant.                                                *)
(***************************************************************************)

\* Each background thread is paid for by the rate limit elapsing once.
Accounted ==
  \A d \in Drives :
    spawned[d] + numthreads[d] + (IF recent[d] THEN 0 ELSE 1) <= elapses[d]

\* The loops over the operations: what they have passed is finished or issued,
\* and what they are at is not finished.
Progress(c) ==
  /\ pc[c] \in {"issue", "run"} =>
       \A k \in Drives : k < at[c] /\ ~ done[c][k] => cons[c][k] # 0
  /\ pc[c] = "issue" /\ at[c] \in Drives => ~ done[c][at[c]]
  /\ pc[c] = "run" => at[c] \in Drives /\ ~ done[c][at[c]] /\ cons[c][at[c]] # 0
  /\ pc[c] = "timeout" =>
       \A k \in Drives : done[c][k] \/ (k >= at[c] /\ cons[c][k] # 0)

\* Callbacks are created before the execution that uses them.
Rounds(c) ==
  /\ pc[c] = "ready" => round[c] < MaxRounds
  /\ pc[c] # "ready" => \A i \in Drives : created[c][i] < round[c]
  /\ \A i \in Drives : created[c][i] <= round[c]

\* A handler whose connection works belongs to an operation that was issued in
\* the current execution and is not finished.
Live(h) ==
  \/ h.con \in broken[h.op]
  \/ /\ pc[h.client] \in {"issue", "run", "timeout"}
     /\ pc[h.client] # "timeout" => h.op < at[h.client]
     /\ h.con = cons[h.client][h.op] /\ h.created = created[h.client][h.op]
     /\ ~ done[h.client][h.op]

IInv ==
  /\ TypeOK
  /\ Accounted
  /\ Watched
  /\ OutstandingExact
  /\ \A c \in Clients : Progress(c) /\ Rounds(c)
  /\ \A h \in handlers : Live(h)

-----------------------------------------------------------------------------
(***************************************************************************)
(* Lemmas about the steps that several actions share.                      *)
(***************************************************************************)

\* There are NumDrives drives.
LEMMA DrivesFinite == IsFiniteSet(Drives) /\ Cardinality(Drives) = NumDrives
BY FS_Interval, ConnectionAssumption DEF Drives

\* The order of drives: Seek goes from drive i to a later position j.
LEMMA SeekForward ==
  ASSUME NEW i \in Drives, NEW j \in (i + 1)..(NumDrives + 1)
  PROVE  j \in 1..(NumDrives + 1) /\ i < j /\ j # i
BY ConnectionAssumption DEF Drives

\* A drive that Seek has not passed over is on the same side of the position as before.
LEMMA SeekPasses ==
  ASSUME NEW i \in Drives, NEW j \in (i + 1)..(NumDrives + 1),
         NEW k \in Drives, k # i, k \notin (i + 1)..(j - 1)
  PROVE  (k < j => k < i) /\ (k >= i => k >= j)
BY ConnectionAssumption DEF Drives

\* A drive before a position is not at it, and none is past the end.
LEMMA DriveOrder ==
  ASSUME NEW k \in Drives, NEW n \in 1..(NumDrives + 1)
  PROVE  /\ k < n => n # k /\ k # n
         /\ n > k => ~ (k >= n)
         /\ ~ (k >= NumDrives + 1)
BY ConnectionAssumption DEF Drives

\* A drive before an earlier position is before a later one.
LEMMA DriveTransitive ==
  ASSUME NEW k \in Drives, NEW i \in Drives, NEW j \in 1..(NumDrives + 1), k < i, i < j
  PROVE  k # i /\ k < j
BY ConnectionAssumption DEF Drives

\* OnResult finishes one operation of one client and none else.
OneFinished(c, i) ==
  /\ done' \in [Clients -> [Drives -> BOOLEAN]]
  /\ status' \in [Clients -> [Drives -> Status]]
  /\ done'[c][i]
  /\ \A d \in Clients \ {c} : done'[d] = done[d]
  /\ \A d \in Clients, k \in Drives :
       d # c \/ k # i => done'[d][k] = done[d][k] /\ status'[d][k] = status[d][k]
  /\ \A d \in Clients, k \in Drives : done[d][k] =>
       done'[d][k] /\ status'[d][k] = status[d][k]

\* OnResult finishes the operation it is called for.
LEMMA OnResultFinishes ==
  ASSUME TypeOK, NEW c \in Clients, NEW i \in Drives, NEW s \in Status,
         OnResult(c, i, s)
  PROVE  OneFinished(c, i)
<1>1. CASE done[c][i]
  BY <1>1 DEF OnResult, OneFinished, TypeOK
<1>2. CASE ~ done[c][i]
  <2>1. /\ done' = [done EXCEPT ![c] = [done[c] EXCEPT ![i] = TRUE]]
        /\ status' = [status EXCEPT ![c] = [status[c] EXCEPT ![i] = s]]
    BY <1>2 DEF OnResult
  <2>2. /\ done' \in [Clients -> [Drives -> BOOLEAN]]
        /\ done'[c][i]
        /\ \A d \in Clients \ {c} : done'[d] = done[d]
        /\ \A d \in Clients, k \in Drives : d # c \/ k # i => done'[d][k] = done[d][k]
    BY ZenonT(30), <2>1 DEF TypeOK
  <2>3. /\ status' \in [Clients -> [Drives -> Status]]
        /\ \A d \in Clients, k \in Drives : d # c \/ k # i => status'[d][k] = status[d][k]
    BY <2>1 DEF TypeOK
  <2>4. ASSUME NEW d \in Clients, NEW k \in Drives, done[d][k] PROVE d # c \/ k # i
    BY <1>2, <2>4
  <2> QED  BY ZenonT(60), <2>2, <2>3, <2>4 DEF OneFinished
<1> QED  BY <1>1, <1>2

\* OnResult keeps outstanding exact.
LEMMA OnResultCounts ==
  ASSUME TypeOK, OutstandingExact, NEW c \in Clients, NEW i \in Drives,
         NEW s \in Status, OnResult(c, i, s)
  PROVE  OutstandingExact' /\ outstanding' \in [Clients -> 0..NumDrives]
<1> DEFINE Open(d) == {k \in Drives : ~ done[d][k]}
<1>1. CASE done[c][i]
  BY <1>1 DEF OnResult, OutstandingExact, TypeOK
<1>2. CASE ~ done[c][i]
  <2>1. Open(c)' = Open(c) \ {i} /\ i \in Open(c)
    BY <1>2 DEF OnResult, TypeOK
  <2>2. \A d \in Clients \ {c} : Open(d)' = Open(d)
    BY <1>2 DEF OnResult, TypeOK
  <2>3. IsFiniteSet(Open(c))
    BY DrivesFinite, FS_Subset, Open(c) \subseteq Drives
  <2>4. Cardinality(Open(c)') = Cardinality(Open(c)) - 1
    BY ZenonT(30), <2>1, <2>3, FS_RemoveElement
  <2>5. outstanding[c] > 0
    <3>1. Open(c) # {} /\ Cardinality(Open(c)) \in Nat
      BY <2>1, <2>3, FS_CardinalityType
    <3>2. Cardinality(Open(c)) # 0
      BY <2>3, <3>1, FS_EmptySet
    <3> QED  BY <3>1, <3>2 DEF OutstandingExact
  <2>6. /\ outstanding' \in [Clients -> 0..NumDrives]
        /\ outstanding'[c] = outstanding[c] - 1
        /\ \A d \in Clients \ {c} : outstanding'[d] = outstanding[d]
    <3>1. /\ outstanding' = [outstanding EXCEPT ![c] = outstanding[c] - 1]
          /\ outstanding \in [Clients -> 0..NumDrives]
      BY <1>2 DEF OnResult, TypeOK
    <3>2. outstanding[c] - 1 \in 0..NumDrives
      BY <3>1, <2>5, ConnectionAssumption
    <3> QED  BY <3>1, <3>2
  <2>7. ASSUME NEW d \in Clients PROVE outstanding'[d] = Cardinality(Open(d)')
    BY ZenonT(30), <2>2, <2>4, <2>6 DEF OutstandingExact
  <2> QED  BY <2>6, <2>7 DEF OutstandingExact
<1> QED  BY <1>1, <1>2

-----------------------------------------------------------------------------
(***************************************************************************)
(* The connections.                                                        *)
(***************************************************************************)

ConInv == ConTypeOK /\ Accounted /\ Watched

\* A reconnect is started only if the rate limit has elapsed, and resets it.
LEMMA ReconnectKeeps ==
  ASSUME ConInv, NEW d \in Drives, Reconnect(d),
         UNCHANGED <<believed, initial, numthreads, opened, broken, elapses>>
  PROVE  ConInv'
<1>1. Accounted' /\ spawned' \in [Drives -> Nat] /\ recent' \in [Drives -> BOOLEAN]
  <2>1. CASE ~ recent[d] /\ numthreads[d] = 0
    <3>1. /\ spawned' \in [Drives -> Nat]
          /\ spawned'[d] = spawned[d] + 1
          /\ \A e \in Drives \ {d} : spawned'[e] = spawned[e]
      BY <2>1, ConnectionAssumption DEF ConInv, ConTypeOK, Reconnect
    <3>2. /\ recent' \in [Drives -> BOOLEAN]
          /\ recent'[d]
          /\ \A e \in Drives \ {d} : recent'[e] = recent[e]
      BY ZenonT(30), <2>1 DEF ConInv, ConTypeOK, Reconnect
    <3>3. ASSUME NEW e \in Drives
          PROVE  spawned'[e] + numthreads'[e] + (IF recent'[e] THEN 0 ELSE 1) <= elapses'[e]
      <4>1. /\ spawned[e] + numthreads[e] + (IF recent[e] THEN 0 ELSE 1) <= elapses[e]
            /\ spawned[e] \in Nat /\ numthreads[e] \in Nat /\ elapses[e] \in Nat
        BY ConnectionAssumption DEF ConInv, ConTypeOK, Accounted
      <4>2. CASE e = d
        BY <2>1, <3>1, <3>2, <4>1, <4>2
      <4>3. CASE e # d
        BY <3>1, <3>2, <4>1, <4>3
      <4> QED  BY <4>2, <4>3
    <3> QED  BY <3>1, <3>2, <3>3 DEF Accounted
  <2>2. CASE ~ (~ recent[d] /\ numthreads[d] = 0)
    BY <2>2, ConnectionAssumption DEF ConInv, ConTypeOK, Accounted, Reconnect
  <2> QED  BY <2>1, <2>2
<1>2. spawned' \in [Drives -> 0..MaxElapses]
  BY <1>1, ConnectionAssumption DEF ConInv, ConTypeOK, Accounted
<1>3. Watched'
  BY DEF ConInv, Watched, believed
<1> QED  BY <1>1, <1>2, <1>3 DEF ConInv, ConTypeOK, believed

\* connect keeps its own part of the state in order.
LEMMA ConnectKeeps ==
  ASSUME ConInv, NEW d \in Drives, connect(d)
  PROVE  /\ connection' \in [Drives -> 0..MaxConnections]
         /\ healthy' \in [Drives -> BOOLEAN]
         /\ fd' \in [Drives -> 0..MaxConnections]
         /\ subscribed' \in [Drives -> SUBSET (1..MaxConnections)]
         /\ recent' \in [Drives -> BOOLEAN]
         /\ opened' \in [Drives -> 0..MaxConnections]
         /\ \A e \in Drives : recent[e] => recent'[e]
         /\ Watched'
<1>1. CASE UNCHANGED <<believed, recent, opened>>
  BY <1>1 DEF ConInv, ConTypeOK, Watched, believed
<1>2. CASE /\ opened[d] < MaxConnections
           /\ opened' = [opened EXCEPT ![d] = @ + 1]
           /\ Adopt(d, opened[d] + 1)
  <2>1. opened[d] + 1 \in 1..MaxConnections
    BY <1>2, ConnectionAssumption DEF ConInv, ConTypeOK
  <2>2. /\ connection' \in [Drives -> 0..MaxConnections]
        /\ fd' \in [Drives -> 0..MaxConnections]
        /\ opened' \in [Drives -> 0..MaxConnections]
    BY <1>2, <2>1, ConnectionAssumption DEF ConInv, ConTypeOK, Adopt
  <2>3. subscribed' \in [Drives -> SUBSET (1..MaxConnections)]
    BY <1>2, <2>1 DEF ConInv, ConTypeOK, Adopt
  <2>4. /\ healthy' \in [Drives -> BOOLEAN] /\ recent' \in [Drives -> BOOLEAN]
        /\ \A e \in Drives : recent[e] => recent'[e]
        /\ \A e \in Drives \ {d} : healthy'[e] = healthy[e]
    BY <1>2 DEF ConInv, ConTypeOK, Adopt
  <2>5. Watched'
    <3> SUFFICES ASSUME NEW e \in Drives, healthy'[e]
                 PROVE  /\ connection'[e] # 0 /\ fd'[e] = connection'[e]
                        /\ fd'[e] \in subscribed'[e]
      BY DEF Watched
    <3>1. CASE e = d
      BY <3>1, <1>2, <2>1 DEF ConInv, ConTypeOK, Adopt
    <3>2. CASE e # d
      <4>1. healthy[e]  BY <3>2, <2>4
      <4> QED  BY <3>2, <4>1, <1>2 DEF ConInv, ConTypeOK, Adopt, Watched
    <3> QED  BY <3>1, <3>2
  <2> QED  BY <2>2, <2>3, <2>4, <2>5
<1> QED  BY <1>1, <1>2 DEF connect

\* setError forgets the descriptor together with the connection's health.
LEMMA SetErrorKeeps ==
  ASSUME ConInv, NEW d \in Drives, NEW n, setError(d, n),
         UNCHANGED <<initial, recent, spawned, numthreads, opened, broken, elapses>>
  PROVE  ConInv'
<1>1. CASE UNCHANGED believed
  BY <1>1 DEF ConInv, ConTypeOK, Accounted, Watched, believed
<1>2. CASE /\ subscribed' = [subscribed EXCEPT ![d] = @ \ {fd[d]}]
           /\ fd' = [fd EXCEPT ![d] = 0]
           /\ healthy' = [healthy EXCEPT ![d] = FALSE]
           /\ UNCHANGED connection
  <2>1. /\ subscribed' \in [Drives -> SUBSET (1..MaxConnections)]
        /\ fd' \in [Drives -> 0..MaxConnections]
    BY <1>2, ConnectionAssumption DEF ConInv, ConTypeOK
  <2>2. healthy' \in [Drives -> BOOLEAN] /\ ~ healthy'[d]
        /\ \A e \in Drives \ {d} : healthy'[e] = healthy[e]
    BY <1>2 DEF ConInv, ConTypeOK
  <2>3. Watched'
    BY <1>2, <2>2 DEF ConInv, ConTypeOK, Watched
  <2>4. Accounted'
    BY ZenonT(30) DEF ConInv, Accounted
  <2> QED  BY <1>2, <2>1, <2>2, <2>3, <2>4 DEF ConInv, ConTypeOK
<1> QED  BY <1>1, <1>2 DEF setError

\* The steps of the connections that no client takes.
LEMMA ConNextKeeps ==
  ASSUME ConInv, ConNext
  PROVE  ConInv' /\ \A d \in Drives : broken[d] \subseteq broken'[d]
<1> PICK d \in Drives : \/ StartConnect(d) \/ InitialConnect(d) \/ BackgroundConnect(d)
                        \/ ListenerGet(d) \/ Elapse(d) \/ Break(d)
  BY DEF ConNext
<1>1. CASE StartConnect(d)
  <2>1. Accounted' /\ spawned' \in [Drives -> Nat] /\ numthreads' \in [Drives -> Nat]
    BY <1>1, ConnectionAssumption DEF ConInv, ConTypeOK, Accounted, StartConnect
  <2>2. spawned' \in [Drives -> 0..MaxElapses] /\ numthreads' \in [Drives -> 0..MaxElapses]
    BY SMTT(60), <1>1, <2>1, ConnectionAssumption DEF ConInv, ConTypeOK, Accounted, StartConnect
  <2>3. Watched'
    BY <1>1 DEF ConInv, Watched, StartConnect, believed
  <2> QED  BY <1>1, <2>1, <2>2, <2>3 DEF ConInv, ConTypeOK, StartConnect, believed
<1>2. CASE InitialConnect(d)
  <2>1. connect(d) /\ UNCHANGED <<spawned, numthreads, broken, elapses>>
    BY <1>2 DEF InitialConnect, connect
  <2>2. initial' \in [Drives -> {"no", "running", "done"}]
    BY <1>2 DEF InitialConnect, ConInv, ConTypeOK
  <2>3. Accounted'
    BY SMTT(60), <2>1, ConnectKeeps DEF ConInv, ConTypeOK, Accounted
  <2> QED  BY <2>1, <2>2, <2>3, ConnectKeeps DEF ConInv, ConTypeOK
<1>3. CASE BackgroundConnect(d)
  <2>1. connect(d) /\ UNCHANGED <<initial, spawned, broken, elapses>>
    BY <1>3 DEF BackgroundConnect, connect
  <2>2. /\ numthreads' \in [Drives -> 0..MaxElapses]
        /\ \A e \in Drives : numthreads'[e] <= numthreads[e]
    BY <1>3, ConnectionAssumption DEF BackgroundConnect, ConInv, ConTypeOK
  <2>3. Accounted'
    BY SMTT(60), <2>1, <2>2, ConnectKeeps, ConnectionAssumption DEF ConInv, ConTypeOK, Accounted
  <2> QED  BY <2>1, <2>2, <2>3, ConnectKeeps DEF ConInv, ConTypeOK
<1>4. CASE ListenerGet(d)
  BY ZenonT(60), <1>4, ReconnectKeeps DEF ListenerGet
<1>5. CASE Elapse(d)
  <2>1. /\ recent' \in [Drives -> BOOLEAN] /\ elapses' \in [Drives -> 0..MaxElapses]
        /\ ~ recent'[d] /\ recent[d]
        /\ \A e \in Drives \ {d} : recent'[e] = recent[e]
    BY SMTT(60), <1>5, ConnectionAssumption DEF ConInv, ConTypeOK, Elapse
  <2>2. Accounted'
    BY SMTT(60), <1>5, <2>1, ConnectionAssumption DEF ConInv, ConTypeOK, Accounted, Elapse
  <2>3. Watched'
    BY <1>5 DEF ConInv, Watched, Elapse, believed
  <2> QED  BY <1>5, <2>1, <2>2, <2>3 DEF ConInv, ConTypeOK, Elapse, believed
<1>6. CASE Break(d)
  <2>1. PICK n \in 1..opened[d] \ broken[d] : broken' = [broken EXCEPT ![d] = @ \cup {n}]
    BY ZenonT(30), <1>6 DEF Break
  <2>2. n \in 1..MaxConnections
    BY <2>1, ConnectionAssumption DEF ConInv, ConTypeOK
  <2>3. /\ broken' \in [Drives -> SUBSET (1..MaxConnections)]
        /\ \A e \in Drives : broken[e] \subseteq broken'[e]
    BY <2>1, <2>2 DEF ConInv, ConTypeOK
  <2>4. Watched' /\ Accounted'
    BY <1>6 DEF ConInv, Watched, Accounted, Break, believed
  <2> QED  BY <1>6, <2>3, <2>4 DEF ConInv, ConTypeOK, Break, believed
<1> QED  BY <1>1, <1>2, <1>3, <1>4, <1>5, <1>6 DEF StartConnect, InitialConnect, BackgroundConnect, ListenerGet, Elapse, connect

-----------------------------------------------------------------------------
(***************************************************************************)
(* The clients.                                                            *)
(***************************************************************************)

\* What belongs to the operation object of client c.
SameRow(c) ==
  /\ pc'[c] = pc[c] /\ at'[c] = at[c] /\ round'[c] = round[c]
  /\ done'[c] = done[c] /\ cons'[c] = cons[c] /\ created'[c] = created[c]

StillBroken == \A d \in Drives : broken[d] \subseteq broken'[d]

OpTypeOK ==
  /\ pc \in [Clients -> {"ready", "issue", "run", "timeout", "returned"}]
  /\ at \in [Clients -> 1..(NumDrives + 1)]
  /\ round \in [Clients -> 0..MaxRounds]
  /\ done \in [Clients -> [Drives -> BOOLEAN]]
  /\ status \in [Clients -> [Drives -> Status]]
  /\ outstanding \in [Clients -> 0..NumDrives]
  /\ cons \in [Clients -> [Drives -> 0..MaxConnections]]
  /\ created \in [Clients -> [Drives -> 0..MaxRounds]]
  /\ handlers \subseteq Handler

\* The types are those of the connections and those of the operations.
LEMMA TypeSplit == TypeOK <=> ConTypeOK /\ OpTypeOK
BY DEF TypeOK, OpTypeOK

\* A client's step leaves what belongs to the others as it is.
LEMMA OthersKeep ==
  ASSUME IInv, NEW c \in Clients, StillBroken,
         \A d \in Clients \ {c} : SameRow(d)
  PROVE  /\ \A d \in Clients \ {c} : Progress(d)' /\ Rounds(d)'
         /\ \A h \in handlers : h.client # c => Live(h)'
<1>1. ASSUME NEW d \in Clients \ {c} PROVE Progress(d)' /\ Rounds(d)'
  BY SMTT(60) DEF IInv, Progress, Rounds, SameRow
<1>2. ASSUME NEW h \in handlers, h.client # c PROVE Live(h)'
  <2>1. h.client \in Clients \ {c} /\ h.op \in Drives /\ Live(h)
    BY <1>2 DEF IInv, TypeOK, Handler
  <2> QED  BY <2>1 DEF Live, SameRow, StillBroken
<1> QED  BY ZenonT(30), <1>1, <1>2

\* How a step of client c is shown to preserve the invariant.
LEMMA ClientStep ==
  ASSUME IInv, NEW c \in Clients, ConInv', OpTypeOK', StillBroken,
         \A d \in Clients \ {c} : SameRow(d),
         OutstandingExact', Progress(c)', Rounds(c)',
         \A h \in handlers' : (h \in handlers /\ h.client # c) \/ Live(h)'
  PROVE  IInv'
<1>1. TypeOK'
  BY DEF ConInv, OpTypeOK, TypeOK
<1>2. \A d \in Clients : Progress(d)' /\ Rounds(d)'
  BY OthersKeep
<1>3. \A h \in handlers' : Live(h)'
  BY OthersKeep
<1> QED  BY <1>1, <1>2, <1>3 DEF IInv, ConInv

\* A step that leaves the connections alone keeps what holds of them.
LEMMA SameConnections ==
  ASSUME IInv, UNCHANGED conVars
  PROVE  ConInv' /\ StillBroken
BY ZenonT(30) DEF IInv, TypeOK, ConInv, ConTypeOK, Accounted, Watched, StillBroken, conVars, believed

\* executeOperationVector is entered, for the first time or once more.
LEMMA ExecuteKeeps ==
  ASSUME IInv, NEW c \in Clients, Execute(c)
  PROVE  IInv'
<1>1. PICK j \in 1..(NumDrives + 1) :
        /\ \A k \in 1..(j - 1) : done[c][k]
        /\ j \in Drives => ~ done[c][j]
        /\ at' = [at EXCEPT ![c] = j]
  BY ZenonT(30) DEF Execute, Seek
<1>2. round[c] \in Nat /\ round[c] < MaxRounds /\ \A i \in Drives : created[c][i] \in Nat /\ created[c][i] <= round[c]
  BY OperationAssumption DEF IInv, TypeOK, Rounds, Execute
<1>3. OpTypeOK'
  BY SMTT(60), <1>1, <1>2, OperationAssumption, ConnectionAssumption DEF Execute, IInv, TypeOK, OpTypeOK, Goto
<1>4. ConInv' /\ StillBroken
  BY SameConnections DEF Execute
<1>5. \A d \in Clients \ {c} : SameRow(d)
  BY <1>1 DEF Execute, SameRow, Goto, IInv, TypeOK
<1>6. /\ pc'[c] = "issue" /\ at'[c] = j /\ round'[c] = round[c] + 1
      /\ UNCHANGED <<done, created, handlers, outstanding, broken>>
  BY SMTT(60), <1>1 DEF Execute, Goto, IInv, TypeOK, conVars
<1>7. OutstandingExact'
  BY ZenonT(30), <1>6 DEF IInv, OutstandingExact
<1>8. Progress(c)'
  BY SMTT(60), <1>1, <1>6, ConnectionAssumption DEF Progress, Drives
<1>9. Rounds(c)'
  BY SMTT(60), <1>2, <1>6 DEF Rounds
<1>10. ASSUME NEW h \in handlers', h.client = c PROVE Live(h)'
  BY <1>6, <1>10 DEF Live, IInv, Execute
<1> QED  BY ZenonT(60), <1>3, <1>4, <1>5, <1>6, <1>7, <1>8, <1>9, <1>10, ClientStep

\* A drive is connected to for the first time.
LEMMA CallOnceKeeps ==
  ASSUME IInv, NEW c \in Clients, CallOnce(c)
  PROVE  IInv'
<1>1. ConInv' /\ StillBroken
  BY DEF CallOnce, IInv, TypeOK, ConInv, ConTypeOK, Accounted, Watched, StillBroken, believed
<1>2. UNCHANGED opVars
  BY DEF CallOnce
<1>3. OpTypeOK' /\ OutstandingExact'
  BY SMTT(60), <1>2 DEF opVars, IInv, TypeOK, OpTypeOK, OutstandingExact
<1>4. Progress(c)' /\ Rounds(c)'
  BY ZenonT(30), <1>2 DEF opVars, IInv, Progress, Rounds
<1>5. \A d \in Clients \ {c} : SameRow(d)
  BY ZenonT(30), <1>2 DEF opVars, SameRow
<1>6. \A h \in handlers' : Live(h)'
  BY <1>2 DEF opVars, IInv, Live, CallOnce
<1> QED  BY ZenonT(60), <1>1, <1>3, <1>4, <1>5, <1>6, ClientStep

\* An operation gets its connection, or fails because there is none.
LEMMA GetKeeps ==
  ASSUME IInv, NEW c \in Clients, Get(c)
  PROVE  IInv'
<1> DEFINE i == at[c]
<1>0. /\ pc[c] = "issue" /\ i \in Drives /\ ~ done[c][i]
      /\ \A k \in Drives : k < i /\ ~ done[c][k] => cons[c][k] # 0
      /\ UNCHANGED <<believed, initial, numthreads, opened, broken, elapses, round,
                     created, handlers>>
  BY ZenonT(30) DEF Get, IInv, Progress
<1>1. CASE healthy[i]
  <2>1. /\ cons' = [cons EXCEPT ![c] = [cons[c] EXCEPT ![i] = connection[i]]]
        /\ pc' = [pc EXCEPT ![c] = "run"]
        /\ UNCHANGED <<at, done, status, outstanding, spawned, recent>>
    BY <1>1 DEF Get, Goto
  <2>2. connection[i] \in 1..MaxConnections
    BY <1>0, <1>1, ConnectionAssumption DEF IInv, TypeOK, ConTypeOK, Watched
  <2>3. /\ cons' \in [Clients -> [Drives -> 0..MaxConnections]]
        /\ cons'[c][i] # 0
        /\ \A k \in Drives \ {i} : cons'[c][k] = cons[c][k]
        /\ \A d \in Clients \ {c} : cons'[d] = cons[d]
    BY SMTT(60), <1>0, <2>1, <2>2, ConnectionAssumption DEF IInv, TypeOK
  <2>4. ConInv' /\ StillBroken
    BY ZenonT(60), <1>0, <2>1, SameConnections DEF conVars
  <2>5. OpTypeOK' /\ OutstandingExact'
    BY SMTT(60), <1>0, <2>1, <2>3 DEF IInv, TypeOK, OpTypeOK, OutstandingExact
  <2>6. pc'[c] = "run" /\ \A d \in Clients \ {c} : SameRow(d)
    BY ZenonT(30), <1>0, <2>1, <2>3 DEF IInv, TypeOK, SameRow
  <2>7. Progress(c)'
    BY ZenonT(30), <1>0, <2>1, <2>3, <2>6, ConnectionAssumption DEF Progress, Drives
  <2>8. Rounds(c)'
    BY ZenonT(30), <1>0, <2>6 DEF Rounds, IInv
  <2>9. ASSUME NEW h \in handlers', h.client = c PROVE Live(h)'
    <3>1. h.op \in Drives /\ Live(h)
      BY ZenonT(30), <1>0 DEF IInv, TypeOK, Handler
    <3>2. h.con \in broken[h.op] \/ h.op # i
      <4>1. i \in 1..(NumDrives + 1)
        BY ZenonT(30) DEF IInv, TypeOK
      <4>2. h.con \in broken[h.op] \/ h.op < i
        BY ZenonT(30), <1>0, <2>9, <3>1 DEF Live
      <4>3. h.op < i => h.op # i
        BY ZenonT(30), <3>1, <4>1, DriveOrder
      <4> QED  BY ZenonT(30), <4>2, <4>3
    <3>3. CASE h.con \in broken[h.op]
      BY ZenonT(30), <1>0, <3>3 DEF Live
    <3>4. CASE h.con \notin broken[h.op]
      <4>1. cons'[c][h.op] = cons[c][h.op]
        BY ZenonT(30), <2>3, <3>1, <3>2, <3>4
      <4>2. /\ h.op < at[c] /\ h.con = cons[c][h.op] /\ h.created = created[c][h.op]
            /\ ~ done[c][h.op]
        BY ZenonT(30), <1>0, <2>9, <3>1, <3>4 DEF Live
      <4>3. UNCHANGED <<at, created, done>>
        BY ZenonT(30), <1>0, <2>1
      <4> QED  BY ZenonT(30), <2>6, <2>9, <4>1, <4>2, <4>3 DEF Live
    <3> QED  BY <3>3, <3>4
  <2> QED  BY ZenonT(60), <1>0, <2>4, <2>5, <2>6, <2>7, <2>8, <2>9, ClientStep
<1>2. CASE ~ healthy[i]
  <2>1. /\ Reconnect(i) /\ OnResult(c, i, "IO_ERROR")
        /\ UNCHANGED <<cons, pc>>
    BY <1>2 DEF Get, Unavailable
  <2>2. PICK j \in (i + 1)..(NumDrives + 1) :
          /\ \A k \in (i + 1)..(j - 1) : done[c][k]
          /\ j \in Drives => ~ done[c][j]
          /\ at' = [at EXCEPT ![c] = j]
    BY <1>2 DEF Get, Seek
  <2>3. j \in 1..(NumDrives + 1) /\ i < j /\ j # i /\ at'[c] = j
    <3>1. at'[c] = j
      BY ZenonT(30), <2>2 DEF IInv, TypeOK
    <3> QED  BY ZenonT(30), <1>0, <3>1, SeekForward
  <2>4. ConInv' /\ StillBroken
    BY ZenonT(30), <1>0, <2>1, ReconnectKeeps DEF ConInv, IInv, TypeOK, StillBroken
  <2>5. TypeOK /\ "IO_ERROR" \in Status /\ OutstandingExact
    BY SMTT(30) DEF IInv, Status
  <2>6. /\ done' \in [Clients -> [Drives -> BOOLEAN]]
        /\ status' \in [Clients -> [Drives -> Status]]
        /\ done'[c][i]
        /\ \A d \in Clients \ {c} : done'[d] = done[d]
        /\ \A k \in Drives \ {i} : done'[c][k] = done[c][k]
    <3>1. OneFinished(c, i)
      BY ZenonT(30), <1>0, <2>1, <2>5, OnResultFinishes
    <3> QED  BY ZenonT(30), <1>0, <3>1 DEF OneFinished
  <2>7. OutstandingExact' /\ outstanding' \in [Clients -> 0..NumDrives]
    BY ZenonT(30), <1>0, <2>1, <2>5, OnResultCounts
  <2>8. OpTypeOK'
    BY ZenonT(30), <1>0, <2>1, <2>2, <2>3, <2>6, <2>7 DEF IInv, TypeOK, OpTypeOK
  <2>9. \A d \in Clients \ {c} : SameRow(d)
    BY <1>0, <2>1, <2>2, <2>6 DEF IInv, TypeOK, SameRow
  <2>10. Progress(c)'
    <3>1. ASSUME NEW k \in Drives, k < j, ~ done'[c][k] PROVE cons[c][k] # 0
      <4>1. k # i /\ ~ done[c][k]
        BY SMTT(30), <2>6, <3>1
      <4>2. k < i
        BY ZenonT(30), <1>0, <2>2, <3>1, <4>1, SeekPasses
      <4> QED  BY ZenonT(60), <1>0, <4>1, <4>2
    <3>2. j \in Drives => ~ done'[c][j]
      BY SMTT(30), <2>2, <2>3, <2>6
    <3> QED  BY ZenonT(30), <1>0, <2>1, <2>3, <3>1, <3>2 DEF Progress
  <2>11. Rounds(c)'
    BY <1>0, <2>1 DEF Rounds, IInv
  <2>12. ASSUME NEW h \in handlers', h.client = c PROVE Live(h)'
    <3>1. h.op \in Drives /\ Live(h)
      BY SMTT(30), <1>0 DEF IInv, TypeOK, Handler
    <3>2. h.con \in broken[h.op] \/ (h.op < i /\ h.op # i /\ h.op < j)
      BY ZenonT(30), <1>0, <2>3, <2>12, <3>1, DriveTransitive DEF Live
    <3> QED  BY ZenonT(30), <1>0, <2>1, <2>3, <2>6, <2>12, <3>1, <3>2 DEF Live
  <2> QED  BY ZenonT(30), <1>0, <2>4, <2>7, <2>8, <2>9, <2>10, <2>11, <2>12, ClientStep
<1> QED  BY <1>1, <1>2

\* The wait for the results ends, by a notification or at the deadline.
LEMMA WaitOverKeeps ==
  ASSUME IInv, NEW c \in Clients, WaitOver(c)
  PROVE  IInv'
<1>1. PICK j \in 1..(NumDrives + 1) :
        /\ \A k \in 1..(j - 1) : done[c][k]
        /\ j \in Drives => ~ done[c][j]
        /\ at' = [at EXCEPT ![c] = j]
  BY ZenonT(30) DEF WaitOver, Seek
<1>2. /\ pc' = [pc EXCEPT ![c] = "timeout"]
      /\ UNCHANGED <<conVars, round, done, status, outstanding, cons, created, handlers>>
      /\ pc[c] = "issue" /\ at[c] = NumDrives + 1
  BY DEF WaitOver, Goto
<1>3. OpTypeOK' /\ OutstandingExact'
  BY SMTT(60), <1>1, <1>2 DEF IInv, TypeOK, OpTypeOK, OutstandingExact
<1>4. ConInv' /\ StillBroken
  BY <1>2, SameConnections
<1>5. \A d \in Clients \ {c} : SameRow(d)
  BY <1>1, <1>2 DEF SameRow, IInv, TypeOK
<1>6. pc'[c] = "timeout" /\ at'[c] = j
  BY <1>1, <1>2 DEF IInv, TypeOK
<1>7. Progress(c)'
  <2>1. \A k \in Drives : ~ done[c][k] => cons[c][k] # 0
    <3>1. \A k \in Drives : k < NumDrives + 1 /\ ~ done[c][k] => cons[c][k] # 0
      BY ZenonT(30), <1>2 DEF IInv, Progress
    <3>2. \A k \in Drives : k < NumDrives + 1
      BY ConnectionAssumption DEF Drives
    <3> QED  BY ZenonT(30), <3>1, <3>2
  <2>2. \A k \in Drives : ~ done[c][k] => k >= j
    BY SMTT(30), <1>1, ConnectionAssumption DEF Drives
  <2> QED  BY SMTT(60), <1>2, <1>6, <2>1, <2>2 DEF Progress
<1>8. Rounds(c)'
  BY ZenonT(30), <1>2, <1>6 DEF IInv, Rounds
<1>9. ASSUME NEW h \in handlers', h.client = c PROVE Live(h)'
  BY <1>2, <1>6, <1>9 DEF Live, IInv, conVars
<1> QED  BY <1>2, <1>3, <1>4, <1>5, <1>7, <1>8, <1>9, ClientStep

\* A request is sent and its handler registered.
LEMMA RunConnectionKeeps ==
  ASSUME IInv, NEW c \in Clients, RunConnection(c)
  PROVE  IInv'
<1> DEFINE i == at[c]
           n == cons[c][i]
           new == [client |-> c, op |-> i, con |-> n, created |-> created[c][i]]
<1>0. /\ pc[c] = "run" /\ i \in Drives /\ ~ done[c][i] /\ n # 0
      /\ \A k \in Drives : k < i /\ ~ done[c][k] => cons[c][k] # 0
      /\ handlers' = handlers \cup {new}
      /\ pc' = [pc EXCEPT ![c] = "issue"]
      /\ UNCHANGED <<initial, recent, spawned, numthreads, opened, broken, elapses,
                     round, cons, created>>
  BY ZenonT(30) DEF RunConnection, IInv, Progress, Goto
<1>1. new \in Handler
  <2>1. n \in 1..MaxConnections
    BY SMTT(60), <1>0, ConnectionAssumption DEF IInv, TypeOK
  <2> QED  BY SMTT(60), <1>0, <2>1 DEF IInv, TypeOK, Handler
<1>2. PICK j \in (i + 1)..(NumDrives + 1) :
        /\ \A k \in (i + 1)..(j - 1) : done[c][k]
        /\ j \in Drives => ~ done[c][j]
        /\ at' = [at EXCEPT ![c] = j]
  BY ZenonT(30) DEF RunConnection, Seek
<1>3. j \in 1..(NumDrives + 1) /\ i < j /\ j # i /\ at'[c] = j /\ pc'[c] = "issue"
  <2>1. at'[c] = j /\ pc'[c] = "issue"
    BY ZenonT(30), <1>0, <1>2 DEF IInv, TypeOK
  <2> QED  BY ZenonT(30), <1>0, <2>1, SeekForward
<1>4. \/ n \in broken[i] /\ OnResult(c, i, "IO_ERROR") /\ setError(i, n)
      \/ n \notin broken[i] /\ UNCHANGED <<believed, done, status, outstanding>>
  BY ZenonT(30) DEF RunConnection
<1>5. ConInv' /\ StillBroken
  <2>1. CASE setError(i, n)
    BY ZenonT(30), <1>0, <2>1, SetErrorKeeps DEF IInv, TypeOK, ConInv, StillBroken
  <2>2. CASE UNCHANGED believed
    BY ZenonT(30), <1>0, <2>2, SameConnections DEF conVars
  <2> QED  BY ZenonT(30), <1>4, <2>1, <2>2
<1>6. TypeOK /\ "IO_ERROR" \in Status /\ OutstandingExact
  <2>1. "IO_ERROR" \in Status
    BY DEF Status
  <2>2. TypeOK /\ OutstandingExact
    BY ZenonT(30) DEF IInv
  <2> QED  BY <2>1, <2>2
<1>7. /\ done' \in [Clients -> [Drives -> BOOLEAN]]
      /\ status' \in [Clients -> [Drives -> Status]]
      /\ done'[c][i] => n \in broken[i]
      /\ \A d \in Clients \ {c} : done'[d] = done[d]
      /\ \A k \in Drives \ {i} : done'[c][k] = done[c][k]
  <2>1. CASE n \in broken[i] /\ OnResult(c, i, "IO_ERROR")
    <3>1. OneFinished(c, i)
      BY ZenonT(30), <1>0, <1>6, <2>1, OnResultFinishes
    <3> QED  BY ZenonT(60), <1>0, <2>1, <3>1 DEF OneFinished
  <2>2. CASE UNCHANGED <<done, status>>
    BY ZenonT(60), <1>0, <1>6, <2>2 DEF TypeOK
  <2> QED  BY ZenonT(30), <1>4, <2>1, <2>2
<1>8. OutstandingExact' /\ outstanding' \in [Clients -> 0..NumDrives]
  <2>1. CASE OnResult(c, i, "IO_ERROR")
    BY ZenonT(30), <1>0, <1>6, <2>1, OnResultCounts
  <2>2. CASE UNCHANGED <<done, outstanding>>
    BY <1>6, <2>2 DEF TypeOK, OutstandingExact
  <2> QED  BY ZenonT(30), <1>4, <2>1, <2>2
<1>9. OpTypeOK'
  BY ZenonT(30), <1>0, <1>1, <1>2, <1>3, <1>6, <1>7, <1>8 DEF TypeOK, OpTypeOK
<1>10. \A d \in Clients \ {c} : SameRow(d)
  BY ZenonT(30), <1>0, <1>2, <1>6, <1>7 DEF TypeOK, SameRow
<1>11. Progress(c)'
  <2>1. ASSUME NEW k \in Drives, k < j, ~ done'[c][k] PROVE cons[c][k] # 0
    <3>1. CASE k = i  BY ZenonT(30), <1>0, <3>1
    <3>2. CASE k # i
      <4>1. ~ done[c][k]
        BY ZenonT(30), <1>7, <2>1, <3>2
      <4>2. k < i
        BY ZenonT(30), <1>0, <1>2, <2>1, <3>2, <4>1, SeekPasses
      <4> QED  BY ZenonT(30), <1>0, <4>1, <4>2
    <3> QED  BY <3>1, <3>2
  <2>2. j \in Drives => ~ done'[c][j]
    BY ZenonT(60), <1>2, <1>3, <1>7
  <2> QED  BY ZenonT(30), <1>0, <1>3, <2>1, <2>2 DEF Progress
<1>12. Rounds(c)'
  BY ZenonT(30), <1>0, <1>3 DEF Rounds, IInv
<1>13. ASSUME NEW h \in handlers, h.client = c PROVE Live(h)'
  <2>1. h.op \in Drives /\ Live(h)
    BY ZenonT(30) DEF IInv, TypeOK, Handler
  <2>2. h.con \in broken[h.op] \/ (h.op < i /\ h.op # i /\ h.op < j)
    BY ZenonT(30), <1>0, <1>3, <1>13, <2>1, DriveTransitive DEF Live
  <2> QED  BY ZenonT(30), <1>0, <1>3, <1>7, <1>13, <2>1, <2>2 DEF Live
<1>14. ASSUME NEW h, h = new PROVE Live(h)'
  <2>1. n \in broken[i] \/ ~ done'[c][i]
    BY ZenonT(30), <1>7
  <2>2. h.client = c /\ h.op = i /\ h.con = n /\ h.created = created[c][i]
    BY <1>14
  <2> QED  BY ZenonT(30), <1>0, <1>3, <2>1, <2>2 DEF Live
<1>15. \A h \in handlers' : (h \in handlers /\ h.client # c) \/ Live(h)'
  BY ZenonT(30), <1>0, <1>13, <1>14
<1> HIDE DEF new, n, i
<1> QED  BY ZenonT(60), <1>5, <1>8, <1>9, <1>10, <1>11, <1>12, <1>15, ClientStep

\* The handler of an unfinished operation is removed and the operation times out.
LEMMA TimeOutKeeps ==
  ASSUME IInv, NEW c \in Clients, TimeOut(c)
  PROVE  IInv'
<1> DEFINE i == at[c]
<1>0. /\ pc[c] = "timeout" /\ i \in Drives
      /\ \A k \in Drives : done[c][k] \/ (k >= i /\ cons[c][k] # 0)
      /\ handlers' = {h \in handlers : ~ (h.client = c /\ h.op = i /\ h.con = cons[c][i])}
      /\ OnResult(c, i, "IO_ERROR")
      /\ UNCHANGED <<conVars, pc, round, cons, created>>
  BY DEF TimeOut, RemoveHandler, IInv, Progress
<1>1. PICK j \in (i + 1)..(NumDrives + 1) :
        /\ \A k \in (i + 1)..(j - 1) : done[c][k]
        /\ j \in Drives => ~ done[c][j]
        /\ at' = [at EXCEPT ![c] = j]
  BY ZenonT(30) DEF TimeOut, Seek
<1>2. j \in 1..(NumDrives + 1) /\ i < j /\ at'[c] = j
  <2>1. at'[c] = j
    BY ZenonT(30), <1>1 DEF IInv, TypeOK
  <2> QED  BY ZenonT(30), <1>0, <2>1, SeekForward
<1>3. TypeOK /\ "IO_ERROR" \in Status /\ OutstandingExact
  <2>1. "IO_ERROR" \in Status
    BY DEF Status
  <2>2. TypeOK /\ OutstandingExact
    BY ZenonT(30) DEF IInv
  <2> QED  BY <2>1, <2>2
<1>4. /\ done' \in [Clients -> [Drives -> BOOLEAN]]
      /\ status' \in [Clients -> [Drives -> Status]]
      /\ done'[c][i]
      /\ \A d \in Clients \ {c} : done'[d] = done[d]
      /\ \A k \in Drives \ {i} : done'[c][k] = done[c][k]
  <2>1. OneFinished(c, i)
    BY ZenonT(30), <1>0, <1>3, OnResultFinishes
  <2> QED  BY ZenonT(30), <1>0, <2>1 DEF OneFinished
<1>5. OutstandingExact' /\ outstanding' \in [Clients -> 0..NumDrives]
  BY ZenonT(30), <1>0, <1>3, OnResultCounts
<1>6. ConInv' /\ StillBroken
  BY ZenonT(30), <1>0, SameConnections
<1>7. OpTypeOK'
  BY ZenonT(30), <1>0, <1>1, <1>2, <1>3, <1>4, <1>5 DEF TypeOK, OpTypeOK
<1>8. \A d \in Clients \ {c} : SameRow(d)
  BY ZenonT(30), <1>0, <1>1, <1>3, <1>4 DEF TypeOK, SameRow
<1>9. Progress(c)'
  <2>1. ASSUME NEW k \in Drives, ~ done'[c][k] PROVE k >= j /\ cons[c][k] # 0
    <3>1. k # i /\ ~ done[c][k]
      BY ZenonT(30), <1>4, <2>1
    <3>2. k >= i /\ cons[c][k] # 0
      BY ZenonT(30), <1>0, <3>1
    <3> QED  BY ZenonT(30), <1>0, <1>1, <3>1, <3>2, SeekPasses
  <2> QED  BY ZenonT(30), <1>0, <1>2, <2>1 DEF Progress
<1>10. Rounds(c)'
  BY ZenonT(60), <1>0 DEF Rounds, IInv
<1>11. ASSUME NEW h \in handlers', h.client = c PROVE Live(h)'
  <2>1. h \in handlers /\ h.op \in Drives /\ Live(h)
    BY ZenonT(30), <1>0, <1>3 DEF IInv, TypeOK, Handler
  <2>2. broken' = broken
    BY ZenonT(30), <1>0 DEF conVars
  <2>3. h.con \in broken[h.op] \/ h.op # i
    BY ZenonT(60), <1>0, <1>11, <2>1 DEF Live
  <2> QED  BY ZenonT(30), <1>0, <1>4, <1>11, <2>1, <2>2, <2>3 DEF Live
<1>12. \A h \in handlers' : (h \in handlers /\ h.client # c) \/ Live(h)'
  BY ZenonT(30), <1>0, <1>11
<1> QED  BY ZenonT(30), <1>5, <1>6, <1>7, <1>8, <1>9, <1>10, <1>12, ClientStep

\* When the timeout loop is over everything is finished, and whatever is still
\* registered is so with a broken connection.
LEMMA LoopOver ==
  ASSUME IInv, NEW c \in Clients, pc[c] = "timeout", at[c] = NumDrives + 1
  PROVE  /\ \A k \in Drives : done[c][k]
         /\ outstanding[c] = 0
         /\ \A h \in handlers : h.client = c => h.con \in broken[h.op]
<1>1. ASSUME NEW k \in Drives PROVE done[c][k]
  <2>1. done[c][k] \/ k >= NumDrives + 1
    BY DEF IInv, Progress
  <2>2. NumDrives + 1 \in 1..(NumDrives + 1)
    BY ConnectionAssumption
  <2> QED  BY ZenonT(30), <2>1, <2>2, DriveOrder
<1>2. {k \in Drives : ~ done[c][k]} = {}
  BY ZenonT(30), <1>1
<1>3. outstanding[c] = 0
  BY ZenonT(30), <1>2, FS_EmptySet DEF IInv, OutstandingExact
<1>4. ASSUME NEW h \in handlers, h.client = c PROVE h.con \in broken[h.op]
  <2>1. h.op \in Drives /\ Live(h)
    BY ZenonT(30) DEF IInv, TypeOK, Handler
  <2> QED  BY <1>1, <1>4, <2>1 DEF Live
<1> QED  BY <1>1, <1>3, <1>4

\* Operations with a version mismatch are created anew for another round.
LEMMA RenewKeeps ==
  ASSUME IInv, NEW c \in Clients, Renew(c)
  PROVE  IInv'
<1> DEFINE New == {i \in Drives : Renewable(c, i)}
<1>0. /\ pc[c] = "timeout" /\ at[c] = NumDrives + 1 /\ round[c] < MaxRounds
      /\ done' = [done EXCEPT ![c] = [i \in Drives |-> done[c][i] /\ i \notin New]]
      /\ status' = [status EXCEPT ![c] =
                      [i \in Drives |-> IF i \in New THEN "NO_RESULT" ELSE status[c][i]]]
      /\ created' = [created EXCEPT ![c] =
                       [i \in Drives |-> IF i \in New THEN round[c] ELSE created[c][i]]]
      /\ outstanding' = [outstanding EXCEPT ![c] = outstanding[c] + Cardinality(New)]
      /\ pc' = [pc EXCEPT ![c] = "ready"]
      /\ UNCHANGED <<conVars, at, round, cons, handlers>>
  BY DEF Renew, Goto
<1>1. TypeOK /\ OutstandingExact /\ Rounds(c)
  BY ZenonT(30) DEF IInv
<1>2. /\ \A k \in Drives : done[c][k]
      /\ outstanding[c] = 0
      /\ \A h \in handlers : h.client = c => h.con \in broken[h.op]
  BY <1>0, LoopOver
<1>3. New \subseteq Drives /\ Cardinality(New) \in 0..NumDrives
  BY SMTT(30), DrivesFinite, FS_Subset, FS_CardinalityType, ConnectionAssumption
<1> HIDE DEF New
<1>4. /\ done' \in [Clients -> [Drives -> BOOLEAN]]
      /\ \A k \in Drives : done'[c][k] <=> k \notin New
      /\ \A d \in Clients \ {c} : done'[d] = done[d]
  <2>1. [i \in Drives |-> done[c][i] /\ i \notin New] \in [Drives -> BOOLEAN]
    OBVIOUS
  <2> QED  BY ZenonT(30), <1>0, <1>1, <1>2, <2>1 DEF TypeOK
<1>5. status' \in [Clients -> [Drives -> Status]]
  BY ZenonT(30), <1>0, <1>1 DEF TypeOK, Status
<1>6. /\ created' \in [Clients -> [Drives -> 0..MaxRounds]]
      /\ \A k \in Drives : created'[c][k] <= round[c]
      /\ \A d \in Clients \ {c} : created'[d] = created[d]
  <2>1. /\ created \in [Clients -> [Drives -> 0..MaxRounds]] /\ round[c] \in 0..MaxRounds
        /\ \A k \in Drives : created[c][k] <= round[c]
    BY ZenonT(30), <1>1 DEF TypeOK, Rounds
  <2>2. round[c] <= round[c]
    BY <2>1, OperationAssumption
  <2>3. \A k \in Drives : created'[c][k] = IF k \in New THEN round[c] ELSE created[c][k]
    BY ZenonT(30), <1>0, <2>1
  <2>4. \A k \in Drives : created'[c][k] <= round[c]
    BY ZenonT(30), <2>1, <2>2, <2>3
  <2> QED  BY ZenonT(30), <1>0, <2>1, <2>4
<1>7. /\ outstanding' \in [Clients -> 0..NumDrives]
      /\ outstanding'[c] = Cardinality(New)
      /\ \A d \in Clients \ {c} : outstanding'[d] = outstanding[d]
  <2>1. outstanding \in [Clients -> 0..NumDrives]
    BY ZenonT(30), <1>1 DEF TypeOK
  <2>2. outstanding[c] + Cardinality(New) = Cardinality(New)
    BY <1>2, <1>3
  <2>3. outstanding' = [outstanding EXCEPT ![c] = Cardinality(New)]
    BY ZenonT(30), <1>0, <2>2
  <2> QED  BY ZenonT(30), <1>3, <2>1, <2>3
<1>8. OutstandingExact'
  <2>1. {k \in Drives : ~ done'[c][k]} = New
    BY <1>3, <1>4
  <2>2. ASSUME NEW d \in Clients
        PROVE  outstanding'[d] = Cardinality({k \in Drives : ~ done'[d][k]})
    <3>1. CASE d = c
      BY ZenonT(30), <1>7, <2>1, <3>1
    <3>2. CASE d # c
      <4>1. outstanding'[d] = outstanding[d] /\ done'[d] = done[d]
        BY <1>4, <1>7, <3>2
      <4>2. outstanding[d] = Cardinality({k \in Drives : ~ done[d][k]})
        BY ZenonT(30), <1>1 DEF OutstandingExact
      <4> QED  BY SMTT(60), <4>1, <4>2
    <3> QED  BY SMTT(30), <3>1, <3>2
  <2> QED  BY <2>2 DEF OutstandingExact
<1>9. OpTypeOK'
  BY ZenonT(30), <1>0, <1>1, <1>4, <1>5, <1>6, <1>7 DEF TypeOK, OpTypeOK
<1>10. ConInv' /\ StillBroken
  BY ZenonT(30), <1>0, SameConnections
<1>11. pc'[c] = "ready" /\ \A d \in Clients \ {c} : SameRow(d)
  BY <1>0, <1>1, <1>4, <1>6 DEF TypeOK, SameRow
<1>12. Progress(c)' /\ Rounds(c)'
  BY ZenonT(30), <1>0, <1>6, <1>11 DEF Progress, Rounds
<1>13. \A h \in handlers' : (h \in handlers /\ h.client # c) \/ Live(h)'
  BY ZenonT(30), <1>0, <1>2 DEF Live, conVars
<1> QED  BY ZenonT(30), <1>8, <1>9, <1>10, <1>11, <1>12, <1>13, ClientStep

\* The operation vector is done and the call returns.
LEMMA ReturnKeeps ==
  ASSUME IInv, NEW c \in Clients, Return(c)
  PROVE  IInv'
<1>1. /\ pc[c] = "timeout" /\ at[c] = NumDrives + 1
      /\ pc' = [pc EXCEPT ![c] = "returned"]
      /\ UNCHANGED <<conVars, at, round, done, status, outstanding, cons, created, handlers>>
  BY SMTT(30) DEF Return, Goto
<1>2. \A h \in handlers : h.client = c => h.con \in broken[h.op]
  BY ZenonT(30), <1>1, LoopOver
<1>3. OpTypeOK' /\ OutstandingExact'
  BY <1>1 DEF IInv, TypeOK, OpTypeOK, OutstandingExact
<1>4. ConInv' /\ StillBroken
  BY SMTT(30), <1>1, SameConnections
<1>5. pc'[c] = "returned" /\ \A d \in Clients \ {c} : SameRow(d)
  BY ZenonT(30), <1>1 DEF IInv, TypeOK, SameRow
<1>6. Progress(c)' /\ Rounds(c)'
  BY <1>1, <1>5 DEF IInv, Progress, Rounds
<1>7. \A h \in handlers' : (h \in handlers /\ h.client # c) \/ Live(h)'
  BY ZenonT(30), <1>1, <1>2 DEF Live, conVars
<1> QED  BY ZenonT(30), <1>3, <1>4, <1>5, <1>6, <1>7, ClientStep

\* A drive answers while the handler is still registered.
LEMMA AnswerKeeps ==
  ASSUME IInv, NEW h \in handlers, Answer(h)
  PROVE  IInv'
<1> DEFINE c == h.client
           i == h.op
<1>1. c \in Clients /\ i \in Drives /\ TypeOK /\ OutstandingExact /\ Live(h)
  BY DEF IInv, TypeOK, Handler
<1>2. /\ h.con \notin broken[i] /\ handlers' = handlers \ {h}
      /\ UNCHANGED <<conVars, pc, at, round, cons, created>>
  BY ZenonT(30) DEF Answer
<1>3. /\ pc[c] \in {"issue", "run", "timeout"}
      /\ pc[c] # "timeout" => i < at[c]
      /\ h.con = cons[c][i] /\ h.created = created[c][i]
      /\ ~ done[c][i]
  BY ZenonT(30), <1>1, <1>2 DEF Live
<1>4. PICK s \in {"OK", "VERSION_MISMATCH"} : OnResult(c, i, s)
  BY ZenonT(30), <1>3 DEF Answer
<1>5. /\ done' \in [Clients -> [Drives -> BOOLEAN]]
      /\ status' \in [Clients -> [Drives -> Status]]
      /\ done'[c][i]
      /\ \A d \in Clients \ {c} : done'[d] = done[d]
      /\ \A k \in Drives \ {i} : done'[c][k] = done[c][k]
  <2>1. s \in Status  BY DEF Status
  <2>2. OneFinished(c, i)
    BY ZenonT(30), <1>1, <1>4, <2>1, OnResultFinishes
  <2> QED  BY ZenonT(30), <1>1, <2>2 DEF OneFinished
<1>6. OutstandingExact' /\ outstanding' \in [Clients -> 0..NumDrives]
  <2>1. s \in Status  BY DEF Status
  <2> QED  BY ZenonT(30), <1>1, <1>4, <2>1, OnResultCounts
<1>7. OpTypeOK'
  BY <1>1, <1>2, <1>5, <1>6 DEF TypeOK, OpTypeOK
<1>8. ConInv' /\ StillBroken
  BY <1>2, SameConnections
<1>9. \A d \in Clients \ {c} : SameRow(d)
  BY ZenonT(30), <1>2, <1>5 DEF SameRow
<1>10. Progress(c)'
  <2>1. ASSUME NEW k \in Drives, ~ done'[c][k] PROVE ~ done[c][k]
    <3>1. CASE k = i
      BY ZenonT(30), <1>5, <2>1, <3>1
    <3>2. CASE k # i
      BY ZenonT(30), <1>5, <2>1, <3>2
    <3> QED  BY <3>1, <3>2
  <2>2. pc[c] # "timeout" => at[c] # i
    <3>1. at[c] \in 1..(NumDrives + 1)
      BY ZenonT(30), <1>1 DEF TypeOK
    <3> QED  BY ZenonT(30), <1>1, <1>3, <3>1, DriveOrder
  <2>3. pc[c] # "timeout" /\ at[c] \in Drives => done'[c][at[c]] = done[c][at[c]]
    BY ZenonT(60), <1>5, <2>2
  <2>4. Progress(c)
    BY <1>1 DEF IInv
  <2>5. pc'[c] = pc[c] /\ at'[c] = at[c] /\ cons'[c] = cons[c]
    BY <1>2
  <2> HIDE DEF c, i
  <2> QED  BY ZenonT(30), <2>1, <2>3, <2>4, <2>5 DEF Progress
<1>11. Rounds(c)'
  BY ZenonT(30), <1>1, <1>2 DEF IInv, Rounds
<1>12. ASSUME NEW g \in handlers', g.client = c PROVE Live(g)'
  <2>1. g \in handlers /\ g # h /\ g \in Handler /\ h \in Handler /\ Live(g)
    BY ZenonT(30), <1>1, <1>2 DEF IInv, TypeOK
  <2>2. g.con \in broken[g.op] \/ g.op # i
    <3>1. g.op = i /\ g.con = h.con /\ g.created = h.created => g = h
      BY SMTT(30), <1>12, <2>1 DEF Handler
    <3> QED  BY <1>3, <1>12, <2>1, <3>1 DEF Live
  <2>3. g.op \in Drives /\ broken' = broken
    BY ZenonT(30), <1>2, <2>1 DEF Handler, conVars
  <2> QED  BY ZenonT(60), <1>2, <1>5, <1>12, <2>1, <2>2, <2>3 DEF Live
<1>13. \A g \in handlers' : (g \in handlers /\ g.client # c) \/ Live(g)'
  BY <1>2, <1>12
<1> HIDE DEF c, i
<1> QED  BY ZenonT(60), <1>1, <1>6, <1>7, <1>8, <1>9, <1>10, <1>11, <1>13, ClientStep

-----------------------------------------------------------------------------
(***************************************************************************)
(* The invariant holds.                                                    *)
(***************************************************************************)

\* The inductive invariant holds at the start.
LEMMA InitInv == Init => IInv
<1> SUFFICES ASSUME Init PROVE IInv
  OBVIOUS
<1> USE ConnectionAssumption, OperationAssumption DEF Init, ConInit
<1>1. ConTypeOK
  BY SMTT(60) DEF ConTypeOK
<1>2. OpTypeOK
  BY DEF OpTypeOK, Status
<1>3. Accounted /\ Watched
  BY DEF Accounted, Watched
<1>4. OutstandingExact
  <2>1. ASSUME NEW c \in Clients
        PROVE  outstanding[c] = Cardinality({i \in Drives : ~ done[c][i]})
    <3>1. {i \in Drives : ~ done[c][i]} = Drives
      OBVIOUS
    <3> QED  BY ZenonT(30), <3>1, DrivesFinite
  <2> QED  BY <2>1 DEF OutstandingExact
<1>5. ASSUME NEW c \in Clients PROVE Progress(c) /\ Rounds(c)
  <2>1. pc[c] = "ready" /\ round[c] = 0 /\ \A i \in Drives : created[c][i] = 0
    BY ZenonT(30)
  <2>2. Progress(c)
    BY ZenonT(30), <2>1 DEF Progress
  <2>3. 0 < MaxRounds /\ 0 <= 0
    BY OperationAssumption
  <2> QED  BY ZenonT(30), <2>1, <2>2, <2>3 DEF Rounds
<1> QED  BY <1>1, <1>2, <1>3, <1>4, <1>5, TypeSplit DEF IInv

\* A step of the connections keeps what belongs to the operations.
LEMMA ConnectionStepKeeps ==
  ASSUME IInv, ConNext, UNCHANGED opVars
  PROVE  IInv'
<1>1. ConInv' /\ StillBroken
  BY ZenonT(30), ConNextKeeps DEF IInv, TypeOK, ConInv, StillBroken
<1>2. TypeOK' /\ OutstandingExact'
  BY ZenonT(30), <1>1 DEF opVars, IInv, TypeOK, ConInv, OutstandingExact
<1>3. \A c \in Clients : Progress(c)' /\ Rounds(c)'
  BY ZenonT(30) DEF opVars, IInv, Progress, Rounds
<1>4. ASSUME NEW h \in handlers' PROVE Live(h)'
  <2>1. h \in handlers /\ h.op \in Drives /\ Live(h)
    BY DEF opVars, IInv, TypeOK, Handler
  <2>2. UNCHANGED <<pc, at, cons, created, done>>
    BY ZenonT(30) DEF opVars
  <2>3. h.con \in broken[h.op] => h.con \in broken'[h.op]
    BY ZenonT(30), <1>1, <2>1 DEF StillBroken
  <2> QED  BY ZenonT(30), <2>1, <2>2, <2>3 DEF Live
<1> QED  BY <1>1, <1>2, <1>3, <1>4 DEF IInv, ConInv

\* It holds of a state that does not change.
LEMMA StutterKeeps ==
  ASSUME IInv, UNCHANGED vars
  PROVE  IInv'
<1>1. ConInv' /\ UNCHANGED opVars /\ broken' = broken
  BY ZenonT(30), SameConnections DEF vars, conVars
<1>2. TypeOK' /\ OutstandingExact'
  BY ZenonT(30), <1>1 DEF opVars, IInv, TypeOK, ConInv, OutstandingExact
<1>3. \A c \in Clients : Progress(c)' /\ Rounds(c)'
  BY ZenonT(30), <1>1 DEF opVars, IInv, Progress, Rounds
<1>4. \A h \in handlers' : Live(h)'
  BY <1>1 DEF opVars, IInv, Live
<1> QED  BY <1>1, <1>2, <1>3, <1>4 DEF IInv, ConInv

\* Every step of a client, a connection or a drive keeps it.
LEMMA NextInv == IInv /\ [Next]_vars => IInv'
<1> SUFFICES ASSUME IInv, [Next]_vars PROVE IInv'
  OBVIOUS
<1>1. ASSUME NEW c \in Clients, Step(c) PROVE IInv'
  <2>1. CASE Execute(c)        BY <2>1, ExecuteKeeps
  <2>2. CASE CallOnce(c)       BY <2>2, CallOnceKeeps
  <2>3. CASE Get(c)            BY <2>3, GetKeeps
  <2>4. CASE RunConnection(c)  BY <2>4, RunConnectionKeeps
  <2>5. CASE AllFinished(c)    BY <2>5, WaitOverKeeps DEF AllFinished
  <2>6. CASE Deadline(c)       BY <2>6, WaitOverKeeps DEF Deadline
  <2>7. CASE TimeOut(c)        BY <2>7, TimeOutKeeps
  <2>8. CASE Renew(c)          BY <2>8, RenewKeeps
  <2>9. CASE Return(c)         BY <2>9, ReturnKeeps
  <2> QED  BY ZenonT(60), <1>1, <2>1, <2>2, <2>3, <2>4, <2>5, <2>6, <2>7, <2>8, <2>9 DEF Step
<1>2. ASSUME NEW h \in handlers, Answer(h) PROVE IInv'
  BY <1>2, AnswerKeeps
<1>3. CASE ConNext /\ UNCHANGED opVars
  BY <1>3, ConnectionStepKeeps
<1>4. CASE UNCHANGED vars
  BY <1>4, StutterKeeps
<1> QED  BY <1>1, <1>2, <1>3, <1>4 DEF Next

\* The inductive invariant holds in every reachable state.
LEMMA Invariance == Spec => []IInv
BY InitInv, NextInv, PTL DEF Spec

\* The handed-out connection of KineticAutoConnection is the one that is stored
\* and watched, however connects and errors of several threads interleave.
THEOREM WatchedHolds == Spec => []Watched
<1>1. IInv => Watched  BY DEF IInv
<1> QED  BY <1>1, Invariance, PTL

\* sync->outstanding is exact in every state, for any number of operations,
\* clients and executions: wait_until wakes up exactly when all are finished.
THEOREM OutstandingExactHolds == Spec => []OutstandingExact
<1>1. IInv => OutstandingExact  BY ZenonT(30) DEF IInv
<1> QED  BY <1>1, Invariance, PTL

\* The timeout loop of executeOperationVector never meets an operation that was
\* not issued.
THEOREM IssuedIfUnfinishedHolds == Spec => []IssuedIfUnfinished
<1>1. IInv => IssuedIfUnfinished
  BY DEF IInv, IssuedIfUnfinished, Progress
<1> QED  BY <1>1, Invariance, PTL

\* After the timeout loop no answer can reach the callbacks that the client is
\* reading.
THEOREM QuietAfterExecutionHolds == Spec => []QuietAfterExecution
<1>1. IInv => QuietAfterExecution
  <2> SUFFICES ASSUME IInv, NEW h \in handlers,
                      \/ pc[h.client] \in {"ready", "returned"}
                      \/ pc[h.client] = "timeout" /\ at[h.client] > h.op
               PROVE  h.con \in broken[h.op]
    BY ZenonT(30) DEF QuietAfterExecution
  <2>1. h.client \in Clients /\ h.op \in Drives /\ Live(h) /\ at[h.client] \in 1..(NumDrives + 1)
    BY ZenonT(30) DEF IInv, TypeOK, Handler
  <2>2. CASE pc[h.client] \in {"ready", "returned"}
    BY ZenonT(30), <2>1, <2>2 DEF Live
  <2>3. CASE pc[h.client] = "timeout" /\ at[h.client] > h.op
    <3>1. done[h.client][h.op]
      <4>1. done[h.client][h.op] \/ h.op >= at[h.client]
        BY <2>1, <2>3 DEF IInv, Progress
      <4> QED  BY ZenonT(30), <2>1, <2>3, <4>1, DriveOrder
    <3> QED  BY ZenonT(30), <2>1, <3>1 DEF Live
  <2> QED  BY <2>2, <2>3
<1> QED  BY <1>1, Invariance, PTL

\* A healthy connection is set into error only if it is the one that broke.
THEOREM OnlyBrokenSetIntoErrorHolds == Spec => OnlyBrokenSetIntoError
<1> DEFINE A == \A d \in Drives : healthy[d] /\ ~ healthy'[d] => connection[d] \in broken[d]
<1>1. IInv /\ [Next]_vars => [A]_conVars
  <2> SUFFICES ASSUME IInv, [Next]_vars PROVE A
    OBVIOUS
  <2>0. healthy \in [Drives -> BOOLEAN]
    BY DEF IInv, TypeOK, ConTypeOK
  <2>1. CASE UNCHANGED healthy
    BY ZenonT(30), <2>1
  <2>2. ASSUME NEW d \in Drives, connect(d) PROVE A
    <3>1. CASE UNCHANGED healthy
      BY ZenonT(30), <3>1
    <3>2. CASE healthy' = [healthy EXCEPT ![d] = TRUE]
      BY <2>0, <3>2
    <3> QED  BY ZenonT(30), <2>2, <3>1, <3>2 DEF connect, Adopt, believed
  <2>3. ASSUME NEW c \in Clients, RunConnection(c) PROVE A
    <3>1. CASE UNCHANGED healthy
      BY ZenonT(30), <3>1
    <3>2. CASE /\ cons[c][at[c]] \in broken[at[c]] /\ connection[at[c]] = cons[c][at[c]]
               /\ healthy' = [healthy EXCEPT ![at[c]] = FALSE]
      BY ZenonT(60), <2>0, <3>2
    <3> QED  BY ZenonT(30), <2>3, <3>1, <3>2 DEF RunConnection, setError, believed
  <2>4. ASSUME NEW c \in Clients, Step(c), ~ RunConnection(c) PROVE UNCHANGED healthy
    BY ZenonT(30), <2>4 DEF Step, Execute, CallOnce, Get, AllFinished, Deadline, WaitOver, TimeOut,
                Renew, Return, conVars, believed
  <2>5. ASSUME NEW h \in handlers, Answer(h) PROVE UNCHANGED healthy
    BY ZenonT(30), <2>5 DEF Answer, conVars, believed
  <2>6. CASE ConNext
    <3> PICK d \in Drives : \/ StartConnect(d) \/ InitialConnect(d) \/ BackgroundConnect(d)
                            \/ ListenerGet(d) \/ Elapse(d) \/ Break(d)
      BY ZenonT(30), <2>6 DEF ConNext
    <3>1. connect(d) \/ UNCHANGED healthy
      BY ZenonT(30) DEF StartConnect, InitialConnect, BackgroundConnect, ListenerGet, Elapse, Break, believed
    <3> QED  BY <2>1, <2>2, <3>1
  <2>7. CASE UNCHANGED vars
    BY <2>1, <2>7 DEF vars, conVars, believed
  <2> HIDE DEF A
  <2> QED  BY <2>1, <2>3, <2>4, <2>5, <2>6, <2>7 DEF Next
<1> QED  BY <1>1, Invariance, PTL DEF Spec, OnlyBrokenSetIntoError

\* The result of a callback is the first one: neither a late answer nor a
\* timeout replaces it.
THEOREM FirstResultCountsHolds == Spec => FirstResultCounts
<1> DEFINE Same(c, i) == done[c][i] /\ created'[c][i] = created[c][i] => status'[c][i] = status[c][i]
           A == \A c \in Clients, i \in Drives : Same(c, i)
<1>1. IInv /\ [Next]_vars => [A]_vars
  <2> SUFFICES ASSUME IInv, [Next]_vars PROVE A
    OBVIOUS
  <2>0. TypeOK  BY ZenonT(30) DEF IInv
  <2>1. CASE UNCHANGED status
    BY ZenonT(30), <2>1
  <2>2. ASSUME NEW c \in Clients, NEW i \in Drives, NEW s \in Status, OnResult(c, i, s) PROVE A
    <3>1. OneFinished(c, i)
      BY ZenonT(30), <2>0, <2>2, OnResultFinishes
    <3> QED  BY ZenonT(30), <3>1 DEF OneFinished
  <2>3. ASSUME NEW c \in Clients, Renew(c) PROVE A
    <3> DEFINE New == {i \in Drives : Renewable(c, i)}
    <3>1. /\ pc[c] = "timeout"
          /\ status' = [status EXCEPT ![c] =
                          [i \in Drives |-> IF i \in New THEN "NO_RESULT" ELSE status[c][i]]]
          /\ created' = [created EXCEPT ![c] =
                           [i \in Drives |-> IF i \in New THEN round[c] ELSE created[c][i]]]
      BY ZenonT(30), <2>3 DEF Renew
    <3>2. \A i \in Drives : created[c][i] # round[c]
      <4>1. \A i \in Drives : created[c][i] < round[c]
        BY <3>1 DEF IInv, Rounds
      <4>2. \A i \in Drives : created[c][i] \in Nat /\ round[c] \in Nat
        BY <2>0, OperationAssumption DEF TypeOK
      <4> QED  BY <4>1, <4>2
    <3> HIDE DEF New
    <3>3. ASSUME NEW d \in Clients, NEW i \in Drives, created'[d][i] = created[d][i]
          PROVE  status'[d][i] = status[d][i]
      <4>1. CASE d = c /\ i \in New
        <5>1. created'[d][i] = round[c]
          BY <2>0, <3>1, <4>1 DEF TypeOK
        <5> QED  BY ZenonT(30), <3>2, <3>3, <4>1, <5>1
      <4>2. CASE ~ (d = c /\ i \in New)
        BY <2>0, <3>1, <4>2 DEF TypeOK
      <4> QED  BY <4>1, <4>2
    <3> QED  BY <3>3
  <2>4. ASSUME NEW c \in Clients, Step(c), ~ Renew(c)
        PROVE  UNCHANGED status \/ \E i \in Drives, s \in Status : OnResult(c, i, s)
    <3>1. "IO_ERROR" \in Status
      BY ZenonT(30) DEF Status
    <3>2. pc[c] = "run" => at[c] \in Drives
      BY DEF IInv, Progress
    <3>3. CASE Get(c)
      BY <3>1, <3>3 DEF Get, Unavailable
    <3>4. CASE RunConnection(c)
      BY ZenonT(30), <3>1, <3>2, <3>4 DEF RunConnection
    <3>5. CASE TimeOut(c)
      BY <3>1, <3>5 DEF TimeOut
    <3>6. CASE Execute(c) \/ CallOnce(c) \/ AllFinished(c) \/ Deadline(c) \/ Return(c)
      BY ZenonT(30), <3>6 DEF Execute, CallOnce, AllFinished, Deadline, WaitOver, Return, opVars
    <3> QED  BY <2>4, <3>3, <3>4, <3>5, <3>6 DEF Step
  <2>5. ASSUME NEW h \in handlers, Answer(h) PROVE A
    <3>1. h.client \in Clients /\ h.op \in Drives /\ {"OK", "VERSION_MISMATCH"} \subseteq Status
      BY SMTT(30), <2>0 DEF TypeOK, Handler, Status
    <3>2. UNCHANGED status \/ \E s \in Status : OnResult(h.client, h.op, s)
      BY ZenonT(30), <2>5, <3>1 DEF Answer
    <3> HIDE DEF A
    <3> QED  BY <2>1, <2>2, <3>1, <3>2
  <2>6. CASE ConNext /\ UNCHANGED opVars
    BY ZenonT(30), <2>1, <2>6 DEF opVars
  <2>7. CASE UNCHANGED vars
    BY <2>1, <2>7 DEF vars, opVars
  <2> HIDE DEF A
  <2> QED  BY ZenonT(60), <2>1, <2>2, <2>3, <2>4, <2>5, <2>6, <2>7 DEF Next
<1> QED  BY <1>1, Invariance, PTL DEF Spec, FirstResultCounts

-----------------------------------------------------------------------------
(***************************************************************************)
(* Placement: what the drives that expandOperationVector gives to the      *)
(* operations guarantee, for every number of drives, every hash and every  *)
(* width of the index.  First division with remainder.                     *)
(***************************************************************************)

\* The quotient and the remainder of a division.
LEMMA Division ==
  ASSUME NEW n \in Nat \ {0}, NEW x \in Nat
  PROVE  /\ x \div n \in Nat
         /\ x % n \in 0..(n - 1)
         /\ x = (n * (x \div n)) + (x % n)
  BY SMTT(30)

\* Quotients that differ move a number by at least n.
LEMMA Apart ==
  ASSUME NEW n \in Nat \ {0}, NEW p \in Nat, NEW q \in Nat, p < q
  PROVE  (n * p) + n <= n * q
  BY SMTT(30)

\* The remainder is determined by the number.
LEMMA Remainder ==
  ASSUME NEW n \in Nat \ {0}, NEW q \in Nat, NEW r \in 0..(n - 1)
  PROVE  ((n * q) + r) % n = r
  <1> DEFINE x == (n * q) + r
  <1>1. x \in Nat
    BY SMTT(30)
  <1>2. /\ x \div n \in Nat
        /\ x % n \in 0..(n - 1)
        /\ x = (n * (x \div n)) + (x % n)
    BY ZenonT(60), <1>1, Division
  <1>3. ASSUME NEW p \in Nat, NEW s \in 0..(n - 1), x = (n * p) + s
        PROVE  s = r
    BY <1>3, Apart, SMTT(30)
  <1> QED
    BY <1>2, <1>3

\* Numbers less than n apart have different remainders.
LEMMA Different ==
  ASSUME NEW n \in Nat \ {0}, NEW x \in Nat, NEW y \in Nat,
         x < y, y < x + n
  PROVE  x % n # y % n
  <1>1. ASSUME NEW p \in Nat, NEW q \in Nat, NEW r \in 0..(n - 1),
               x = (n * p) + r, y = (n * q) + r
        PROVE  FALSE
    <2>1. CASE p < q
      BY <1>1, <2>1, Apart, SMTT(30)
    <2>2. CASE q < p
      BY <1>1, <2>2, Apart, SMTT(30)
    <2>3. CASE p = q
      BY <1>1, <2>3, SMTT(30)
    <2> QED
      BY <2>1, <2>2, <2>3, SMTT(30)
  <1>2. /\ x \div n \in Nat /\ x % n \in 0..(n - 1) /\ x = (n * (x \div n)) + (x % n)
        /\ y \div n \in Nat /\ y % n \in 0..(n - 1) /\ y = (n * (y \div n)) + (y % n)
    BY ZenonT(60), Division
  <1>3. ASSUME x % n = y % n
        PROVE  y = (n * (y \div n)) + (x % n)
    BY <1>2, <1>3, ZenonT(30)
  <1> QED
    BY <1>1, <1>2, <1>3, ZenonT(30)

\* Any n numbers in a row leave every remainder.
LEMMA AllRemainders ==
  ASSUME NEW n \in Nat \ {0}, NEW x \in Nat, NEW d \in 0..(n - 1)
  PROVE  \E k \in 1..n : (x + (k - 1)) % n = d
  <1> DEFINE q == x \div n
             r == x % n
  <1>1. q \in Nat /\ r \in 0..(n - 1) /\ x = (n * q) + r
    BY ZenonT(60), Division
  <1> HIDE DEF q, r
  <1>2. CASE r <= d
    <2>1. d - r + 1 \in 1..n /\ x + ((d - r + 1) - 1) = (n * q) + d
      BY <1>1, <1>2, SMTT(30)
    <2> QED
      BY ZenonT(60), <1>1, <2>1, Remainder
  <1>3. CASE d < r
    <2>1. /\ n + d - r + 1 \in 1..n /\ q + 1 \in Nat
          /\ x + ((n + d - r + 1) - 1) = (n * (q + 1)) + d
      BY <1>1, <1>3, SMTT(30)
    <2> QED
      BY ZenonT(60), <2>1, Remainder
  <1> QED
    BY <1>1, <1>2, <1>3, SMTT(30)

-----------------------------------------------------------------------------
(***************************************************************************)
(* The placement.                                                          *)
(***************************************************************************)

\* Requests go to drives that exist, and those of one call of expandOperationVector,
\* up to one per drive, to different drives: no two chunks of a stripe share a drive,
\* whatever the hash of the key and whether or not the index overflows.
THEOREM DistinctDrives ==
  ASSUME NEW n \in Nat \ {0}, NEW M \in Nat \ {0}, NEW hash \in Nat, NEW offset \in Nat,
         NEW i \in 1..n, NEW j \in 1..n
  PROVE  /\ Drive(hash, offset, n, M, i) \in 0..(n - 1)
         /\ i # j => Drive(hash, offset, n, M, i) # Drive(hash, offset, n, M, j)
  <1> DEFINE first == (Start(hash, offset, M) + 1) % M
  <1>1. first \in Nat
    <2>1. Start(hash, offset, M) \in Nat
      BY Division DEF Start
    <2> QED
      BY <2>1, Division
  <1> HIDE DEF first
  <1>2. /\ first + (i - 1) \in Nat /\ first + (j - 1) \in Nat
        /\ i < j => first + (i - 1) < first + (j - 1) /\ first + (j - 1) < (first + (i - 1)) + n
        /\ j < i => first + (j - 1) < first + (i - 1) /\ first + (i - 1) < (first + (j - 1)) + n
        /\ i # j => i < j \/ j < i
    BY <1>1, SMTT(30)
  <1>3. (first + (i - 1)) % n \in 0..(n - 1)
    BY ZenonT(60), <1>2, Division
  <1>4. i # j => (first + (i - 1)) % n # (first + (j - 1)) % n
    BY <1>2, Different
  <1> QED
    BY <1>3, <1>4 DEF Drive, first

\* A get that asks for the first size chunks, and for the others in a second call of
\* expandOperationVector, looks for every chunk on the drive where the put, which
\* expands the vector once, has stored it: unless the hash is so close to the end of
\* its range that adding the offset overflows.
THEOREM PhasesAgree ==
  ASSUME NEW n \in Nat \ {0}, NEW M \in Nat \ {0}, NEW hash \in Nat, NEW size \in Nat,
         NEW k \in Nat \ {0}, hash + size + 1 < M
  PROVE  Drive(hash, size, n, M, k) = Drive(hash, 0, n, M, size + k)
  <1>1. ASSUME NEW x \in Nat, x < M
        PROVE  x % M = x
    <2>1. x \in 0..(M - 1) /\ (M * 0) + x = x
      BY <1>1, SMTT(30)
    <2> QED
      BY <2>1, Remainder
  <1>2. (hash + size) % M = hash + size /\ (hash + 0) % M = hash
    <2>1. hash + size \in Nat /\ hash + size < M /\ hash + 0 = hash /\ hash < M
      BY SMTT(30)
    <2> QED
      BY <1>1, <2>1
  <1>3. (hash + size + 1) % M = hash + size + 1 /\ (hash + 1) % M = hash + 1
    <2>1. hash + size + 1 \in Nat /\ hash + 1 \in Nat /\ hash + 1 < M
      BY SMTT(30)
    <2> QED
      BY <1>1, <2>1
  <1>4. (hash + size + 1) + (k - 1) = (hash + 1) + ((size + k) - 1)
    BY SMTT(30)
  <1> QED
    BY <1>2, <1>3, <1>4 DEF Drive, Start

\* createSingleKey gives up after as many attempts as there are drives; by then it
\* has asked every drive, so an indicator or handoff key is only lost if no drive
\* takes it (again unless the index overflows on the way).
THEOREM EveryDriveTried ==
  ASSUME NEW n \in Nat \ {0}, NEW M \in Nat \ {0}, NEW hash \in Nat, NEW size \in Nat,
         hash + size + n < M, NEW d \in 0..(n - 1)
  PROVE  \E k \in 1..n : Attempt(hash, size, n, M, k) = d
  <1>1. PICK k \in 1..n : ((hash + size + 1) + (k - 1)) % n = d
    <2>1. hash + size + 1 \in Nat
      BY SMTT(30)
    <2> QED
      BY ZenonT(60), <2>1, AllRemainders
  <1>2. /\ size + (k - 1) \in Nat /\ hash + (size + (k - 1)) + 1 < M
        /\ (hash + 0) \in Nat /\ (size + (k - 1)) + 1 = size + k
        /\ (hash + 1) + ((size + k) - 1) = (hash + size + 1) + (k - 1)
        /\ hash + 0 = hash /\ hash < M /\ hash + 1 < M
    BY SMTT(60)
  <1>3. Drive(hash, size + (k - 1), n, M, 1) = Drive(hash, 0, n, M, size + k)
    <2>1. 1 \in Nat \ {0}
      OBVIOUS
    <2>2. Drive(hash, size + (k - 1), n, M, 1) = Drive(hash, 0, n, M, (size + (k - 1)) + 1)
      BY SMTT(60), <1>2, <2>1, PhasesAgree
    <2> QED
      BY <1>2, <2>2
  <1>4. hash % M = hash /\ (hash + 1) % M = hash + 1
    <2>1. /\ hash \in 0..(M - 1) /\ hash + 1 \in 0..(M - 1)
          /\ (M * 0) + hash = hash /\ (M * 0) + (hash + 1) = hash + 1
      BY SMTT(60), <1>2
    <2> QED
      BY <2>1, Remainder
  <1>5. Drive(hash, 0, n, M, size + k) = d
    BY <1>1, <1>2, <1>4 DEF Drive, Start
  <1> QED
    BY <1>3, <1>5 DEF Attempt

\* A vector of one request per drive, from any offset, has one for every drive: flush,
\* range and log reach all drives, and the constructor of KineticCluster asks every
\* drive for the limits before it goes on without.
THEOREM EveryDriveAsked ==
  ASSUME NEW n \in Nat \ {0}, NEW offset \in Nat, NEW d \in 0..(n - 1)
  PROVE  \E k \in 1..n : AnyDrive(offset, n, k) = d
  BY ZenonT(60), AllRemainders DEF AnyDrive

\* One turn of the loop: the index, once it is a drive, goes to the next one.
LEMMA NextRemainder ==
  ASSUME NEW n \in Nat \ {0}, NEW M \in Nat, n <= M, NEW y \in Nat
  PROVE  (((y % n) + 1) % M) % n = (y + 1) % n
  <1> DEFINE q == y \div n
             r == y % n
  <1>1. q \in Nat /\ r \in 0..(n - 1) /\ y = (n * q) + r
    BY ZenonT(60), Division
  <1> HIDE DEF q, r
  <1>2. M \in Nat \ {0} /\ r \in Nat /\ 0 \in 0..(n - 1) /\ 0 \in 0..(M - 1) /\ 0 \in Nat /\ 1 \in Nat
    BY <1>1
  <1>3. CASE r + 1 < n
    <2>1. r + 1 \in 0..(n - 1) /\ r + 1 \in 0..(M - 1) /\ y + 1 = (n * q) + (r + 1)
      BY <1>1, <1>3
    <2>2. (y + 1) % n = r + 1
      <3>1. ((n * q) + (r + 1)) % n = r + 1
        BY Zenon, <1>1, <2>1, Remainder
      <3> QED BY Zenon, <2>1, <3>1
    <2>3. ((n * 0) + (r + 1)) % n = r + 1 /\ ((M * 0) + (r + 1)) % M = r + 1
      BY Zenon, <1>2, <2>1, Remainder
    <2>4. (n * 0) + (r + 1) = r + 1 /\ (M * 0) + (r + 1) = r + 1
      BY <1>2
    <2> QED BY Zenon, <2>2, <2>3, <2>4 DEF r
  <1>4. CASE ~ (r + 1 < n)
    <2>1. r + 1 = n
      BY <1>1, <1>4
    <2>2. y + 1 = (n * (q + 1)) + 0 /\ q + 1 \in Nat
      BY <1>1, <2>1, SMTT(30)
    <2>3. (y + 1) % n = 0
      <3>1. ((n * (q + 1)) + 0) % n = 0
        BY Zenon, <1>2, <2>2, Remainder
      <3> QED BY Zenon, <2>2, <3>1
    <2>4. ((n * 1) + 0) % n = 0 /\ ((n * 0) + 0) % n = 0
      BY Zenon, <1>2, Remainder
    <2>5. (n * 1) + 0 = n /\ (n * 0) + 0 = 0
      OBVIOUS
    <2>6. n % n = 0 /\ 0 % n = 0
      BY Zenon, <2>4, <2>5
    <2>7. CASE n = M
      BY Zenon, <2>1, <2>3, <2>6, <2>7 DEF r
    <2>8. CASE n # M
      <3>1. n \in 0..(M - 1) /\ (M * 0) + n = n
        BY <2>8
      <3>2. n % M = n
        BY Zenon, <1>2, <3>1, Remainder
      <3> QED BY Zenon, <2>1, <2>3, <2>6, <3>2 DEF r
    <2> QED BY Zenon, <2>7, <2>8
  <1> QED BY Zenon, <1>3, <1>4

\* The loop of expandOperationVector goes to the drives that Drive names, for every
\* hash, offset, number of drives and of requests, whether or not the index overflows.
THEOREM WalkGoesToDrives ==
  ASSUME NEW n \in Nat \ {0}, NEW M \in Nat, n <= M, NEW hash \in Nat, NEW offset \in Nat,
         NEW K \in Nat \ {0}
  PROVE  Walk(hash, offset, n, M)[K] = Drive(hash, offset, n, M, K)
  <1> DEFINE s == Start(hash, offset, M)
             t == (s + 1) % M
             D(k) == Drive(hash, offset, n, M, k)
             Is(f) == f = [k \in Nat |-> IF k = 0 THEN s ELSE ((f[k - 1] + 1) % M) % n]
             g == [k \in Nat |-> IF k = 0 THEN s ELSE D(k)]
             w == Walk(hash, offset, n, M)
  <1>1. M \in Nat \ {0} /\ s \in Nat /\ t \in Nat
    <2>1. M \in Nat \ {0} /\ hash + offset \in Nat
      OBVIOUS
    <2>2. s \in Nat
      BY <2>1, Division DEF Start
    <2> HIDE DEF s
    <2>3. s + 1 \in Nat
      BY <2>2
    <2>4. t \in 0..(M - 1)
      BY Zenon, <2>1, <2>3, Division
    <2> QED BY <2>1, <2>2, <2>4
  <1>2. \A k \in Nat \ {0} : D(k) = (t + (k - 1)) % n
    BY Zenon DEF Drive
  <1>3. D(1) = t % n
    <2>1. 1 \in Nat \ {0} /\ t + (1 - 1) = t
      BY <1>1
    <2> HIDE DEF D, t
    <2> QED BY Zenon, <1>2, <2>1
  <1> HIDE DEF s, D
  <1>4. ASSUME NEW k \in Nat \ {0}, k # 1 PROVE D(k) = ((D(k - 1) + 1) % M) % n
    <2> HIDE DEF t
    <2> DEFINE y == t + ((k - 1) - 1)
    <2>1. k - 1 \in Nat \ {0} /\ y \in Nat /\ y + 1 = t + (k - 1)
      BY <1>1, <1>4
    <2> HIDE DEF y
    <2>2. D(k - 1) = y % n
      BY Zenon, <1>2, <2>1 DEF y
    <2>3. D(k) = (y + 1) % n
      BY Zenon, <1>2, <2>1
    <2>4. (((y % n) + 1) % M) % n = (y + 1) % n
      BY Zenon, <2>1, NextRemainder
    <2> QED BY Zenon, <2>2, <2>3, <2>4
  <1>5. Is(g)
    <2>1. ASSUME NEW k \in Nat PROVE g[k] = IF k = 0 THEN s ELSE ((g[k - 1] + 1) % M) % n
      <3>1. CASE k = 0
        BY Zenon, <3>1
      <3>2. CASE k = 1
        <4>1. k - 1 = 0 /\ k # 0 /\ 0 \in Nat
          BY <3>2
        <4>2. g[k - 1] = s /\ g[k] = D(1)
          BY Zenon, <3>2, <4>1
        <4> HIDE DEF g
        <4> QED BY Zenon, <1>3, <4>1, <4>2
      <3>3. CASE k # 0 /\ k # 1
        <4>1. k \in Nat \ {0} /\ k - 1 \in Nat /\ k - 1 # 0
          BY <3>3
        <4>2. g[k - 1] = D(k - 1) /\ g[k] = D(k)
          BY Zenon, <4>1
        <4> HIDE DEF g
        <4> QED BY Zenon, <1>4, <3>3, <4>1, <4>2
      <3> QED BY Zenon, <3>1, <3>2, <3>3
    <2>2. g = [k \in Nat |-> g[k]]
      BY Zenon
    <2> HIDE DEF g
    <2> QED BY Zenon, <2>1, <2>2
  <1>6. Is(w)
    <2>1. w = CHOOSE f : Is(f)
      BY Zenon DEF Walk, s
    <2> HIDE DEF Is, w, g
    <2> QED BY Zenon, <1>5, <2>1
  <1>7. w[0] = s /\ \A k \in Nat \ {0} : w[k] = ((w[k - 1] + 1) % M) % n
    <2> HIDE DEF w
    <2>1. 0 \in Nat
      OBVIOUS
    <2> QED BY Zenon, <1>6, <2>1
  <1> HIDE DEF w, Is
  <1> DEFINE B == {k \in Nat : k = 0 \/ w[k] = D(k)}
  <1>8. 0 \in B
    OBVIOUS
  <1>9. ASSUME NEW k \in 1..K, k - 1 \in B PROVE k \in B
    <2>1. k \in Nat \ {0} /\ (k = 1 => k - 1 = 0) /\ (k # 1 => k - 1 # 0)
      OBVIOUS
    <2>2. CASE k = 1
      BY Zenon, <1>3, <1>7, <2>1, <2>2
    <2>3. CASE k # 1
      BY Zenon, <1>4, <1>7, <1>9, <2>1, <2>3
    <2> QED BY Zenon, <2>2, <2>3
  <1>10. K \in B
    <2> HIDE DEF B
    <2>1. K \in Nat /\ K \in 0..K
      OBVIOUS
    <2> QED BY Zenon, <1>8, <1>9, <2>1, CountingUp
  <1> QED BY Zenon, <1>10 DEF w, D
=============================================================================
