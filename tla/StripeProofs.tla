---------------------------- MODULE StripeProofs ----------------------------
(***************************************************************************)
(* Proofs about StripeWrite, for every stripe size, every set of calls,    *)
(* every bound on faults and crashes and every answer a drive may give to  *)
(* a versioned put of an absent key; and about StripeRead: what a get may  *)
(* return while any number of calls are under way and drives come and go.  *)
(***************************************************************************)
EXTENDS StripeRead, FiniteSetTheorems, Loops, TLAPS

-----------------------------------------------------------------------------
(***************************************************************************)
(* Writes.                                                                 *)
(***************************************************************************)

\* A verdict is always one of the status codes.
LEMMA VerdictType == ASSUME NEW st PROVE Verdict(st) \in Status
<1>1. CASE \E s \in Status : Quorum(st, s)
  BY <1>1 DEF Verdict
<1>2. CASE ~ \E s \in Status : Quorum(st, s)
  BY <1>2 DEF Verdict, Status
<1> QED BY <1>1, <1>2

\* What a drive answers is a status code.
LEMMA ReplyType ==
  ASSUME NEW c, NEW current, NEW e, NEW r \in Reply(c, current, e)
  PROVE  r \in {"OK", "NOT_FOUND", "VERSION_MISMATCH"}
BY WriteAssumption DEF Reply, PutReply, DeleteReply

\* A drive applies a request only if it answers OK, and a conditional request
\* only if the chunk carries the expected version.
LEMMA ReplyOK ==
  ASSUME NEW c, NEW current, NEW e, "OK" \in Reply(c, current, e), e # AnyVersion
  PROVE  current = e
BY WriteAssumption DEF Reply, PutReply, DeleteReply

\* Applying a request keeps the types of the drive and of its history.
LEMMA ApplyType ==
  ASSUME TypeOK, NEW c \in Calls, NEW i \in Chunks, NEW r, Apply(c, i, r)
  PROVE  drive' \in [Chunks -> ChunkVersion] /\ held' \in [Chunks -> SUBSET Version]
<1>1. New(c) \in ChunkVersion
  BY DEF New, ChunkVersion, Version
<1>2. {New(c)} \ {Empty} \subseteq Version
  BY <1>1 DEF ChunkVersion
<1> QED BY <1>1, <1>2 DEF Apply, TypeOK

\* Concluding a call keeps the types of its result and location.
LEMMA ConcludeType ==
  ASSUME TypeOK, NEW c \in Calls, Conclude(c)
  PROVE  result' \in [Calls -> Status] /\ pc' \in [Calls -> Location]
BY VerdictType DEF TypeOK, Conclude, Location

-----------------------------------------------------------------------------
\* The initial states are well typed.
LEMMA InitType == Init => TypeOK
<1> SUFFICES ASSUME Init PROVE TypeOK
  OBVIOUS
<1>1. drive \in [Chunks -> ChunkVersion] /\ held \in [Chunks -> SUBSET Version]
  BY DEF Init, ChunkVersion, Version
<1>2. late \subseteq Request /\ handoff \subseteq (Chunks \X Calls)
  BY DEF Init
<1>3. faults \in 0..MaxFaults
  BY WriteAssumption DEF Init
<1>4. /\ old \in [Calls -> ChunkVersion \cup {AnyVersion}]
      /\ expect \in [Calls -> [Chunks -> ChunkVersion \cup {AnyVersion}]]
      /\ seen \in [Calls -> [Chunks -> ReadVersion]]
  BY DEF Init, ChunkVersion, ReadVersion
<1> QED BY ZenonT(30), <1>1, <1>2, <1>3, <1>4 DEF Init, TypeOK, Location, Status

\* Every step of StripeWrite keeps the types of the variables.
LEMMA NextType == TypeOK /\ [Next]_vars => TypeOK'
<1> SUFFICES ASSUME TypeOK, [Next]_vars PROVE TypeOK'
  OBVIOUS
<1> USE DEF driveVars, markers, callVars
<1>1. ASSUME NEW c \in Calls, NEW k \in {"put", "remove"},
             NEW e \in ChunkVersion \cup {AnyVersion}, Begin(c, k, e)
      PROVE  TypeOK'
  BY <1>1 DEF Begin, TypeOK, Location
<1>2. ASSUME NEW c \in Calls, Put(c) PROVE TypeOK'
  BY <1>1, <1>2 DEF Put, Known, ChunkVersion, Version
<1>3. ASSUME NEW c \in Calls, Remove(c) PROVE TypeOK'
  BY <1>1, <1>3 DEF Remove, Known, ChunkVersion, Version
<1>4. ASSUME NEW c \in Calls, NEW i \in Chunks, Serve(c, i) PROVE TypeOK'
  <2>1. PICK r \in Reply(c, drive[i], expect[c][i]) :
          Apply(c, i, r) /\ status' = [status EXCEPT ![c][i] = r]
    BY ZenonT(30), <1>4 DEF Serve
  <2>2. r \in Status
    BY ReplyType DEF Status
  <2> QED BY <1>4, <2>1, <2>2, ApplyType DEF Serve, TypeOK
<1>5. ASSUME NEW c \in Calls, NEW i \in Chunks, TimeOut(c, i) PROVE TypeOK'
  BY SMTT(60), <1>5, WriteAssumption DEF TimeOut, TypeOK, Status, Request
<1>6. ASSUME NEW q \in late, ServeLate(q) PROVE TypeOK'
  <2>1. q.call \in Calls /\ q.chunk \in Chunks
    BY DEF TypeOK, Request
  <2>2. PICK r \in Reply(q.call, drive[q.chunk], q.expect) : Apply(q.call, q.chunk, r)
    BY <1>6 DEF ServeLate
  <2> QED BY <1>6, <2>1, <2>2, ApplyType DEF ServeLate, TypeOK
<1>7. ASSUME NEW c \in Calls, FinishWrite(c) PROVE TypeOK'
  <2>1. CASE Partial(c)
    <3>1. StartVersions(c) /\ UNCHANGED <<driveVars, markers, kind, old, status,
                                          expect, final, result>>
      BY <1>7, <2>1 DEF FinishWrite
    <3> QED BY <3>1 DEF StartVersions, TypeOK, Location, ReadVersion
  <2>2. CASE ~ Partial(c)
    BY <1>7, <2>2, ConcludeType DEF FinishWrite, TypeOK
  <2> QED BY <2>1, <2>2
<1>8. ASSUME NEW c \in Calls, NEW i \in Chunks, GetVersion(c, i) PROVE TypeOK'
  <2>1. faults' \in 0..MaxFaults
    BY <1>8, WriteAssumption DEF GetVersion, TypeOK
  <2>2. seen' \in [Calls -> [Chunks -> ReadVersion]]
    <3>1. drive[i] \in ReadVersion /\ NoVersion \in ReadVersion
      BY DEF TypeOK, ReadVersion
    <3>2. PICK v \in ReadVersion : seen' = [seen EXCEPT ![c][i] = v]
      BY <1>8, <3>1 DEF GetVersion
    <3> QED BY <3>2 DEF TypeOK
  <2> QED BY ZenonT(60), <1>8, <2>1, <2>2 DEF GetVersion, TypeOK
<1>9. ASSUME NEW c \in Calls, SleepOrConclude(c)
      PROVE  result' \in [Calls -> Status] /\ pc' \in [Calls -> Location]
  BY ZenonT(30), <1>9, ConcludeType DEF SleepOrConclude, TypeOK, Location
<1>10. ASSUME NEW c \in Calls, Repair(c) PROVE TypeOK'
  <2>1. \A i \in Repairable(c) : i \in Chunks /\ seen[c][i] \in ChunkVersion
    BY <1>10 DEF Repair, Repairable, AllSeen, TypeOK, ReadVersion
  <2> QED BY <1>10, <2>1 DEF Repair, StartRepair, TypeOK, Location
<1>11. ASSUME NEW c \in Calls, Yield(c) PROVE TypeOK'
  BY <1>11, <1>9 DEF Yield, TypeOK
<1>12. ASSUME NEW c \in Calls, NullVersion(c) PROVE TypeOK'
  BY <1>12 DEF NullVersion, TypeOK, Location
<1>13. ASSUME NEW c \in Calls, FinishRepair(c) PROVE TypeOK'
  BY <1>13, <1>9, ConcludeType DEF FinishRepair, TypeOK
<1>14. ASSUME NEW c \in Calls, Poll(c) PROVE TypeOK'
  BY <1>14 DEF Poll, StartVersions, TypeOK, Location, ReadVersion
<1>15. ASSUME NEW c \in Calls, Expire(c) PROVE TypeOK'
  BY <1>15 DEF Expire, StartVersions, TypeOK, Location, ReadVersion
<1>16. ASSUME NEW c \in Calls, Crash(c) PROVE TypeOK'
  BY SMTT(60), <1>16 DEF Crash, TypeOK, Location, Request
<1>17. ASSUME NEW c \in Calls, PutIndicatorKey(c) PROVE TypeOK'
  <2>1. faults' \in 0..MaxFaults
    BY <1>17, WriteAssumption DEF PutIndicatorKey, TypeOK
  <2>2. pc' \in [Calls -> Location] /\ indicator' \in BOOLEAN
    BY ZenonT(30), <1>17 DEF PutIndicatorKey, TypeOK, Location
  <2> QED BY <1>17, <2>1, <2>2 DEF PutIndicatorKey, TypeOK
<1>18. ASSUME NEW c \in Calls, PutHandoffKeys(c) PROVE TypeOK'
  <2>1. faults' \in 0..MaxFaults
    BY SMTT(60), <1>18, WriteAssumption DEF PutHandoffKeys, TypeOK
  <2>2. handoff' \subseteq (Chunks \X Calls)
    BY <1>18 DEF PutHandoffKeys, Missing, TypeOK
  <2> QED BY <1>18, <2>1, <2>2 DEF PutHandoffKeys, TypeOK, Location
<1>19. CASE UNCHANGED vars
  BY <1>19 DEF vars, TypeOK
<1> QED BY ZenonT(60), <1>2, <1>3, <1>4, <1>5, <1>6, <1>7, <1>8, <1>10, <1>11, <1>12,
           <1>13, <1>14, <1>15, <1>16, <1>17, <1>18, <1>19 DEF Next, Step

\* The state of a write stays well typed: in particular a repair never makes a
\* request conditional on a version it could not read.
THEOREM TypeCorrect == Spec => []TypeOK
BY InitType, NextType, PTL DEF Spec

-----------------------------------------------------------------------------
\* Nothing is written twice in the initial states.
LEMMA InitOnce == Init => WriteOnce
<1> SUFFICES ASSUME Init PROVE WriteOnce
  OBVIOUS
<1>1. WrittenOnce
  BY WriteAssumption DEF Init, WrittenOnce
<1>2. Recorded
  BY DEF Init, Recorded
<1>3. LateOnce /\ Superseded /\ HandedOnce
  BY DEF Init, LateOnce, Superseded, HandedOnce
<1> QED BY <1>1, <1>2, <1>3 DEF WriteOnce

\* A step that sends no request and serves none keeps WriteOnce.
LEMMA QuietOnce ==
  ASSUME TypeOK, WriteOnce,
         UNCHANGED <<drive, held, late, kind, status, expect>>,
         \A c \in Calls : pc[c] # "ready" => pc'[c] # "ready",
         \A c \in Calls : pc[c] = "crashed" => pc'[c] = "crashed"
  PROVE  WriteOnce'
<1>1. WrittenOnce'
  BY DEF WriteOnce, WrittenOnce
<1>2. LateOnce'
  BY DEF WriteOnce, LateOnce, TypeOK, Request
<1>3. Recorded' /\ Superseded' /\ HandedOnce'
  BY DEF WriteOnce, Recorded, Superseded, HandedOnce
<1> QED BY <1>1, <1>2, <1>3 DEF WriteOnce

\* While a put waits for the answer to a request, its version has never been
\* on that chunk and it has no timed-out request for it.
LEMMA PendingFresh ==
  ASSUME TypeOK, WriteOnce, NEW c \in Calls, NEW i \in Chunks, Pending(c, i)
  PROVE  c \notin held[i] /\ \A q \in late : ~ (q.call = c /\ q.chunk = i)
BY DEF WriteOnce, WrittenOnce, LateOnce, Pending, Executing

\* Serving a request of a call whose version is new to the chunk keeps the
\* chain of versions of every chunk.
LEMMA ApplyChain ==
  ASSUME TypeOK, WriteOnce, NEW c \in Calls, NEW i \in Chunks, NEW r,
         Apply(c, i, r), c \notin held[i]
  PROVE  /\ Recorded'
         /\ \A j \in Chunks : held[j] \subseteq held'[j]
         /\ \A d \in Calls, j \in Chunks :
              d \in held'[j] => \/ d \in held[j]
                                \/ d = c /\ j = i /\ kind[c] = "put" /\ r = "OK"
         /\ \A d \in Calls, j \in Chunks :
              status[d][j] = "OK" /\ expect[d][j] \in Version =>
                expect[d][j] \in held'[j] /\ drive'[j] # expect[d][j]
<1>1. New(c) = Empty \/ (New(c) = c /\ kind[c] = "put")
  BY DEF New
<1>2. CASE r # "OK"
  BY <1>2 DEF Apply, WriteOnce, Recorded, Superseded
<1>3. CASE r = "OK"
  <2>1. drive' = [drive EXCEPT ![i] = New(c)]
    BY <1>3 DEF Apply
  <2>2. held' = [held EXCEPT ![i] = @ \cup ({New(c)} \ {Empty})]
    BY <1>3 DEF Apply
  <2>3. Recorded'
    BY <2>1, <2>2 DEF WriteOnce, Recorded, TypeOK
  <2>4. \A j \in Chunks : held[j] \subseteq held'[j]
    BY <2>2 DEF TypeOK
  <2>5. \A d \in Calls, j \in Chunks :
          d \in held'[j] => d \in held[j] \/ (d = c /\ j = i /\ kind[c] = "put")
    BY <1>1, <2>2, WriteAssumption DEF TypeOK
  <2>6. ASSUME NEW d \in Calls, NEW j \in Chunks,
               status[d][j] = "OK", expect[d][j] \in Version
        PROVE  expect[d][j] \in held'[j] /\ drive'[j] # expect[d][j]
    <3>1. expect[d][j] \in held[j] /\ drive[j] # expect[d][j]
      BY <2>6 DEF WriteOnce, Superseded
    <3>2. Empty \notin Version
      BY WriteAssumption, StripeAssumption DEF Version
    <3> QED BY ZenonT(60), <1>1, <2>1, <2>4, <2>6, <3>1, <3>2 DEF TypeOK
  <2> QED BY <1>3, <2>3, <2>4, <2>5, <2>6
<1> QED BY <1>2, <1>3

\* A drive answering a request keeps WriteOnce.
LEMMA ServeOnce ==
  ASSUME TypeOK, WriteOnce, NEW c \in Calls, NEW i \in Chunks, Serve(c, i)
  PROVE  WriteOnce'
<1>1. PICK r \in Reply(c, drive[i], expect[c][i]) :
        Apply(c, i, r) /\ status' = [status EXCEPT ![c][i] = r]
  BY ZenonT(30) DEF Serve
<1>2. UNCHANGED <<late, pc, kind, expect>> /\ Pending(c, i)
  BY DEF Serve
<1>3. c \notin held[i] /\ \A q \in late : ~ (q.call = c /\ q.chunk = i)
  BY <1>2, PendingFresh
<1>4. pc[c] \notin {"ready", "crashed"}
  BY <1>2 DEF Pending, Executing
<1>5. /\ Recorded'
      /\ \A j \in Chunks : held[j] \subseteq held'[j]
      /\ \A d \in Calls, j \in Chunks :
           d \in held'[j] => \/ d \in held[j]
                             \/ d = c /\ j = i /\ kind[c] = "put" /\ r = "OK"
      /\ \A d \in Calls, j \in Chunks :
           status[d][j] = "OK" /\ expect[d][j] \in Version =>
             expect[d][j] \in held'[j] /\ drive'[j] # expect[d][j]
  BY <1>1, <1>3, ApplyChain
<1>6. \A d \in Calls, j \in Chunks :
        status'[d][j] = IF d = c /\ j = i THEN r ELSE status[d][j]
  BY <1>1 DEF TypeOK
<1>7. WrittenOnce'
  <2> SUFFICES ASSUME NEW d \in Calls, NEW j \in Chunks, d \in held'[j]
               PROVE  /\ kind[d] = "put"
                      /\ pc[d] # "ready"
                      /\ pc[d] = "crashed" \/ status'[d][j] \in {"OK", "IO_ERROR"}
                      /\ \A q \in late : ~ (q.call = d /\ q.chunk = j)
    BY <1>2 DEF WrittenOnce
  <2>1. CASE d \in held[j]
    BY SMTT(60), <2>1, <1>3, <1>6 DEF WriteOnce, WrittenOnce
  <2>2. CASE d \notin held[j]
    BY ZenonT(60), <2>2, <1>3, <1>4, <1>5, <1>6
  <2> QED BY <2>1, <2>2
<1>8. LateOnce'
  <2>1. \A q \in late : q.call \in Calls /\ q.chunk \in Chunks
    BY DEF TypeOK, Request
  <2> QED BY ZenonT(60), <1>2, <1>3, <1>6, <2>1 DEF WriteOnce, LateOnce
<1>9. ASSUME r = "OK", expect[c][i] \in Version
      PROVE  drive[i] = expect[c][i]
  <2>1. AnyVersion \notin Version
    BY WriteAssumption DEF Version
  <2> QED BY ZenonT(60), <1>1, <1>9, <2>1, ReplyOK
<1>10. Superseded'
  <2> SUFFICES ASSUME NEW d \in Calls, NEW j \in Chunks,
                      status'[d][j] = "OK", expect[d][j] \in Version
               PROVE  expect[d][j] \in held'[j] /\ drive'[j] # expect[d][j]
    BY <1>2 DEF Superseded
  <2>1. CASE status[d][j] = "OK"
    BY <1>5, <2>1
  <2>2. CASE status[d][j] # "OK"
    <3>1. d = c /\ j = i /\ r = "OK"
      BY <1>6, <2>2
    <3>2. drive[i] = expect[c][i]
      BY <1>9, <3>1
    <3>3. Empty \notin Version
      BY WriteAssumption DEF Version
    <3>4. drive[i] \in held[i]
      BY <3>1, <3>2, <3>3 DEF WriteOnce, Recorded
    <3>5. drive'[i] = New(c)
      BY <1>1, <3>1 DEF Apply, TypeOK
    <3>6. New(c) \in {c, Empty}
      BY DEF New
    <3> QED BY ZenonT(60), <1>3, <1>5, <3>1, <3>2, <3>3, <3>4, <3>5, <3>6
  <2> QED BY <2>1, <2>2
<1>11. HandedOnce'
  <2> SUFFICES ASSUME NEW d \in Calls, NEW b \in Calls, NEW j \in Chunks, d # b,
                      expect[d][j] = expect[b][j], expect[d][j] \in Version,
                      status'[d][j] = "OK", status'[b][j] = "OK"
               PROVE  FALSE
    BY <1>2 DEF HandedOnce
  <2>1. CASE d = c /\ j = i
    <3>1. r = "OK" /\ status[b][j] = "OK"
      BY ZenonT(60), <1>6, <2>1
    <3>2. drive[j] = expect[b][j]
      BY ZenonT(60), <1>9, <2>1, <3>1
    <3>3. drive[j] # expect[b][j]
      BY ZenonT(60), <3>1 DEF WriteOnce, Superseded
    <3> QED BY Zenon, <3>2, <3>3
  <2>2. CASE b = c /\ j = i
    <3>1. r = "OK" /\ status[d][j] = "OK"
      BY ZenonT(60), <1>6, <2>2
    <3>2. drive[j] = expect[d][j]
      BY ZenonT(60), <1>9, <2>2, <3>1
    <3>3. drive[j] # expect[d][j]
      BY ZenonT(60), <3>1 DEF WriteOnce, Superseded
    <3> QED BY Zenon, <3>2, <3>3
  <2>3. CASE ~ (d = c /\ j = i) /\ ~ (b = c /\ j = i)
    BY SMTT(60), <1>6, <2>3 DEF WriteOnce, HandedOnce
  <2> QED BY <2>1, <2>2, <2>3
<1> QED BY <1>5, <1>7, <1>8, <1>10, <1>11 DEF WriteOnce

\* A timed-out request that reaches its drive after all keeps WriteOnce.
LEMMA ServeLateOnce ==
  ASSUME TypeOK, WriteOnce, NEW q \in late, ServeLate(q)
  PROVE  WriteOnce'
<1> DEFINE c == q.call
           i == q.chunk
<1>1. c \in Calls /\ i \in Chunks /\ \A p \in late : p.call \in Calls /\ p.chunk \in Chunks
  BY DEF TypeOK, Request
<1>2. PICK r \in Reply(c, drive[i], q.expect) : Apply(c, i, r)
  BY DEF ServeLate
<1>3. late' = late \ {q} /\ UNCHANGED <<pc, kind, status, expect>>
  BY DEF ServeLate, callVars
<1>4. c \notin held[i]
  BY SMTT(30), <1>1 DEF WriteOnce, WrittenOnce
<1> HIDE DEF c, i
<1>5. /\ Recorded'
      /\ \A j \in Chunks : held[j] \subseteq held'[j]
      /\ \A d \in Calls, j \in Chunks :
           d \in held'[j] => \/ d \in held[j]
                             \/ d = c /\ j = i /\ kind[c] = "put" /\ r = "OK"
      /\ \A d \in Calls, j \in Chunks :
           status[d][j] = "OK" /\ expect[d][j] \in Version =>
             expect[d][j] \in held'[j] /\ drive'[j] # expect[d][j]
  BY <1>1, <1>2, <1>4, ApplyChain
<1>6. WrittenOnce'
  BY SMTT(60), <1>1, <1>3, <1>5 DEF WriteOnce, WrittenOnce, LateOnce, c, i
<1>7. LateOnce'
  BY <1>1, <1>3 DEF WriteOnce, LateOnce
<1>8. Superseded' /\ HandedOnce'
  BY ZenonT(60), <1>3, <1>5 DEF WriteOnce, Superseded, HandedOnce
<1> QED BY ZenonT(60), <1>5, <1>6, <1>7, <1>8 DEF WriteOnce

\* A step that sends requests: the status of some chunks of one call changes,
\* never from or to OK, and timed-out requests are kept as late ones.
LEMMA SendOnce ==
  ASSUME TypeOK, WriteOnce, NEW c \in Calls, NEW S \in SUBSET Chunks,
         UNCHANGED <<drive, held, kind>>,
         \A d \in Calls, j \in Chunks :
           ~ (d = c /\ j \in S) => /\ status'[d][j] = status[d][j]
                                   /\ expect'[d][j] = expect[d][j],
         \A j \in S : status'[c][j] # "OK" /\ c \notin held[j],
         \A d \in Calls : pc[d] # "ready" => pc'[d] # "ready",
         \A d \in Calls : pc[d] = "crashed" => pc'[d] = "crashed",
         LateOnce',
         \A q \in late' : q \in late \/ (q.call = c /\ q.chunk \in S)
  PROVE  WriteOnce'
<1>1. WrittenOnce'
  BY SMTT(60) DEF WriteOnce, WrittenOnce
<1>2. Recorded'
  BY DEF WriteOnce, Recorded
<1>3. Superseded'
  BY SMTT(60) DEF WriteOnce, Superseded
<1>4. HandedOnce'
  BY SMTT(60) DEF WriteOnce, HandedOnce
<1> QED BY <1>1, <1>2, <1>3, <1>4 DEF WriteOnce

\* Starting a call keeps WriteOnce.
LEMMA BeginOnce ==
  ASSUME TypeOK, WriteOnce, NEW c \in Calls, NEW k, NEW e, Begin(c, k, e)
  PROVE  WriteOnce'
<1> USE DEF driveVars
<1>1. pc[c] = "ready" /\ pc' = [pc EXCEPT ![c] = "write"] /\ UNCHANGED late
  BY DEF Begin
<1>2. \A j \in Chunks : c \notin held[j]
  BY <1>1 DEF WriteOnce, WrittenOnce
<1>3. \A q \in late : q.call # c
  BY <1>1 DEF WriteOnce, LateOnce
<1>4. /\ status' = [status EXCEPT ![c] = [i \in Chunks |-> "PENDING"]]
      /\ expect' = [expect EXCEPT ![c] = [i \in Chunks |-> e]]
      /\ kind' = [kind EXCEPT ![c] = k] /\ UNCHANGED <<drive, held>>
  BY DEF Begin
<1>5. /\ \A d \in Calls \ {c} : /\ status'[d] = status[d] /\ expect'[d] = expect[d]
                                /\ pc'[d] = pc[d] /\ kind'[d] = kind[d]
      /\ \A j \in Chunks : status'[c][j] = "PENDING"
  BY <1>1, <1>4 DEF TypeOK
<1>6. WrittenOnce'
  BY SMTT(60), <1>1, <1>2, <1>4, <1>5 DEF WriteOnce, WrittenOnce
<1>7. LateOnce'
  <2>1. \A q \in late : q.call \in Calls
    BY ZenonT(30) DEF TypeOK, Request
  <2> QED BY SMTT(60), <1>1, <1>3, <1>5, <2>1 DEF WriteOnce, LateOnce
<1>8. Recorded'
  BY <1>4 DEF WriteOnce, Recorded
<1>9. Superseded'
  BY SMTT(60), <1>4, <1>5 DEF WriteOnce, Superseded
<1>10. HandedOnce'
  BY SMTT(60), <1>5 DEF WriteOnce, HandedOnce
<1> QED BY <1>6, <1>7, <1>8, <1>9, <1>10 DEF WriteOnce

\* A request that times out keeps WriteOnce.
LEMMA TimeOutOnce ==
  ASSUME TypeOK, WriteOnce, NEW c \in Calls, NEW i \in Chunks, TimeOut(c, i)
  PROVE  WriteOnce'
<1> DEFINE n == [call |-> c, chunk |-> i, expect |-> expect[c][i]]
<1>1. /\ Pending(c, i) /\ late' = late \cup {n}
      /\ status' = [status EXCEPT ![c][i] = "IO_ERROR"]
      /\ UNCHANGED <<drive, held, pc, kind, expect>>
  BY DEF TimeOut
<1>2. c \notin held[i] /\ \A q \in late : ~ (q.call = c /\ q.chunk = i)
  BY <1>1, PendingFresh
<1>3. \A d \in Calls, j \in Chunks :
        status'[d][j] = IF d = c /\ j = i THEN "IO_ERROR" ELSE status[d][j]
  BY <1>1 DEF TypeOK
<1>4. n.call = c /\ n.chunk = i /\ pc[c] # "ready"
  BY <1>1 DEF Pending, Executing
<1> HIDE DEF n
<1>5. LateOnce'
  <2>1. \A q \in late : q.call \in Calls /\ q.chunk \in Chunks
    BY DEF TypeOK, Request
  <2> QED BY <1>1, <1>2, <1>3, <1>4, <2>1 DEF WriteOnce, LateOnce
<1>6. \A j \in {i} : status'[c][j] # "OK" /\ c \notin held[j]
  BY <1>2, <1>3
<1>7. \A q \in late' : q \in late \/ (q.call = c /\ q.chunk \in {i})
  BY <1>1, <1>4
<1>8. \A d \in Calls, j \in Chunks :
        ~ (d = c /\ j \in {i}) => status'[d][j] = status[d][j] /\ expect'[d][j] = expect[d][j]
  BY <1>1, <1>3
<1>9. \A d \in Calls : pc'[d] = pc[d]
  BY <1>1
<1>10. {i} \in SUBSET Chunks
  OBVIOUS
<1> QED BY ZenonT(30), <1>1, <1>5, <1>6, <1>7, <1>8, <1>9, <1>10, SendOnce

\* A client that crashes with requests under way keeps WriteOnce.
LEMMA CrashOnce ==
  ASSUME TypeOK, WriteOnce, NEW c \in Calls, Crash(c)
  PROVE  WriteOnce'
<1> DEFINE S == {j \in Chunks : Pending(c, j)}
           n(i) == [call |-> c, chunk |-> i, expect |-> expect[c][i]]
<1>1. /\ late' = late \cup {n(i) : i \in S}
      /\ pc' = [pc EXCEPT ![c] = "crashed"]
      /\ UNCHANGED <<drive, held, kind, status, expect>>
  BY DEF Crash
<1>2. \A i \in S : c \notin held[i] /\ \A q \in late : ~ (q.call = c /\ q.chunk = i)
  BY PendingFresh
<1>3. \A i \in S : status[c][i] = "PENDING"
  BY ZenonT(30) DEF Pending
<1>4. \A d \in Calls : pc'[d] = IF d = c THEN "crashed" ELSE pc[d]
  BY <1>1 DEF TypeOK
<1>5. \A q \in late' : q \in late \/ \E i \in S : q = n(i)
  BY ZenonT(60), <1>1
<1>6. \A i : n(i).call = c /\ n(i).chunk = i
  OBVIOUS
<1>7. S \in SUBSET Chunks
  OBVIOUS
<1> HIDE DEF S, n
<1>8. LateOnce'
  <2>1. \A q \in late : q.call \in Calls /\ q.chunk \in Chunks
    BY DEF TypeOK, Request
  <2>2. \A q \in late' : q \in late \/ (q.call = c /\ q.chunk \in S /\ q = n(q.chunk))
    BY <1>5, <1>6
  <2>3. \A q \in late' : pc'[q.call] # "ready"
    BY <1>4, <2>1, <2>2 DEF WriteOnce, LateOnce
  <2>4. \A q \in late' : pc'[q.call] = "crashed" \/ status[q.call][q.chunk] = "IO_ERROR"
    BY ZenonT(60), <1>4, <2>1, <2>2 DEF WriteOnce, LateOnce
  <2>5. \A q, r \in late' : r.call = q.call /\ r.chunk = q.chunk => r = q
    BY <1>2, <2>2 DEF WriteOnce, LateOnce
  <2> QED BY ZenonT(60), <1>1, <2>3, <2>4, <2>5 DEF LateOnce
<1>9. \A q \in late' : q \in late \/ (q.call = c /\ q.chunk \in S)
  BY <1>5, <1>6
<1>10. \A d \in Calls : (pc[d] # "ready" => pc'[d] # "ready")
                        /\ (pc[d] = "crashed" => pc'[d] = "crashed")
  BY <1>4
<1>11. \A j \in S : status'[c][j] # "OK" /\ c \notin held[j]
  BY <1>1, <1>2, <1>3
<1>12. \A d \in Calls, j \in Chunks :
        ~ (d = c /\ j \in S) => status'[d][j] = status[d][j] /\ expect'[d][j] = expect[d][j]
  BY ZenonT(60), <1>1
<1> QED BY ZenonT(30), <1>1, <1>7, <1>8, <1>9, <1>10, <1>11, <1>12, SendOnce

\* A repair re-sends only requests that the drive refused: WriteOnce is kept.
LEMMA RepairOnce ==
  ASSUME TypeOK, WriteOnce, NEW c \in Calls, Repair(c)
  PROVE  WriteOnce'
<1> USE DEF driveVars
<1>1. pc[c] = "versions" /\ UNCHANGED <<drive, held, late, kind>>
  BY DEF Repair, AllSeen
<1>2. /\ status' = [status EXCEPT ![c] =
           [i \in Chunks |-> IF i \in Repairable(c) THEN "PENDING" ELSE status[c][i]]]
      /\ expect' = [expect EXCEPT ![c] =
           [i \in Chunks |-> IF i \in Repairable(c) THEN seen[c][i] ELSE expect[c][i]]]
      /\ pc' = [pc EXCEPT ![c] = "repair"]
  BY DEF Repair, StartRepair
<1>3. Repairable(c) \in SUBSET Chunks /\ \A j \in Repairable(c) : status[c][j] = "VERSION_MISMATCH"
  BY DEF Repairable
<1>4. \A j \in Repairable(c) : status'[c][j] = "PENDING" /\ c \notin held[j]
  <2>1. \A j \in Repairable(c) : status'[c][j] = "PENDING"
    BY ZenonT(30), <1>2, <1>3 DEF TypeOK
  <2>2. \A j \in Repairable(c) : c \notin held[j]
    BY <1>1, <1>3 DEF WriteOnce, WrittenOnce
  <2> QED  BY <2>1, <2>2
<1>5. \A d \in Calls, j \in Chunks : ~ (d = c /\ j \in Repairable(c)) =>
        status'[d][j] = status[d][j] /\ expect'[d][j] = expect[d][j]
  BY <1>2 DEF TypeOK
<1>6. \A d \in Calls : pc'[d] = IF d = c THEN "repair" ELSE pc[d]
  BY ZenonT(30), <1>2 DEF TypeOK
<1>7. LateOnce'
  <2>1. \A q \in late : q.call \in Calls /\ q.chunk \in Chunks
    BY DEF TypeOK, Request
  <2>2. \A q \in late : status[q.call][q.chunk] = "IO_ERROR" => status'[q.call][q.chunk] = "IO_ERROR"
    BY ZenonT(30), <1>3, <1>5, <2>1
  <2> QED BY ZenonT(30), <1>1, <1>6, <2>1, <2>2 DEF WriteOnce, LateOnce
<1>8. \A d \in Calls : (pc[d] # "ready" => pc'[d] # "ready")
                       /\ (pc[d] = "crashed" => pc'[d] = "crashed")
  BY <1>1, <1>6
<1>9. \A q \in late' : q \in late
  BY <1>1
<1> QED BY ZenonT(30), <1>1, <1>3, <1>4, <1>5, <1>7, <1>8, <1>9, SendOnce

\* Every step keeps WriteOnce.
LEMMA NextOnce == TypeOK /\ WriteOnce /\ [Next]_vars => WriteOnce'
<1> SUFFICES ASSUME TypeOK, WriteOnce, [Next]_vars PROVE WriteOnce'
  OBVIOUS
<1> USE DEF driveVars, markers, callVars
<1>1. ASSUME NEW c \in Calls, Put(c) \/ Remove(c) PROVE WriteOnce'
  BY <1>1, BeginOnce DEF Put, Remove
<1>2. ASSUME NEW c \in Calls, FinishWrite(c) PROVE WriteOnce'
  <2>1. pc[c] = "write" /\ UNCHANGED <<drive, held, late, kind, status, expect>>
    BY <1>2 DEF FinishWrite
  <2>2. \E l \in {"versions", "indicator", "returned"} : pc' = [pc EXCEPT ![c] = l]
    BY ZenonT(30), <1>2 DEF FinishWrite, StartVersions, Conclude
  <2> QED BY ZenonT(60), <2>1, <2>2, QuietOnce DEF TypeOK
<1>3. ASSUME NEW c \in Calls, NEW i \in Chunks, GetVersion(c, i) PROVE WriteOnce'
  BY <1>3, QuietOnce DEF GetVersion
<1>4. ASSUME NEW c \in Calls, Yield(c) \/ FinishRepair(c) PROVE WriteOnce'
  <2>1. /\ pc[c] \in {"versions", "repair"}
        /\ UNCHANGED <<drive, held, late, kind, status, expect>>
    BY ZenonT(30), <1>4 DEF Yield, FinishRepair, AllSeen
  <2>2. \E l \in {"sleep", "indicator", "returned"} : pc' = [pc EXCEPT ![c] = l]
    BY ZenonT(30), <1>4 DEF Yield, FinishRepair, SleepOrConclude, Conclude
  <2> QED BY <2>1, <2>2, QuietOnce DEF TypeOK
<1>5. ASSUME NEW c \in Calls, NullVersion(c) \/ Poll(c) \/ Expire(c) PROVE WriteOnce'
  <2>1. /\ pc[c] \in {"versions", "sleep"}
        /\ UNCHANGED <<drive, held, late, kind, status, expect>>
    BY ZenonT(30), <1>5 DEF NullVersion, AllSeen, Poll, Expire
  <2>2. \E l \in {"versions", "crashed"} : pc' = [pc EXCEPT ![c] = l]
    BY <1>5 DEF NullVersion, Poll, Expire, StartVersions
  <2> QED BY <2>1, <2>2, QuietOnce DEF TypeOK
<1>6. ASSUME NEW c \in Calls, PutIndicatorKey(c) \/ PutHandoffKeys(c) PROVE WriteOnce'
  <2>1. /\ pc[c] \in {"indicator", "handoff"}
        /\ UNCHANGED <<drive, held, late, kind, status, expect>>
    BY ZenonT(60), <1>6 DEF PutIndicatorKey, PutHandoffKeys
  <2>2. \E l \in {"handoff", "returned"} : pc' = [pc EXCEPT ![c] = l]
    BY ZenonT(60), <1>6 DEF PutIndicatorKey, PutHandoffKeys
  <2> QED BY <2>1, <2>2, QuietOnce DEF TypeOK
<1>7. CASE UNCHANGED vars
  BY <1>7, QuietOnce DEF vars
<1> QED BY ZenonT(60), <1>1, <1>2, <1>3, <1>4, <1>5, <1>6, <1>7, ServeOnce, ServeLateOnce,
           TimeOutOnce, CrashOnce, RepairOnce DEF Next, Step

\* Every version is written to a chunk once and replaced there once, for any
\* number of clients, stripe size, timeouts, late requests and crashes.
THEOREM WriteOnceHolds == Spec => []WriteOnce
<1>1. Init => TypeOK /\ WriteOnce
  BY InitType, InitOnce
<1>2. TypeOK /\ WriteOnce /\ [Next]_vars => (TypeOK /\ WriteOnce)'
  BY NextType, NextOnce
<1> QED BY <1>1, <1>2, PTL DEF Spec

-----------------------------------------------------------------------------
\* Only a drive that serves a request changes a chunk, and it changes it to a
\* version that is new there.
LEMMA StepFresh ==
  ASSUME TypeOK, WriteOnce, [Next]_vars, NEW i \in Chunks,
         drive'[i] \notin {drive[i], Empty}
  PROVE  drive'[i] \notin held[i]
<1> USE DEF driveVars, markers, callVars
<1>1. ASSUME NEW c \in Calls, NEW j \in Chunks, Serve(c, j)
      PROVE  drive'[i] \notin held[i]
  <2>1. c \notin held[j]
    BY <1>1, PendingFresh DEF Serve
  <2>2. PICK r : Apply(c, j, r)
    BY ZenonT(30), <1>1 DEF Serve
  <2> QED BY <2>1, <2>2 DEF Apply, New, TypeOK
<1>2. ASSUME NEW q \in late, ServeLate(q)
      PROVE  drive'[i] \notin held[i]
  <2>1. q.call \in Calls /\ q.chunk \in Chunks
    BY DEF TypeOK, Request
  <2>2. q.call \notin held[q.chunk]
    BY SMTT(60), <2>1 DEF WriteOnce, WrittenOnce
  <2>3. PICK r : Apply(q.call, q.chunk, r)
    BY <1>2 DEF ServeLate
  <2> QED BY ZenonT(60), <2>1, <2>2, <2>3 DEF Apply, New, TypeOK
<1>3. CASE UNCHANGED drive
  BY <1>3
<1>4. \/ UNCHANGED drive
      \/ \E c \in Calls, j \in Chunks : Serve(c, j)
      \/ \E q \in late : ServeLate(q)
  BY ZenonT(30) DEF Next, Step, vars, Put, Remove, Begin, TimeOut, FinishWrite, GetVersion,
         Repair, Yield, NullVersion, FinishRepair, Poll, Expire, Crash,
         PutIndicatorKey, PutHandoffKeys
<1> QED BY ZenonT(60), <1>1, <1>2, <1>3, <1>4

\* No late request and no repair ever brings back a version of a chunk that
\* has been overwritten or removed.
THEOREM NoResurrectionHolds == Spec => NoResurrection
<1>1. TypeOK /\ WriteOnce /\ [Next]_vars =>
        [\A i \in Chunks :
           drive'[i] \notin {drive[i], Empty} => drive'[i] \notin held[i]]_vars
  BY StepFresh
<1> QED BY <1>1, TypeCorrect, WriteOnceHolds, PTL DEF Spec, NoResurrection

\* Two disjoint sets of chunks are not both quorums, because a stripe has more
\* data chunks than parities.
LEMMA DisjointQuorums ==
  ASSUME NEW A \in SUBSET Chunks, NEW B \in SUBSET Chunks, A \cap B = {}
  PROVE  ~ (Cardinality(A) >= NumData /\ Cardinality(B) >= NumData)
<1>1. IsFiniteSet(Chunks) /\ Cardinality(Chunks) = NumData + NumParity
  BY FS_Interval, StripeAssumption DEF Chunks, StripeSize
<1>2. IsFiniteSet(A) /\ IsFiniteSet(B)
  BY <1>1, FS_Subset
<1>3. Cardinality(A) \in Nat /\ Cardinality(B) \in Nat
  BY <1>2, FS_CardinalityType
<1>4. ~ (Cardinality(A) + Cardinality(B) > Cardinality(Chunks))
  BY <1>1, FS_MajoritiesIntersect
<1> QED BY <1>1, <1>3, <1>4, StripeAssumption

\* The drives hand each chunk to one of the calls conditional on its version, so
\* two of them do not both have a quorum.
LEMMA QuorumWinner == WriteOnce => OneQuorumWinner
<1> SUFFICES ASSUME WriteOnce, NEW c \in Calls, NEW d \in Calls, Rivals(c, d)
             PROVE  ~ (/\ Cardinality(Acquired(c)) >= NumData
                       /\ Cardinality(Acquired(d)) >= NumData)
  BY DEF OneQuorumWinner
<1>1. Acquired(c) \cap Acquired(d) = {}
  BY DEF Acquired, Rivals, WriteOnce, HandedOnce
<1>2. Acquired(c) \in SUBSET Chunks /\ Acquired(d) \in SUBSET Chunks
  BY DEF Acquired
<1> QED BY <1>1, <1>2, DisjointQuorums

\* Of all calls conditional on one version, at most one is acknowledged by a
\* quorum of drives: the conditional write is decided by the drives alone.
THEOREM OneQuorumWinnerHolds == Spec => []OneQuorumWinner
BY QuorumWinner, WriteOnceHolds, PTL

-----------------------------------------------------------------------------
(***************************************************************************)
(* Reads.                                                                  *)
(***************************************************************************)

\* The chunks that carry one version, and how many these may be.
LEMMA FrequencyType ==
  ASSUME NEW read, DOMAIN read = Chunks, NEW v
  PROVE  Frequency(read, v) \in 0..StripeSize
<1>1. IsFiniteSet(Chunks) /\ Cardinality(Chunks) = StripeSize
  BY FS_Interval, StripeAssumption DEF Chunks, StripeSize
<1>2. {i \in DOMAIN read : read[i] = v} \in SUBSET Chunks
  OBVIOUS
<1> QED BY <1>1, <1>2, FS_Subset, FS_CardinalityType, StripeAssumption DEF Frequency, StripeSize

\* Some chunk carries the most frequent version as soon as a version was read at
\* all, so that most_frequent.version is one of the versions that were read.
LEMMA MostFrequentExists ==
  ASSUME NEW read, DOMAIN read = Chunks, Stored(read) # {}
  PROVE  \E i \in DOMAIN read : MostFrequent(read, i)
<1> DEFINE F(i) == Frequency(read, read[i])
           Rest == {StripeSize - F(i) : i \in Stored(read)}
<1>0. StripeSize \in Nat /\ Chunks \subseteq Nat /\ Stored(read) \subseteq Chunks
  BY StripeAssumption DEF StripeSize, Chunks, Stored
<1>1. \A i \in Stored(read) : F(i) \in 0..StripeSize
  BY FrequencyType
<1> HIDE DEF F
<1>2. Rest \subseteq Nat /\ Rest # {}
  BY <1>0, <1>1
<1>3. PICK r \in Rest : \A y \in Rest : r <= y
  BY ZenonT(60), <1>2, LeastNumber
<1>4. PICK m \in Stored(read) : r = StripeSize - F(m)
  OBVIOUS
<1>5. ASSUME NEW j \in Stored(read) PROVE F(j) <= F(m)
  <2>1. r <= StripeSize - F(j)
    BY <1>3
  <2> QED BY SMTT(60), <1>0, <1>1, <1>4, <2>1
<1> DEFINE Best == {i \in Stored(read) : F(i) = F(m)}
<1>6. PICK b \in Best : \A y \in Best : b <= y
  <2>1. Best \subseteq Nat /\ Best # {}
    BY ZenonT(60), <1>0
  <2> QED BY ZenonT(60), <2>1, LeastNumber
<1>7. \A j \in Stored(read) : F(j) < F(b) \/ (F(j) = F(b) /\ b <= j)
  BY SMTT(60), <1>1, <1>5, <1>6
<1> QED BY <1>0, <1>6, <1>7 DEF MostFrequent, F

\* What mostFrequentVersion returns when its frequency is positive: a version
\* that was read, as often as it says.
LEMMA MostFrequentRead ==
  ASSUME NEW read, DOMAIN read = Chunks, mostFrequentVersion(read).frequency >= 1
  PROVE  LET m == mostFrequentVersion(read)
         IN  /\ m.frequency = Frequency(read, m.version)
             /\ \E i \in Stored(read) : m.version = read[i]
<1>1. Stored(read) # {}
  <2> SUFFICES ASSUME Stored(read) = {} PROVE FALSE
    OBVIOUS
  <2>1. mostFrequentVersion(read) = [version |-> NoVersion, frequency |-> 0]
    BY DEF mostFrequentVersion
  <2> QED BY <2>1
<1> DEFINE first == CHOOSE i \in DOMAIN read : MostFrequent(read, i)
<1>2. mostFrequentVersion(read) = [version |-> read[first], frequency |-> Frequency(read, read[first])]
  BY <1>1 DEF mostFrequentVersion
<1>3. MostFrequent(read, first)
  BY <1>1, MostFrequentExists
<1>4. first \in Stored(read)
  BY <1>3 DEF MostFrequent
<1> HIDE DEF first
<1> QED BY SMTT(60), <1>2, <1>4

-----------------------------------------------------------------------------
\* What a get has obtained of a chunk: a version it carries, or none yet.
Obtained == ChunkVersion \cup {NoVersion, "PENDING"}

\* The state of the get is well formed, and the calls that had returned when it
\* began stay as they are.
GetTypeOK ==
  /\ down \subseteq Chunks
  /\ op \in [Chunks -> Obtained]
  /\ done \subseteq {c \in Calls : pc[c] = "returned"}

\* A get that has returned OK has obtained the version in at least NumData chunks,
\* and has no request under way.
AnswerBacked ==
  stage = "returned" /\ answer.status = "OK" =>
    /\ Complete
    /\ answer.version \in Version
    /\ Frequency(op, answer.version) >= NumData

\* Of a chunk that an acknowledged call has taken over, a get obtains the version
\* from before only from a handoff key.
ReplacedNotRead ==
  \A c \in done : \A i \in Acquired(c) :
    old[c] \in Version /\ op[i] = old[c] => <<i, old[c]>> \in handoff

ReadInv == TypeOK /\ WriteOnce /\ GetTypeOK /\ AnswerBacked /\ ReplacedNotRead

\* A call that has returned is over: none of its requests is repeated, and what it
\* did to each chunk stays as it was recorded.  Handoff keys are never deleted.
LEMMA ReturnedStays ==
  ASSUME TypeOK, [Next]_vars
  PROVE  /\ handoff \subseteq handoff'
         /\ \A c \in Calls : pc[c] = "returned" =>
              /\ pc'[c] = "returned" /\ old'[c] = old[c]
              /\ status'[c] = status[c] /\ expect'[c] = expect[c]
<1> USE DEF driveVars, markers, callVars
<1> DEFINE Over(c) == /\ pc'[c] = "returned" /\ old'[c] = old[c]
                      /\ status'[c] = status[c] /\ expect'[c] = expect[c]
           Goal == handoff \subseteq handoff' /\ \A c \in Calls : pc[c] = "returned" => Over(c)
<1>1. ASSUME NEW d \in Calls, pc[d] # "returned", handoff \subseteq handoff',
             \A c \in Calls \ {d} : /\ pc'[c] = pc[c] /\ old'[c] = old[c]
                                    /\ status'[c] = status[c] /\ expect'[c] = expect[c]
      PROVE  Goal
  BY <1>1
<1> HIDE DEF Goal
<1>2. ASSUME NEW d \in Calls, Put(d) \/ Remove(d) PROVE Goal
  <2>1. PICK k, e : Begin(d, k, e)
    BY <1>2 DEF Put, Remove
  <2> QED BY <1>1, <2>1 DEF Begin, TypeOK
<1>3. ASSUME NEW d \in Calls, NEW i \in Chunks, Serve(d, i) PROVE Goal
  <2>1. PICK r : status' = [status EXCEPT ![d][i] = r]
    BY ZenonT(30), <1>3 DEF Serve
  <2>2. Pending(d, i) /\ UNCHANGED <<markers, pc, old, expect>>
    BY ZenonT(30), <1>3 DEF Serve
  <2> QED BY ZenonT(60), <1>1, <2>1, <2>2 DEF Pending, Executing, TypeOK
<1>4. ASSUME NEW d \in Calls, NEW i \in Chunks, TimeOut(d, i) PROVE Goal
  BY <1>1, <1>4 DEF TimeOut, Pending, Executing, TypeOK
<1>5. ASSUME NEW d \in Calls, NEW i \in Chunks, GetVersion(d, i) PROVE Goal
  BY <1>1, <1>5 DEF GetVersion
<1>6. ASSUME NEW d \in Calls, \/ FinishWrite(d) \/ Yield(d) \/ FinishRepair(d)
                             \/ NullVersion(d) \/ Poll(d) \/ Expire(d) PROVE Goal
  <2>1. /\ pc[d] \in {"write", "versions", "repair", "sleep"}
        /\ UNCHANGED <<markers, old, status, expect>>
    BY ZenonT(30), <1>6 DEF FinishWrite, Yield, FinishRepair, NullVersion, Poll, Expire, AllSeen
  <2>2. \E l : pc' = [pc EXCEPT ![d] = l]
    BY ZenonT(30), <1>6 DEF FinishWrite, Yield, FinishRepair, NullVersion, Poll, Expire,
                           StartVersions, Conclude, SleepOrConclude
  <2> QED BY <1>1, <2>1, <2>2 DEF TypeOK
<1>7. ASSUME NEW d \in Calls, PutIndicatorKey(d) PROVE Goal
  BY <1>1, <1>7 DEF PutIndicatorKey, TypeOK
<1>8. ASSUME NEW d \in Calls, PutHandoffKeys(d) PROVE Goal
  <2>1. pc[d] = "handoff" /\ pc' = [pc EXCEPT ![d] = "returned"] /\ UNCHANGED <<old, status, expect>>
    BY <1>8 DEF PutHandoffKeys
  <2>2. handoff \subseteq handoff'
    BY ZenonT(30), <1>8 DEF PutHandoffKeys
  <2> QED BY ZenonT(60), <1>1, <2>1, <2>2 DEF TypeOK
<1>9. ASSUME NEW d \in Calls, Repair(d) PROVE Goal
  BY <1>1, <1>9 DEF Repair, AllSeen, StartRepair, TypeOK
<1>10. ASSUME NEW d \in Calls, Crash(d) PROVE Goal
  BY ZenonT(60), <1>1, <1>10 DEF Crash, TypeOK
<1>11. ASSUME NEW q \in late, ServeLate(q) PROVE Goal
  BY ZenonT(60), <1>11 DEF ServeLate, Goal
<1>12. ASSUME UNCHANGED vars PROVE Goal
  BY ZenonT(60), <1>12 DEF vars, Goal
<1>13. Goal
  BY ZenonT(60), <1>2, <1>3, <1>4, <1>5, <1>6, <1>7, <1>8, <1>9, <1>10, <1>11, <1>12
     DEF Next, Step
<1> QED BY <1>13 DEF Goal

\* No get has begun in the initial states.
LEMMA ReadInitInv == ReadInit => ReadInv
<1> SUFFICES ASSUME ReadInit PROVE ReadInv
  OBVIOUS
<1>1. TypeOK /\ WriteOnce
  BY InitType, InitOnce DEF ReadInit
<1>2. GetTypeOK
  BY DEF ReadInit, GetTypeOK, Obtained
<1>3. AnswerBacked /\ ReplacedNotRead
  BY DEF ReadInit, AnswerBacked, ReplacedNotRead
<1> QED BY <1>1, <1>2, <1>3 DEF ReadInv

\* The writers' steps, and drives going down and coming back, leave what a get has
\* obtained alone.
LEMMA WriteStepInv == ReadInv /\ WriteStep => ReadInv'
<1> SUFFICES ASSUME ReadInv, WriteStep PROVE ReadInv'
  OBVIOUS
<1>1. Next /\ UNCHANGED readVars
  <2>1. down \subseteq Chunks
    BY DEF ReadInv, GetTypeOK
  <2>2. \A c \in Calls : CallStep(c) => Step(c) \/ \E i \in Chunks : TimeOut(c, i)
    BY <2>1 DEF CallStep, Step
  <2> QED BY <2>2 DEF WriteStep, Next
<1>2. UNCHANGED <<down, stage, op, done, answer>>
  BY <1>1 DEF readVars, getVars
<1>3. TypeOK' /\ WriteOnce'
  BY <1>1, NextType, NextOnce DEF ReadInv
<1>4. /\ handoff \subseteq handoff'
      /\ \A c \in done : /\ c \in Calls /\ pc'[c] = "returned" /\ old'[c] = old[c]
                         /\ status'[c] = status[c] /\ expect'[c] = expect[c]
  BY ZenonT(60), <1>1, ReturnedStays DEF ReadInv, GetTypeOK
<1>5. GetTypeOK'
  BY ZenonT(60), <1>2, <1>4 DEF ReadInv, GetTypeOK
<1>6. AnswerBacked'
  BY <1>2 DEF ReadInv, AnswerBacked, Complete
<1>7. ReplacedNotRead'
  BY SMTT(60), <1>2, <1>4 DEF ReadInv, ReplacedNotRead, Acquired
<1> QED BY <1>3, <1>5, <1>6, <1>7 DEF ReadInv

\* Where a get takes its versions from: the drives, or handoff keys.
Sources ==
  \A i \in Chunks : \/ op'[i] = op[i] \/ op'[i] \in {"PENDING", NoVersion}
                   \/ op'[i] = drive[i] \/ <<i, op'[i]>> \in handoff

Restarted == \A i \in Chunks : op'[i] \in {"PENDING", NoVersion}

\* A step of a get that takes versions from there, and backs its answer, keeps the
\* invariant: what an acknowledged call has replaced is on no drive any more.
LEMMA SourcesInv ==
  ASSUME ReadInv, UNCHANGED <<drive, held, late, faults, handoff, callVars, down>>,
         indicator' \in BOOLEAN, op' \in [Chunks -> Obtained], Sources, AnswerBacked',
         \/ UNCHANGED done
         \/ Restarted /\ done' = {c \in Calls : Returned(c, "OK")}
  PROVE  ReadInv'
<1> USE DEF callVars
<1>1. TypeOK'
  BY DEF ReadInv, TypeOK
<1>2. WriteOnce'
  BY QuietOnce DEF ReadInv
<1>3. GetTypeOK'
  BY ZenonT(60) DEF ReadInv, GetTypeOK, Returned
<1>4. ASSUME NEW c \in done', NEW i \in Acquired(c)', (old[c] \in Version)', (op[i] = old[c])'
      PROVE  (<<i, old[c]>> \in handoff)'
  <2>1. i \in Chunks /\ i \in Acquired(c) /\ old'[c] = old[c] /\ c \in Calls
    BY ZenonT(60), <1>3 DEF Acquired, GetTypeOK
  <2>2. op'[i] \notin {"PENDING", NoVersion}
    BY <1>4, ReadAssumption, WriteAssumption DEF ChunkVersion, Version
  <2>3. op'[i] # drive[i]
    BY ZenonT(60), <1>4, <2>1 DEF ReadInv, WriteOnce, Superseded, Acquired
  <2>4. CASE op'[i] = op[i]
    BY ZenonT(60), <1>4, <2>1, <2>2, <2>4 DEF ReadInv, ReplacedNotRead, Restarted
  <2>5. CASE <<i, op'[i]>> \in handoff
    BY <1>4, <2>5
  <2> QED BY ZenonT(60), <2>1, <2>2, <2>3, <2>4, <2>5 DEF Sources
<1>5. ReplacedNotRead'
  BY <1>4 DEF ReplacedNotRead
<1> QED BY ZenonT(60), <1>1, <1>2, <1>3, <1>5 DEF ReadInv

\* Drives going down and coming back leave the stripe and the get alone.
LEMMA OutageInv == ReadInv /\ Outage => ReadInv'
<1> SUFFICES ASSUME ReadInv, Outage PROVE ReadInv'
  OBVIOUS
<1> USE DEF driveVars, markers, callVars, getVars
<1>1. UNCHANGED <<driveVars, markers, callVars, getVars>> /\ down' \subseteq Chunks
  BY DEF Outage
<1>2. TypeOK' /\ GetTypeOK'
  BY <1>1 DEF ReadInv, TypeOK, GetTypeOK
<1>3. WriteOnce'
  BY <1>1, QuietOnce DEF ReadInv
<1>4. AnswerBacked' /\ ReplacedNotRead'
  BY ZenonT(60), <1>1 DEF ReadInv, AnswerBacked, Complete, ReplacedNotRead, Acquired
<1> QED BY ZenonT(60), <1>2, <1>3, <1>4 DEF ReadInv

\* A get that begins, or begins again, knows nothing yet.
LEMMA StartGetFresh ==
  ASSUME NEW b, StartGet(b)
  PROVE  op' \in [Chunks -> Obtained] /\ Restarted /\ Sources /\ AnswerBacked'
BY ZenonT(60) DEF StartGet, Obtained, Restarted, Sources, AnswerBacked

\* The answer of a get is backed by what it has obtained: the verdict is drawn from
\* the chunks read, after the last of them has been.
LEMMA ReturnBacked ==
  ASSUME ReadInv, NEW st \in {"OK", "NOT_FOUND", "IO_ERROR"},
         st = "OK" => Complete /\ Most.frequency >= NumData,
         Return(st, IF st = "OK" THEN Most.version ELSE NoVersion)
  PROVE  AnswerBacked'
<1>1. answer' = [status |-> st, version |-> IF st = "OK" THEN Most.version ELSE NoVersion]
  BY DEF Return
<1>2. UNCHANGED op
  BY DEF Return
<1>3. CASE st # "OK"
  BY <1>1, <1>3 DEF AnswerBacked
<1>4. CASE st = "OK"
  <2>1. DOMAIN op = Chunks /\ NumData >= 1
    BY StripeAssumption DEF ReadInv, GetTypeOK
  <2>2. Most.frequency >= NumData /\ mostFrequentVersion(op).frequency >= 1
    <3>1. Most.frequency >= NumData
      BY <1>4
    <3>2. Most.frequency \in Int
      <4>1. CASE Stored(op) = {}
        BY SMTT(60), <4>1 DEF Most, mostFrequentVersion
      <4>2. CASE Stored(op) # {}
        BY SMTT(60), <4>2, <2>1, FrequencyType, StripeAssumption DEF Most, mostFrequentVersion, StripeSize
      <4> QED BY <4>1, <4>2
    <3> QED BY <2>1, <3>1, <3>2, StripeAssumption DEF Most
  <2>3. /\ Most.frequency = Frequency(op, Most.version)
        /\ \E i \in Stored(op) : Most.version = op[i]
    BY ZenonT(60), <2>1, <2>2, MostFrequentRead DEF Most
  <2>4. Most.version \in Version
    BY <1>4, <2>1, <2>3 DEF Stored, ReadInv, GetTypeOK, Obtained, Complete, ChunkVersion
  <2>5. answer'.version = Most.version
    BY <1>1, <1>4
  <2> QED BY ZenonT(60), <1>2, <1>4, <2>2, <2>3, <2>4, <2>5 DEF AnswerBacked, Complete
<1> QED BY <1>3, <1>4

\* The end of an execution, with a status that what was obtained so far justifies:
\* the get returns, starts over, or looks once more.
LEMMA ExecutionInv ==
  ASSUME ReadInv, NEW st \in {"OK", "NOT_FOUND", "IO_ERROR"},
         st = "OK" => Complete /\ Most.frequency >= NumData,
         Checked \/ Executed(st), UNCHANGED GetRest
  PROVE  ReadInv'
<1>1. UNCHANGED <<drive, held, late, faults, handoff, callVars, down, done>>
  BY DEF GetRest, callVars
<1>2. indicator \in BOOLEAN
  BY DEF ReadInv, TypeOK
<1>3. CASE UNCHANGED <<op, indicator>> /\ stage' # "returned"
  <2>1. op' \in [Chunks -> Obtained] /\ Sources /\ AnswerBacked'
    BY ZenonT(60), <1>3 DEF ReadInv, GetTypeOK, Sources, AnswerBacked
  <2> QED BY ZenonT(60), <1>1, <1>2, <1>3, <2>1, SourcesInv
<1>4. CASE StartGet(NotChecking) /\ UNCHANGED indicator
  BY <1>1, <1>2, <1>4, StartGetFresh, SourcesInv
<1>5. CASE Return(st, IF st = "OK" THEN Most.version ELSE NoVersion)
  <2>1. indicator' \in BOOLEAN
    BY ZenonT(30), <1>5 DEF Return
  <2>2. op' \in [Chunks -> Obtained] /\ Sources
    BY <1>5 DEF Return, ReadInv, GetTypeOK, Sources
  <2>3. AnswerBacked'
    BY <1>5, ReturnBacked
  <2> QED BY <1>1, <2>1, <2>2, <2>3, SourcesInv
<1>6. CASE Checked
  BY <1>3, <1>4, <1>6 DEF Checked
<1>7. CASE Executed(st)
  BY <1>3, <1>5, <1>7 DEF Executed
<1> QED BY <1>6, <1>7

\* Every step of a get keeps the invariant.
LEMMA GetStepInv == ReadInv /\ (Get \/ GetStep) => ReadInv'
<1> SUFFICES ASSUME ReadInv, Get \/ GetStep PROVE ReadInv'
  OBVIOUS
<1> USE DEF GetRest, driveVars, markers, callVars
<1>0. indicator \in BOOLEAN /\ op \in [Chunks -> Obtained] /\ drive \in [Chunks -> ChunkVersion]
  BY DEF ReadInv, TypeOK, GetTypeOK
<1>1. CASE Get
  <2>1. StartGet(NotChecking) /\ done' = {c \in Calls : Returned(c, "OK")}
    BY <1>1 DEF Get
  <2>2. UNCHANGED <<drive, held, late, faults, handoff, callVars, down, indicator>>
    BY <1>1 DEF Get
  <2> QED BY ZenonT(60), <1>0, <2>1, <2>2, StartGetFresh, SourcesInv
<1>2. ASSUME NEW i \in Chunks, Fetch(i) PROVE ReadInv'
  <2>1. UNCHANGED <<drive, held, late, faults, handoff, callVars, down, indicator, done>>
    BY ZenonT(60), <1>2 DEF Fetch
  <2>2. op' \in [Chunks -> Obtained] /\ Sources
    BY <1>0, <1>2 DEF Fetch, Sources, Obtained
  <2>3. AnswerBacked'
    BY <1>2 DEF Fetch, ReadInv, AnswerBacked, Complete
  <2> QED BY ZenonT(60), <1>0, <2>1, <2>2, <2>3, SourcesInv
<1>3. CASE Succeed
  <2>1. Outcome \in {"OK", "NOT_FOUND", "IO_ERROR"} /\ (Outcome = "OK" => Most.frequency >= NumData)
    BY DEF Outcome
  <2>2. Complete /\ (Checked \/ Executed(Outcome)) /\ UNCHANGED GetRest
    BY <1>3 DEF Succeed
  <2> QED BY <2>1, <2>2, ExecutionInv
<1>4. CASE Expand
  <2>1. UNCHANGED <<drive, held, late, faults, handoff, callVars, down, indicator, done>>
    BY <1>4 DEF Expand
  <2>2. op' = [i \in Chunks |-> IF stage = "data" /\ i \notin DataChunks THEN "PENDING" ELSE op[i]]
    BY <1>4 DEF Expand
  <2>3. op' \in [Chunks -> Obtained] /\ Sources
    BY <1>0, <2>2 DEF Sources, Obtained
  <2>4. AnswerBacked'
    BY <1>4 DEF Expand, AnswerBacked
  <2> QED BY ZenonT(60), <1>0, <2>1, <2>3, <2>4, SourcesInv
<1>5. CASE InsertHandoffChunks
  <2>1. UNCHANGED <<drive, held, late, faults, handoff, callVars, down, indicator, done>>
    BY ZenonT(60), <1>5 DEF InsertHandoffChunks
  <2>2. op' = [i \in Chunks |-> IF i \in Handoffs(Most.version) THEN Most.version ELSE op[i]]
    BY ZenonT(60), <1>5 DEF InsertHandoffChunks
  <2>3. \A i \in Handoffs(Most.version) : <<i, Most.version>> \in handoff
    BY DEF Handoffs
  <2>4. handoff \subseteq Chunks \X Calls
    BY DEF ReadInv, TypeOK
  <2>5. op' \in [Chunks -> Obtained] /\ Sources
    BY ZenonT(60), <1>0, <2>2, <2>3, <2>4 DEF Sources, Obtained, ChunkVersion, Version
  <2>6. AnswerBacked'
    BY ZenonT(60), <1>5 DEF InsertHandoffChunks, AnswerBacked
  <2> QED BY <1>0, <2>1, <2>5, <2>6, SourcesInv
<1>6. CASE Fail
  <2>1. (Checked \/ Executed("IO_ERROR")) /\ UNCHANGED GetRest
    BY <1>6 DEF Fail
  <2> QED BY <2>1, ExecutionInv
<1>7. CASE CheckAgain
  <2>1. StartGet(before) /\ UNCHANGED <<drive, held, late, faults, handoff, callVars, down, indicator, done>>
    BY <1>7 DEF CheckAgain
  <2> QED BY ZenonT(60), <1>0, <2>1, StartGetFresh, SourcesInv
<1>8. CASE GiveUp
  <2>1. UNCHANGED <<drive, held, late, faults, handoff, callVars, down, op, done>>
    BY <1>8 DEF GiveUp, Return
  <2>2. indicator' \in BOOLEAN
    BY ZenonT(30), <1>8 DEF GiveUp, Return
  <2>3. Sources /\ AnswerBacked'
    BY <1>8 DEF GiveUp, Return, Sources, AnswerBacked
  <2> QED BY ZenonT(60), <1>0, <2>1, <2>2, <2>3, SourcesInv
<1> QED BY ZenonT(60), <1>1, <1>2, <1>3, <1>4, <1>5, <1>6, <1>7, <1>8 DEF GetStep

\* The invariant holds throughout every behaviour with gets and outages.
LEMMA ReadInvariant == ReadSpec => []ReadInv
<1>1. ReadInv /\ [ReadNext]_<<vars, readVars>> => ReadInv'
  <2> SUFFICES ASSUME ReadInv, [ReadNext]_<<vars, readVars>> PROVE ReadInv'
    OBVIOUS
  <2>1. CASE UNCHANGED <<vars, readVars>>
    <3>1. UNCHANGED <<drive, held, late, faults, handoff, callVars, down, indicator, op, done>>
      BY <2>1 DEF vars, driveVars, markers, callVars, readVars, getVars
    <3>2. UNCHANGED <<stage, answer>>
      BY <2>1 DEF readVars, getVars
    <3>3. indicator' \in BOOLEAN /\ op' \in [Chunks -> Obtained]
      BY <3>1 DEF ReadInv, TypeOK, GetTypeOK
    <3>4. Sources /\ AnswerBacked'
      BY ZenonT(60), <3>1, <3>2 DEF ReadInv, Sources, AnswerBacked, Complete
    <3> QED BY <3>1, <3>3, <3>4, SourcesInv DEF callVars
  <2> QED BY <2>1, WriteStepInv, OutageInv, GetStepInv DEF ReadNext
<1> QED BY <1>1, ReadInitInv, PTL DEF ReadSpec

\* A get that returns a version has read it from a quorum of chunks, each of which
\* carried it, or has a handoff key of it.  Any other quorum shares a chunk with
\* that one: if it had been taken over by an acknowledged call before the get began,
\* the get could have the version only from a handoff key.
THEOREM NoStaleReadHolds == ReadSpec => []NoStaleRead
<1>1. ReadInv => NoStaleRead
  <2> SUFFICES ASSUME ReadInv, stage = "returned", answer.status = "OK", NEW c \in done,
                      Cardinality(Acquired(c)) >= NumData,
                      \A i \in Chunks : <<i, answer.version>> \notin handoff,
                      old[c] = answer.version
               PROVE  FALSE
    BY DEF NoStaleRead
  <2> DEFINE R == {i \in Chunks : op[i] = answer.version}
  <2>1. answer.version \in Version /\ Cardinality(R) >= NumData
    <3>1. DOMAIN op = Chunks
      BY ZenonT(60) DEF ReadInv, GetTypeOK
    <3> QED BY <3>1 DEF ReadInv, AnswerBacked, Frequency
  <2>2. R \in SUBSET Chunks /\ Acquired(c) \in SUBSET Chunks
    BY DEF Acquired
  <2>3. PICK i \in Chunks : i \in R /\ i \in Acquired(c)
    BY <2>1, <2>2, DisjointQuorums
  <2> QED BY ZenonT(60), <2>1, <2>3 DEF ReadInv, ReplacedNotRead
<1> QED BY <1>1, ReadInvariant, PTL

\* With gets and outages as well, every version is written to a chunk once and
\* replaced there once, and at most one of the calls conditional on a version is
\* acknowledged by a quorum of drives before any repair.
THEOREM WriteOnceWithGets == ReadSpec => [](WriteOnce /\ OneQuorumWinner)
<1>1. ReadInv => WriteOnce /\ OneQuorumWinner
  BY QuorumWinner DEF ReadInv
<1> QED BY <1>1, ReadInvariant, PTL
=============================================================================
