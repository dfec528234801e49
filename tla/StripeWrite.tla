----------------------------- MODULE StripeWrite ----------------------------
(***************************************************************************)
(* Concurrent puts and removes of one key by any number of clients.        *)
(*                                                                         *)
(* Each element of Calls is one call of KineticCluster::put or ::remove.   *)
(* A put writes the version it is named after (a fresh uuid), so versions  *)
(* are calls, plus the version Initial the key may have at the start.  The *)
(* requests of a call reach the drives one chunk at a time and interleave  *)
(* with those of other calls; a request may time out at the client and     *)
(* still be applied by its drive at any later moment; a client may crash   *)
(* between any two steps.                                                  *)
(***************************************************************************)
EXTENDS Stripe

CONSTANTS
  Calls,       \* the calls that are made
  Initial,     \* the version of the key before the first call
  AnyVersion,  \* the expected version of a write with IGNORE_VERSION
  Kinds,       \* the kinds of calls that are made: "put", "remove"
  Modes,       \* WriteModes in use: REQUIRE_SAME_VERSION, IGNORE_VERSION
  AbsentPut,   \* what a drive answers to a versioned put of an absent key
  Timely,      \* the polling period of a client outlasts the others' work
  MaxFaults,   \* bound on the number of requests that are not answered
  MaxCrashes   \* bound on the number of clients that crash

Version == Calls \cup {Initial}
ChunkVersion == Version \cup {Empty}

ASSUME WriteAssumption ==
  /\ {Initial, Empty, NoVersion, AnyVersion} \cap Calls = {}
  /\ Initial \notin {Empty, NoVersion, AnyVersion}
  /\ AnyVersion \notin {Empty, NoVersion}
  /\ Kinds \subseteq {"put", "remove"}
  /\ Modes \subseteq {"REQUIRE_SAME_VERSION", "IGNORE_VERSION"}
  /\ AbsentPut \subseteq {"VERSION_MISMATCH", "NOT_FOUND"}
  /\ Timely \in BOOLEAN
  /\ MaxFaults \in Nat
  /\ MaxCrashes \in Nat

VARIABLES
  drive,      \* the version of each chunk on its drive
  held,       \* the versions each chunk has carried so far (history)
  late,       \* requests that timed out and may still reach their drive
  indicator,  \* the indicator key of the stripe exists
  handoff,    \* the handoff keys of the stripe: <<chunk, version>>
  faults,     \* number of requests that were not answered
  pc,         \* where each call is
  kind,       \* "put" or "remove"
  old,        \* the version the call is conditional on, or AnyVersion
  status,     \* the result of each chunk operation of the call
  expect,     \* the version the last request for each chunk is conditional on
  seen,       \* the versions resolvePartialWrite has read
  final,      \* the call has detected a client crash and tries one last time
  result      \* the status the call returns

driveVars == <<drive, held, late, faults>>
markers == <<indicator, handoff>>
callVars == <<pc, kind, old, status, expect, seen, final, result>>
vars == <<driveVars, markers, callVars>>

Request == [call : Calls, chunk : Chunks, expect : ChunkVersion \cup {AnyVersion}]
ReadVersion == ChunkVersion \cup {NoVersion, "UNREAD"}

Location == {"ready", "write", "versions", "repair", "sleep", "indicator",
             "handoff", "returned", "crashed"}

TypeOK ==
  /\ drive \in [Chunks -> ChunkVersion]
  /\ held \in [Chunks -> SUBSET Version]
  /\ late \subseteq Request
  /\ indicator \in BOOLEAN
  /\ handoff \subseteq (Chunks \X Calls)
  /\ faults \in 0..MaxFaults
  /\ pc \in [Calls -> Location]
  /\ kind \in [Calls -> {"put", "remove"}]
  /\ old \in [Calls -> ChunkVersion \cup {AnyVersion}]
  /\ status \in [Calls -> [Chunks -> Status \cup {"PENDING"}]]
  /\ expect \in [Calls -> [Chunks -> ChunkVersion \cup {AnyVersion}]]
  /\ seen \in [Calls -> [Chunks -> ReadVersion]]
  /\ final \in [Calls -> BOOLEAN]
  /\ result \in [Calls -> Status]

\* The key is absent, or was completely written by an earlier call.
Init ==
  /\ \E v \in {Empty, Initial} :
        /\ drive = [i \in Chunks |-> v]
        /\ held = [i \in Chunks |-> {v} \ {Empty}]
  /\ late = {}
  /\ indicator = FALSE
  /\ handoff = {}
  /\ faults = 0
  /\ pc = [c \in Calls |-> "ready"]
  /\ kind = [c \in Calls |-> "put"]
  /\ old = [c \in Calls |-> Empty]
  /\ status = [c \in Calls |-> [i \in Chunks |-> "PENDING"]]
  /\ expect = [c \in Calls |-> [i \in Chunks |-> Empty]]
  /\ seen = [c \in Calls |-> [i \in Chunks |-> "UNREAD"]]
  /\ final = [c \in Calls |-> FALSE]
  /\ result = [c \in Calls |-> "IO_ERROR"]

-----------------------------------------------------------------------------
(***************************************************************************)
(* Starting a call.                                                        *)
(***************************************************************************)

\* The version a call leaves on a chunk; also the target of its repair.
New(c) == IF kind[c] = "put" THEN c ELSE Empty

Readable(v) == Frequency(drive, v) >= NumData

Returned(c, s) == pc[c] = "returned" /\ result[c] = s

\* The versions a client can have learned: from a put that returned OK, from
\* a get of a readable stripe, or the version the key had at the start.
Known ==
  {Initial} \cup {v \in Calls : kind[v] = "put" /\ Returned(v, "OK")}
            \cup {v \in Calls : Readable(v)}

\* The calls the clients make.
Admissible(k, e) ==
  /\ k \in Kinds
  /\ (IF e = AnyVersion THEN "IGNORE_VERSION" ELSE "REQUIRE_SAME_VERSION") \in Modes

Begin(c, k, e) ==
  /\ pc[c] = "ready"
  /\ pc' = [pc EXCEPT ![c] = "write"]
  /\ kind' = [kind EXCEPT ![c] = k]
  /\ old' = [old EXCEPT ![c] = e]
  /\ status' = [status EXCEPT ![c] = [i \in Chunks |-> "PENDING"]]
  /\ expect' = [expect EXCEPT ![c] = [i \in Chunks |-> e]]
  /\ UNCHANGED <<driveVars, markers, seen, final, result>>

Put(c) ==
  \E e \in Known \cup {Empty, AnyVersion} : Admissible("put", e) /\ Begin(c, "put", e)

Remove(c) ==
  \E e \in Known \cup {AnyVersion} : Admissible("remove", e) /\ Begin(c, "remove", e)

-----------------------------------------------------------------------------
(***************************************************************************)
(* The drives.                                                             *)
(***************************************************************************)

PutReply(current, e) ==
  IF e = AnyVersion \/ current = e THEN {"OK"}
  ELSE IF current = Empty THEN AbsentPut ELSE {"VERSION_MISMATCH"}

DeleteReply(current, e) ==
  IF current = Empty THEN {"NOT_FOUND"}
  ELSE IF e = AnyVersion \/ current = e THEN {"OK"} ELSE {"VERSION_MISMATCH"}

Reply(c, current, e) ==
  IF kind[c] = "put" THEN PutReply(current, e) ELSE DeleteReply(current, e)

\* The drive of chunk i applies a request of call c with reply r.
Apply(c, i, r) ==
  /\ drive' = IF r = "OK" THEN [drive EXCEPT ![i] = New(c)] ELSE drive
  /\ held' = IF r = "OK" THEN [held EXCEPT ![i] = @ \cup ({New(c)} \ {Empty})]
                         ELSE held

Executing(c) == pc[c] \in {"write", "repair"}
Pending(c, i) == Executing(c) /\ status[c][i] = "PENDING"
Finished(c) == \A i \in Chunks : status[c][i] # "PENDING"

\* Mutant: a chunk is taken to be written whatever its drive answers.
ServeAsOk(c, i) ==
  /\ Pending(c, i)
  /\ \E r \in Reply(c, drive[i], expect[c][i]) :
        /\ Apply(c, i, r)
        /\ status' = [status EXCEPT ![c][i] = "OK"]
  /\ UNCHANGED <<late, faults, markers, pc, kind, old, expect, seen, final, result>>

\* executeOperationVector: the drive serves the request and answers in time.
Serve(c, i) ==
  /\ Pending(c, i)
  /\ \E r \in Reply(c, drive[i], expect[c][i]) :
        /\ Apply(c, i, r)
        /\ status' = [status EXCEPT ![c][i] = r]
  /\ UNCHANGED <<late, faults, markers, pc, kind, old, expect, seen, final, result>>

\* executeOperationVector: the connection fails or the request times out.
\* The request may be lost, on its way, or applied with only the reply lost.
TimeOut(c, i) ==
  /\ Pending(c, i)
  /\ faults < MaxFaults
  /\ faults' = faults + 1
  /\ late' = late \cup {[call |-> c, chunk |-> i, expect |-> expect[c][i]]}
  /\ status' = [status EXCEPT ![c][i] = "IO_ERROR"]
  /\ UNCHANGED <<drive, held, markers, pc, kind, old, expect, seen, final, result>>

\* A drive serves a request nobody waits for any more.
ServeLate(q) ==
  /\ q \in late
  /\ late' = late \ {q}
  /\ \E r \in Reply(q.call, drive[q.chunk], q.expect) : Apply(q.call, q.chunk, r)
  /\ UNCHANGED <<faults, markers, callVars>>

-----------------------------------------------------------------------------
(***************************************************************************)
(* Concluding a call: StripeOperation_PUT::execute and _DEL::execute after *)
(* the results are final, and the keys do_put and do_remove write then.    *)
(***************************************************************************)

NeedsIndicator(c) ==
  IF kind[c] = "put" THEN PutNeedsIndicator(status[c])
                     ELSE DelNeedsIndicator(status[c])

Conclude(c) ==
  /\ result' = [result EXCEPT ![c] =
       IF kind[c] = "put" THEN Verdict(status[c]) ELSE Verdict(Removed(status[c]))]
  /\ pc' = [pc EXCEPT ![c] = IF NeedsIndicator(c) THEN "indicator" ELSE "returned"]

\* createSingleKey walks over the drives until one takes the key; it fails
\* only if every drive does.
PutIndicatorKey(c) ==
  /\ pc[c] = "indicator"
  /\ \/ indicator' = TRUE /\ UNCHANGED faults
     \/ /\ faults < MaxFaults
        /\ faults' = faults + 1
        /\ UNCHANGED indicator
  /\ pc' = [pc EXCEPT ![c] = IF kind[c] = "put" THEN "handoff" ELSE "returned"]
  /\ UNCHANGED <<drive, held, late, handoff, kind, old, status, expect, seen, final, result>>

\* A handoff key for every chunk that was neither written nor overwritten.
Missing(c) == {i \in Chunks : status[c][i] \notin {"OK", "VERSION_MISMATCH"}}

PutHandoffKeys(c) ==
  /\ pc[c] = "handoff"
  /\ \/ handoff' = handoff \cup (Missing(c) \X {c}) /\ UNCHANGED faults
     \/ /\ faults < MaxFaults
        /\ faults' = faults + 1
        /\ \E i \in Missing(c) : handoff' = handoff \cup ((Missing(c) \ {i}) \X {c})
  /\ pc' = [pc EXCEPT ![c] = "returned"]
  /\ UNCHANGED <<drive, held, late, indicator, kind, old, status, expect, seen, final, result>>

-----------------------------------------------------------------------------
(***************************************************************************)
(* resolvePartialWrite.                                                    *)
(***************************************************************************)

\* Mutant: version mismatches are not resolved.
PartialNever(c) == FALSE

\* Whether the first round of requests left the stripe partially written.
Partial(c) ==
  /\ With(status[c], "OK") # {}
  /\ \/ With(status[c], "VERSION_MISMATCH") # {}
     \/ kind[c] = "put" /\ With(status[c], "NOT_FOUND") # {}

StartVersions(c) ==
  /\ pc' = [pc EXCEPT ![c] = "versions"]
  /\ seen' = [seen EXCEPT ![c] = [i \in Chunks |-> "UNREAD"]]

\* All results of the first round are in.
FinishWrite(c) ==
  /\ pc[c] = "write"
  /\ Finished(c)
  /\ IF Partial(c)
       THEN StartVersions(c) /\ UNCHANGED result
       ELSE Conclude(c) /\ UNCHANGED seen
  /\ UNCHANGED <<driveVars, markers, kind, old, status, expect, final>>

\* The version of chunk i is read, or its drive does not answer.  A client that
\* loses several drives in one round of reads counts as one fault.
GetVersion(c, i) ==
  /\ pc[c] = "versions"
  /\ seen[c][i] = "UNREAD"
  /\ \/ seen' = [seen EXCEPT ![c][i] = drive[i]] /\ UNCHANGED faults
     \/ /\ \/ faults < MaxFaults /\ faults' = faults + 1
           \/ (\E j \in Chunks : seen[c][j] = NoVersion) /\ UNCHANGED faults
        /\ seen' = [seen EXCEPT ![c][i] = NoVersion]
  /\ UNCHANGED <<drive, held, late, markers, pc, kind, old, status, expect, final, result>>

AllSeen(c) == pc[c] = "versions" /\ \A i \in Chunks : seen[c][i] # "UNREAD"

\* Mutant: the chunks that have been written are written again as well.
RepairableAll(c) == {i \in Chunks : seen[c][i] # NoVersion}

\* attemptStripeRepair, first half: every chunk that ended in a version
\* mismatch is written again, conditional on the version just read from it.
Repairable(c) ==
  {i \in Chunks : status[c][i] = "VERSION_MISMATCH" /\ seen[c][i] # NoVersion}

StartRepair(c) ==
  /\ status' = [status EXCEPT ![c] =
       [i \in Chunks |-> IF i \in Repairable(c) THEN "PENDING" ELSE status[c][i]]]
  /\ expect' = [expect EXCEPT ![c] =
       [i \in Chunks |-> IF i \in Repairable(c) THEN seen[c][i] ELSE expect[c][i]]]
  /\ pc' = [pc EXCEPT ![c] = "repair"]

\* "version is not in stripe at all": nothing left to do; else poll again.
SleepOrConclude(c) ==
  IF Positions(seen[c], New(c)) = {}
    THEN Conclude(c)
    ELSE pc' = [pc EXCEPT ![c] = "sleep"] /\ UNCHANGED result

\* Mutant: every client repairs at once, whoever is ahead.
RepairAtOnce(c) ==
  /\ AllSeen(c)
  /\ StartRepair(c)
  /\ UNCHANGED <<driveVars, markers, kind, old, seen, final, result>>

\* It is this call's turn to repair the stripe, or its last attempt.
Repair(c) ==
  /\ AllSeen(c)
  /\ final[c] \/ RepairTurn(seen[c]) = New(c)
  /\ StartRepair(c)
  /\ UNCHANGED <<driveVars, markers, kind, old, seen, final, result>>

\* It is another call's turn.
Yield(c) ==
  /\ AllSeen(c)
  /\ ~final[c]
  /\ RepairTurn(seen[c]) \notin {New(c), NoVersion}
  /\ SleepOrConclude(c)
  /\ UNCHANGED <<driveVars, markers, kind, old, status, expect, seen, final>>

\* No version could be read: most_frequent.version is a null pointer, which
\* the comparison with the target version dereferences.
NullVersion(c) ==
  /\ AllSeen(c)
  /\ ~final[c]
  /\ RepairTurn(seen[c]) = NoVersion
  /\ pc' = [pc EXCEPT ![c] = "crashed"]
  /\ UNCHANGED <<driveVars, markers, kind, old, status, expect, seen, final, result>>

\* attemptStripeRepair, second half.
FinishRepair(c) ==
  /\ pc[c] = "repair"
  /\ Finished(c)
  /\ IF final[c] \/ With(status[c], "VERSION_MISMATCH") = {}
       THEN Conclude(c)
       ELSE SleepOrConclude(c)
  /\ UNCHANGED <<driveVars, markers, kind, old, status, expect, seen, final>>

Poll(c) ==
  /\ pc[c] = "sleep"
  /\ StartVersions(c)
  /\ UNCHANGED <<driveVars, markers, kind, old, status, expect, final, result>>

Position(c) == CHOOSE i \in Positions(seen[c], New(c)) :
                 \A j \in Positions(seen[c], New(c)) : i <= j

\* Mutant: the end of the polling period starts another one.
ExpireAgain(c) ==
  /\ pc[c] = "sleep"
  /\ StartVersions(c)
  /\ UNCHANGED <<driveVars, markers, kind, old, status, expect, final, result>>

\* The polling period, timeout * (position + 1), is over: "Client crash
\* detected".  Under Timely the period is long against the work of the other
\* clients: when it ends they have stopped, or wait at a higher position, since
\* before the last poll.
Expire(c) ==
  /\ pc[c] = "sleep"
  /\ Timely => /\ seen[c] = drive
               /\ \A d \in Calls \ {c} :
                    \/ pc[d] \in {"ready", "returned", "crashed"}
                    \/ pc[d] = "sleep" /\ Position(c) <= Position(d)
  /\ StartVersions(c)
  /\ final' = [final EXCEPT ![c] = TRUE]
  /\ UNCHANGED <<driveVars, markers, kind, old, status, expect, result>>

\* The client process dies; requests it has sent may still arrive.
Crash(c) ==
  /\ pc[c] \notin {"ready", "returned", "crashed"}
  /\ Cardinality({d \in Calls : pc[d] = "crashed"}) < MaxCrashes
  /\ late' = late \cup {[call |-> c, chunk |-> i, expect |-> expect[c][i]] :
                          i \in {j \in Chunks : Pending(c, j)}}
  /\ pc' = [pc EXCEPT ![c] = "crashed"]
  /\ UNCHANGED <<drive, held, faults, markers, kind, old, status, expect, seen, final, result>>

-----------------------------------------------------------------------------
Step(c) ==
  \/ \E i \in Chunks : Serve(c, i) \/ GetVersion(c, i)
  \/ FinishWrite(c) \/ Repair(c) \/ Yield(c) \/ NullVersion(c)
  \/ FinishRepair(c) \/ PutIndicatorKey(c) \/ PutHandoffKeys(c)

Next ==
  \/ \E c \in Calls : \/ Put(c) \/ Remove(c) \/ Step(c) \/ Poll(c) \/ Expire(c)
                      \/ Crash(c)
                      \/ \E i \in Chunks : TimeOut(c, i)
  \/ \E q \in late : ServeLate(q)

Spec == Init /\ [][Next]_vars

-----------------------------------------------------------------------------
(***************************************************************************)
(* Properties.                                                             *)
(***************************************************************************)

\* A chunk never returns to a version it has carried before: neither a late
\* request nor a repair brings back what has been overwritten or removed.
NoResurrection ==
  [][\A i \in Chunks :
       drive'[i] \notin {drive[i], Empty} => drive'[i] \notin held[i]]_vars

\* Why: once a chunk has carried the version of a put, that put has no request
\* for the chunk any more, neither waiting for its answer nor timed out.
WrittenOnce ==
  \A c \in Calls, i \in Chunks : c \in held[i] =>
    /\ kind[c] = "put"
    /\ pc[c] # "ready"
    /\ pc[c] = "crashed" \/ status[c][i] \in {"OK", "IO_ERROR"}
    /\ \A q \in late : ~ (q.call = c /\ q.chunk = i)

\* A call has at most one request per chunk under way.
LateOnce ==
  \A q \in late :
    /\ pc[q.call] # "ready"
    /\ pc[q.call] = "crashed" \/ status[q.call][q.chunk] = "IO_ERROR"
    /\ \A r \in late : r.call = q.call /\ r.chunk = q.chunk => r = q

\* What a chunk carries is in its history.
Recorded == \A i \in Chunks : drive[i] # Empty => drive[i] \in held[i]

\* A version that a conditional write has replaced is gone from the chunk.
Superseded ==
  \A c \in Calls, i \in Chunks :
    status[c][i] = "OK" /\ expect[c][i] \in Version =>
      expect[c][i] \in held[i] /\ drive[i] # expect[c][i]

\* Each version of a chunk is replaced by one call only.
HandedOnce ==
  \A c, d \in Calls, i \in Chunks :
    (/\ c # d /\ expect[c][i] = expect[d][i]
     /\ status[c][i] = "OK" /\ status[d][i] = "OK") => expect[c][i] \notin Version

\* The drives' version check makes each chunk a chain of versions in which
\* every version is written once and replaced once, however the requests of
\* concurrent clients interleave, time out and arrive late.
WriteOnce == WrittenOnce /\ LateOnce /\ Recorded /\ Superseded /\ HandedOnce

\* The chunks a call has changed with the condition its caller asked for.
Acquired(c) == {i \in Chunks : status[c][i] = "OK" /\ expect[c][i] = old[c]}

Rivals(c, d) == c # d /\ old[c] = old[d] /\ old[c] \in Version

\* Of all calls conditional on the same version, at most one is acknowledged
\* by a quorum of drives before any repair: the drives hand each chunk to one
\* of them, whatever times out, arrives late or crashes.
OneQuorumWinner ==
  \A c, d \in Calls : Rivals(c, d) =>
    ~ (Cardinality(Acquired(c)) >= NumData /\ Cardinality(Acquired(d)) >= NumData)

\* "Put is conditional on the supplied version existing on the cluster": two
\* calls conditional on the same version do not both return OK if one of them
\* is a put and all requests are answered.  (Where keys are removed, absence may
\* be found any number of times.)
AtMostOneWinner ==
  \A c, d \in Calls :
    (/\ c # d /\ Returned(c, "OK") /\ Returned(d, "OK") /\ faults = 0
     /\ "put" \in {kind[c], kind[d]}
     /\ old[c] \in Version \/ (old[c] = Empty /\ "remove" \notin Kinds)) => old[c] # old[d]

AtRest == late = {} /\ \A c \in Calls : pc[c] \in {"ready", "returned"}

PutsAnswered == faults = 0 /\ \A c \in Calls : kind[c] = "put"

\* When every call was a put, has returned, and had every request answered, the
\* chunks of the stripe agree, and a put that reported failure has left nothing of
\* its value: resolvePartialWrite leaves no partial write behind.
RestAligned ==
  AtRest /\ PutsAnswered =>
    /\ \A i, j \in Chunks : drive[i] = drive[j]
    /\ \A c \in Calls : Returned(c, "OK") \/ \A i \in Chunks : drive[i] # c

\* An acknowledged put stays readable until a call is made that is conditional
\* on its version, or on none, as long as its rivals get answers.
AcknowledgedReadable ==
  \A c \in Calls :
    (/\ kind[c] = "put" /\ Returned(c, "OK")
     /\ faults = 0 \/ \A d \in Calls \ {c} : pc[d] = "ready"
     /\ \A d \in Calls : pc[d] # "ready" => old[d] \notin {c, AnyVersion})
      => Readable(c)
=============================================================================
