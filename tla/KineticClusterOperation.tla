---------------------- MODULE KineticClusterOperation -----------------------
(***************************************************************************)
(* Clients that execute vectors of asynchronous operations, one operation  *)
(* per drive, over connections they share.                                 *)
(*                                                                         *)
(* executeOperationVector issues the operations that are not finished,     *)
(* waits until all of them are or the timeout is over, and gives up on the *)
(* rest.  An operation object may be executed again after some of its      *)
(* callbacks have been renewed, as attemptStripeRepair does.  Answers come *)
(* in through whichever thread runs the connection.                        *)
(***************************************************************************)
EXTENDS KineticAutoConnection

CONSTANTS
  Clients,    \* the operation objects, each used by a thread of its own
  MaxRounds   \* bound on the executions of an operation object

ASSUME OperationAssumption == IsFiniteSet(Clients) /\ MaxRounds \in Nat \ {0}

VARIABLES
  pc,           \* where the client is in executeOperationVector
  at,           \* i, the operation at which its loop is
  round,        \* number of executions of the operation object so far
  done,         \* done of the callback of each operation
  status,       \* status of the callback of each operation
  outstanding,  \* sync->outstanding
  cons,         \* cons[i], the connection the operation was issued on
  created,      \* round in which the callback of each operation was created
  handlers      \* the requests whose handlers are registered with a connection

opVars == <<pc, at, round, done, status, outstanding, cons, created, handlers>>
vars == <<conVars, opVars>>

Status == {"NO_RESULT", "OK", "VERSION_MISMATCH", "IO_ERROR"}

Handler == [client : Clients, op : Drives, con : 1..MaxConnections, created : 0..MaxRounds]

TypeOK ==
  /\ ConTypeOK
  /\ pc \in [Clients -> {"ready", "issue", "run", "timeout", "returned"}]
  /\ at \in [Clients -> 1..(NumDrives + 1)]
  /\ round \in [Clients -> 0..MaxRounds]
  /\ done \in [Clients -> [Drives -> BOOLEAN]]
  /\ status \in [Clients -> [Drives -> Status]]
  /\ outstanding \in [Clients -> 0..NumDrives]
  /\ cons \in [Clients -> [Drives -> 0..MaxConnections]]
  /\ created \in [Clients -> [Drives -> 0..MaxRounds]]
  /\ handlers \subseteq Handler

\* The constructor of the operation: one callback per operation.
Init ==
  /\ ConInit
  /\ pc = [c \in Clients |-> "ready"]
  /\ at = [c \in Clients |-> 1]
  /\ round = [c \in Clients |-> 0]
  /\ done = [c \in Clients |-> [i \in Drives |-> FALSE]]
  /\ status = [c \in Clients |-> [i \in Drives |-> "NO_RESULT"]]
  /\ outstanding = [c \in Clients |-> NumDrives]
  /\ cons = [c \in Clients |-> [i \in Drives |-> 0]]
  /\ created = [c \in Clients |-> [i \in Drives |-> 0]]
  /\ handlers = {}

-----------------------------------------------------------------------------
\* Mutant: a callback accepts every result.
OnResultAlways(c, i, s) ==
  /\ done' = [done EXCEPT ![c][i] = TRUE]
  /\ status' = [status EXCEPT ![c][i] = s]
  /\ outstanding' = [outstanding EXCEPT ![c] = @ - 1]

\* KineticCallback::OnResult: the first result counts.
OnResult(c, i, s) ==
  IF done[c][i]
    THEN UNCHANGED <<done, status, outstanding>>
    ELSE /\ done' = [done EXCEPT ![c][i] = TRUE]
         /\ status' = [status EXCEPT ![c][i] = s]
         /\ outstanding' = [outstanding EXCEPT ![c] = @ - 1]

Goto(c, l) == pc' = [pc EXCEPT ![c] = l]

\* A loop over the operations goes on to the first one from i that is not
\* finished, or to its end.
Seek(c, i) ==
  \E j \in i..(NumDrives + 1) :
    /\ \A k \in i..(j - 1) : done[c][k]
    /\ j \in Drives => ~ done[c][j]
    /\ at' = [at EXCEPT ![c] = j]

\* executeOperationVector begins with empty vectors of connections and handlers.
\* "Skip operations that are already finished."
Execute(c) ==
  /\ pc[c] = "ready"
  /\ round' = [round EXCEPT ![c] = @ + 1]
  /\ cons' = [cons EXCEPT ![c] = [i \in Drives |-> 0]]
  /\ Seek(c, 1)
  /\ Goto(c, "issue")
  /\ UNCHANGED <<conVars, done, status, outstanding, created, handlers>>

\* get: the first caller connects, the others wait until it has.
CallOnce(c) ==
  /\ pc[c] = "issue" /\ at[c] \in Drives
  /\ initial[at[c]] = "no"
  /\ initial' = [initial EXCEPT ![at[c]] = "running"]
  /\ UNCHANGED <<believed, recent, spawned, numthreads, opened, broken, elapses, opVars>>

\* Mutant: the operation is passed over if there is no connection.
UnavailableSilent(c, i) == UNCHANGED <<done, status, outstanding>>

\* get throws: "Connection not available."
Unavailable(c, i) == OnResult(c, i, "IO_ERROR")

\* get returns the connection, or throws.
Get(c) ==
  LET i == at[c] IN
  /\ pc[c] = "issue" /\ i \in Drives
  /\ initial[i] = "done"
  /\ IF healthy[i]
       THEN /\ cons' = [cons EXCEPT ![c][i] = connection[i]]
            /\ Goto(c, "run")
            /\ UNCHANGED <<at, done, status, outstanding, spawned, recent>>
       ELSE /\ Reconnect(i)
            /\ Unavailable(c, i)
            /\ Seek(c, i + 1)
            /\ UNCHANGED <<cons, pc>>
  /\ UNCHANGED <<believed, initial, numthreads, opened, broken, elapses, round, created, handlers>>

\* The request is handed to the connection and the connection run.
RunConnection(c) ==
  LET i == at[c] n == cons[c][i] IN
  /\ pc[c] = "run"
  /\ handlers' = handlers \cup
                   {[client |-> c, op |-> i, con |-> n, created |-> created[c][i]]}
  /\ IF n \in broken[i]
       THEN OnResult(c, i, "IO_ERROR") /\ setError(i, n)
       ELSE UNCHANGED <<believed, done, status, outstanding>>
  /\ Goto(c, "issue")
  /\ Seek(c, i + 1)
  /\ UNCHANGED <<initial, recent, spawned, numthreads, opened, broken, elapses, round, cons, created>>

\* Every operation has been issued and wait_until has returned.
WaitOver(c) ==
  /\ pc[c] = "issue" /\ at[c] = NumDrives + 1
  /\ Goto(c, "timeout")
  /\ Seek(c, 1)
  /\ UNCHANGED <<conVars, round, done, status, outstanding, cons, created, handlers>>

\* wait_until returns because nothing is outstanding.
AllFinished(c) == outstanding[c] = 0 /\ WaitOver(c)

\* Mutant: wait until everything has been answered.
DeadlineNever(c) == FALSE

\* wait_until returns because the timeout is over.
Deadline(c) == outstanding[c] # 0 /\ WaitOver(c)

\* Mutant: the handler stays registered.
RemoveHandlerNot(c, i) == UNCHANGED handlers

\* cons[i]->RemoveHandler: the connection's lock keeps answers out meanwhile.
RemoveHandler(c, i) ==
  handlers' = {h \in handlers : ~ (h.client = c /\ h.op = i /\ h.con = cons[c][i])}

\* "Timeout any unfinished request."  An answer may have come in since the loop
\* has found the operation unfinished.
TimeOut(c) ==
  /\ pc[c] = "timeout" /\ at[c] \in Drives
  /\ RemoveHandler(c, at[c])
  /\ OnResult(c, at[c], "IO_ERROR")
  /\ Seek(c, at[c] + 1)
  /\ UNCHANGED <<conVars, pc, round, cons, created>>

-----------------------------------------------------------------------------
\* attemptStripeRepair: the operations that get a new callback.
Renewable(c, i) == status[c][i] = "VERSION_MISMATCH"

\* fillOperation for these operations, before the vector is executed again.
Renew(c) ==
  LET New == {i \in Drives : Renewable(c, i)} IN
  /\ pc[c] = "timeout" /\ at[c] = NumDrives + 1
  /\ round[c] < MaxRounds /\ New # {}
  /\ done' = [done EXCEPT ![c] = [i \in Drives |-> @[i] /\ i \notin New]]
  /\ status' = [status EXCEPT ![c] = [i \in Drives |-> IF i \in New THEN "NO_RESULT" ELSE @[i]]]
  /\ created' = [created EXCEPT ![c] = [i \in Drives |-> IF i \in New THEN round[c] ELSE @[i]]]
  /\ outstanding' = [outstanding EXCEPT ![c] = @ + Cardinality(New)]
  /\ Goto(c, "ready")
  /\ UNCHANGED <<conVars, at, round, cons, handlers>>

\* The client is done with the operation.
Return(c) ==
  /\ pc[c] = "timeout" /\ at[c] = NumDrives + 1
  /\ Goto(c, "returned")
  /\ UNCHANGED <<conVars, at, round, done, status, outstanding, cons, created, handlers>>

\* Some thread runs connection n to drive d: the listener, if it is the current
\* one, or a client that has just obtained it.
Running(d, n) ==
  \/ healthy[d] /\ connection[d] = n
  \/ \E c \in Clients : pc[c] = "run" /\ at[c] = d /\ cons[c][d] = n

\* The drive's answer to a request arrives.  A callback that has been replaced
\* is no longer part of the operation.
Answer(h) ==
  /\ h.con \notin broken[h.op] /\ Running(h.op, h.con)
  /\ handlers' = handlers \ {h}
  /\ IF h.created = created[h.client][h.op]
       THEN \E s \in {"OK", "VERSION_MISMATCH"} : OnResult(h.client, h.op, s)
       ELSE UNCHANGED <<done, status, outstanding>>
  /\ UNCHANGED <<conVars, pc, at, round, cons, created>>

Step(c) ==
  \/ Execute(c) \/ CallOnce(c) \/ Get(c) \/ RunConnection(c)
  \/ AllFinished(c) \/ Deadline(c) \/ TimeOut(c) \/ Renew(c) \/ Return(c)

Next ==
  \/ \E c \in Clients : Step(c)
  \/ \E h \in handlers : Answer(h)
  \/ ConNext /\ UNCHANGED opVars

Spec == Init /\ [][Next]_vars

\* Clients and threads that connect keep running.
Fairness ==
  /\ \A c \in Clients : WF_vars(Step(c))
  /\ \A d \in Drives : WF_vars(InitialConnect(d) /\ UNCHANGED opVars)

FairSpec == Spec /\ Fairness

-----------------------------------------------------------------------------
\* outstanding is the number of callbacks without a result, so that wait_until
\* returns as soon as every operation has one.
OutstandingExact ==
  \A c \in Clients : outstanding[c] = Cardinality({i \in Drives : ~ done[c][i]})

\* The result of a callback never changes: neither does a late answer replace
\* a timeout nor a timeout the answer that came in just before it.
FirstResultCounts ==
  [][\A c \in Clients, i \in Drives :
       done[c][i] /\ created'[c][i] = created[c][i] => status'[c][i] = status[c][i]]_vars

\* The timeout loop only removes handlers of operations that were issued in
\* this execution: it never dereferences an empty cons[i].
IssuedIfUnfinished ==
  \A c \in Clients : pc[c] = "timeout" =>
    \A i \in Drives : ~ done[c][i] => cons[c][i] # 0

\* Once the timeout loop is over no answer can reach the operation: the callbacks
\* store what they are told before they look at done, and the client reads it.
QuietAfterExecution ==
  \A h \in handlers :
    (\/ pc[h.client] \in {"ready", "returned"}
     \/ pc[h.client] = "timeout" /\ at[h.client] > h.op) => h.con \in broken[h.op]

\* Every execution ends, and with it every operation.
EveryOperationReturns == \A c \in Clients : <>(pc[c] = "returned")
=============================================================================
