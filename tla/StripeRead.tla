------------------------------ MODULE StripeRead ----------------------------
(***************************************************************************)
(* A get of the key while calls of StripeWrite are under way, with drives  *)
(* going down and coming back, at most NumParity of them at any time.      *)
(*                                                                         *)
(* StripeOperation_GET reads the data chunks; if they do not settle the    *)
(* result it reads the parity chunks as well, and if that is not enough    *)
(* either it replaces chunks by handoff keys of the most frequent version. *)
(* KineticCluster::do_get repeats a get that found a mix of versions for   *)
(* as long as the mix keeps changing.                                      *)
(***************************************************************************)
EXTENDS StripeWrite

CONSTANT MaxOutages   \* bound on the number of changes to the set of drives down

\* "PENDING" stands for the version of a chunk that has not been read yet.
ASSUME ReadAssumption ==
  MaxOutages \in Nat /\ "PENDING" \notin ChunkVersion \cup {NoVersion}

VARIABLES
  down,     \* the drives that do not answer at present
  hidden,   \* the handoff keys that are on drives that are down
  outages,  \* number of changes to down
  stage,    \* where the get is
  op,       \* the version the get has obtained of each chunk, if any
  before,   \* the most frequent version of the get being checked, or NotChecking
  mixed,    \* need_indicator of the get
  done,     \* the calls that had returned OK when the get began
  answer    \* the status and version the get returns

getVars == <<stage, op, before, mixed, done, answer>>
readVars == <<down, hidden, outages, getVars>>

NotChecking == [version |-> NoVersion, frequency |-> -1]

ReadInit ==
  /\ Init
  /\ down = {}
  /\ hidden = {}
  /\ outages = 0
  /\ stage = "idle"
  /\ op = [i \in Chunks |-> NoVersion]
  /\ before = NotChecking
  /\ mixed = FALSE
  /\ done = {}
  /\ answer = [status |-> "IO_ERROR", version |-> NoVersion]

-----------------------------------------------------------------------------
(***************************************************************************)
(* One execution of a StripeOperation_GET.                                 *)
(***************************************************************************)

StartGet(b) ==
  /\ stage' = "data"
  /\ op' = [i \in Chunks |-> IF i \in DataChunks THEN "PENDING" ELSE NoVersion]
  /\ before' = b

\* What the operations issued so far have obtained.
Most == mostFrequentVersion(op)

\* Mutant: one chunk less than nData is enough.
OutcomeEarly ==
  IF Most.frequency >= NumData - 1 THEN "OK"
  ELSE IF Frequency(op, Empty) >= NumData THEN "NOT_FOUND" ELSE "IO_ERROR"

\* The status do_execute returns: IO_ERROR if it throws.
Outcome ==
  IF Most.frequency >= NumData THEN "OK"
  ELSE IF Frequency(op, Empty) >= NumData THEN "NOT_FOUND" ELSE "IO_ERROR"

\* "Indicator should be written if chunk versions are not aligned."
Misaligned == Cardinality(Stored(op)) > Most.frequency

Checking == before # NotChecking

\* Another client has been at work since the get that is being checked.
Changed == Most # before

Return(s, v) ==
  /\ stage' = "returned"
  /\ answer' = [status |-> s, version |-> v]
  /\ indicator' = (indicator \/ mixed')
  /\ UNCHANGED <<op, before>>

\* do_get after a check for concurrent writes has been executed.  A get that
\* starts over forgets what it has found so far.
Checked ==
  /\ Checking
  /\ IF Changed THEN StartGet(NotChecking) /\ mixed' = FALSE
                ELSE stage' = "loop" /\ UNCHANGED <<op, before, mixed>>
  /\ UNCHANGED <<answer, indicator>>

\* do_get after its own execution has ended with status s.
Executed(s) ==
  /\ ~ Checking
  /\ mixed' = (mixed \/ Misaligned)
  /\ IF s = "IO_ERROR" /\ Most.frequency > 0
       THEN /\ stage' = "wait"
            /\ before' = Most
            /\ UNCHANGED <<op, answer, indicator>>
       ELSE Return(s, IF s = "OK" THEN Most.version ELSE NoVersion)

GetRest == <<drive, held, late, faults, handoff, callVars, down, hidden, outages, done>>

Idle(c) == pc[c] \in {"ready", "returned", "crashed"}

Get ==
  /\ stage = "idle"
  /\ StartGet(NotChecking)
  /\ done' = {c \in Calls : Returned(c, "OK")}
  /\ UNCHANGED <<driveVars, markers, callVars, down, hidden, outages, mixed, answer>>

\* executeOperationVector: one chunk is read, or its drive does not answer.
Fetch(i) ==
  /\ op[i] = "PENDING"
  /\ op' = [op EXCEPT ![i] = IF i \in down THEN NoVersion ELSE drive[i]]
  /\ UNCHANGED <<driveVars, markers, callVars, down, hidden, outages, stage, before,
                 mixed, done, answer>>

Complete == \A i \in Chunks : op[i] # "PENDING"

\* execute: the operations issued so far settle the result.
Succeed ==
  /\ stage \in {"data", "parity", "last"} /\ Complete
  /\ Outcome # "IO_ERROR"
  /\ Checked \/ Executed(Outcome)
  /\ UNCHANGED GetRest

\* execute: they do not; the next chunks are asked for.  Chunks that could not
\* be read are not tried again.
Expand ==
  /\ stage \in {"data", "parity"} /\ Complete
  /\ Outcome = "IO_ERROR"
  /\ stage' = IF stage = "data" THEN "parity" ELSE "handoff"
  /\ op' = [i \in Chunks |-> IF stage = "data" /\ i \notin DataChunks THEN "PENDING" ELSE op[i]]
  /\ mixed' = (mixed \/ (~ Checking /\ Misaligned))
  /\ UNCHANGED <<GetRest, before, answer, indicator>>

\* The chunks of version v for which a handoff key is found.
Handoffs(v) == {i \in Chunks : <<i, v>> \in handoff \ hidden}

\* insertHandoffChunks: the handoff keys replace what was read before.
InsertHandoffChunks ==
  /\ stage = "handoff"
  /\ Handoffs(Most.version) # {}
  /\ op' = [i \in Chunks |-> IF i \in Handoffs(Most.version) THEN Most.version ELSE op[i]]
  /\ stage' = "last"
  /\ UNCHANGED <<GetRest, before, mixed, answer, indicator>>

\* execute: there are no handoff keys, or they do not settle the result either.
Fail ==
  /\ \/ stage = "handoff" /\ Handoffs(Most.version) = {}
     \/ stage = "last" /\ Outcome = "IO_ERROR"
  /\ Checked \/ Executed("IO_ERROR")
  /\ UNCHANGED GetRest

-----------------------------------------------------------------------------
(***************************************************************************)
(* The check for concurrent writes in do_get.                              *)
(***************************************************************************)

CheckAgain ==
  /\ stage \in {"wait", "loop"}
  /\ StartGet(before)
  /\ UNCHANGED <<GetRest, indicator, mixed, answer>>

\* "No concurrent write": the timeout is over and nothing has changed.
GiveUp ==
  /\ stage = "loop"
  /\ UNCHANGED <<GetRest, mixed>>
  /\ Return("IO_ERROR", NoVersion)

-----------------------------------------------------------------------------
(***************************************************************************)
(* The writers, whose requests to a drive that is down time out.           *)
(***************************************************************************)

\* The next step of a call that is under way.
CallStep(c) ==
  \/ \E i \in down : TimeOut(c, i)
  \/ \E i \in Chunks \ down : Serve(c, i)
  \/ \E i \in Chunks : GetVersion(c, i) /\ (seen'[c][i] = NoVersion) = (i \in down)
  \/ FinishWrite(c) \/ Repair(c) \/ Yield(c) \/ NullVersion(c) \/ FinishRepair(c)
  \/ (PutIndicatorKey(c) \/ PutHandoffKeys(c)) /\ UNCHANGED faults

WriteStep ==
  /\ \/ \E c \in Calls : \/ Put(c) \/ Remove(c)
                         \/ CallStep(c) \/ Poll(c) \/ Expire(c)
     \/ \E q \in late : q.chunk \notin down /\ ServeLate(q)
  /\ UNCHANGED readVars

\* Drives fail and come back.
Outage ==
  /\ outages < MaxOutages
  /\ \E S \in SUBSET Chunks : Cardinality(S) <= NumParity /\ S # down /\ down' = S
  /\ hidden' \in IF down' = {} THEN {{}} ELSE SUBSET handoff
  /\ outages' = outages + 1
  /\ UNCHANGED <<driveVars, markers, callVars, getVars>>

GetStep ==
  \/ \E i \in Chunks : Fetch(i)
  \/ Succeed \/ Expand \/ InsertHandoffChunks \/ Fail
  \/ CheckAgain \/ GiveUp

ReadNext == Get \/ GetStep \/ WriteStep \/ Outage

ReadSpec == ReadInit /\ [][ReadNext]_<<vars, readVars>>

\* A call or a get that is under way takes its next step; the wall clock ends
\* the polling of a call and the check for concurrent writes of a get.
ReadFairness ==
  /\ \A c \in Calls : /\ WF_<<vars, readVars>>((CallStep(c) \/ Poll(c)) /\ UNCHANGED readVars)
                      /\ SF_<<vars, readVars>>(Expire(c) /\ UNCHANGED readVars)
  /\ WF_<<vars, readVars>>(GetStep)
  /\ SF_<<vars, readVars>>(GiveUp)

-----------------------------------------------------------------------------
\* A get never returns a version that a quorum of drives had replaced for an
\* acknowledged call before the get began, unless there are handoff keys of it:
\* insertHandoffChunks puts them over chunks that carry a newer version.
NoStaleRead ==
  stage = "returned" /\ answer.status = "OK" =>
    \A c \in done :
      (/\ Cardinality(Acquired(c)) >= NumData
       /\ \A i \in Chunks : <<i, answer.version>> \notin handoff)
        => old[c] # answer.version

\* An acknowledged put that no call was ever made against is what a get returns,
\* as long as its rivals get answers.  The get may report an I/O error, but neither
\* another version nor that the key is not there.
AcknowledgedIsRead ==
  \A c \in done :
    (/\ kind[c] = "put" /\ stage = "returned" /\ answer.status # "IO_ERROR"
     /\ faults = 0 \/ \A d \in Calls \ {c} : pc[d] = "ready"
     /\ \A d \in Calls : pc[d] # "ready" => old[d] \notin {c, AnyVersion})
      => answer.status = "OK" /\ answer.version = c

\* Every call and every get returns, or its client crashes: polls end when the
\* stripe is settled or another client is found to have crashed, and the checks
\* for concurrent writes end once writes do.
EveryoneReturns == []<>(stage \in {"idle", "returned"} /\ \A c \in Calls : Idle(c))
=============================================================================
