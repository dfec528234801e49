---------------------------- MODULE StripeRepair ----------------------------
(***************************************************************************)
(* KineticAdminCluster::applyOperation on the key: its stripe is scanned,  *)
(* repaired or reset while clients work on it and drives come and go.      *)
(*                                                                         *)
(* A repair reads the versions of all chunks, then the chunks themselves,  *)
(* writes the chunks that differ, each conditional on the version just     *)
(* read (quick_repair), falls back to an ordinary put or remove, and at    *)
(* last deletes the handoff keys and the indicator key of the stripe.      *)
(***************************************************************************)
EXTENDS StripeRead

CONSTANTS
  AdminCall,   \* the call of put or remove the operation may make
  Operations,  \* the operations under consideration: SCAN, REPAIR, RESET
  Targets      \* their targets: "INDICATOR", or "KEY" for a type of keys

ASSUME RepairAssumption ==
  /\ AdminCall \in Calls
  /\ Operations \subseteq {"SCAN", "REPAIR", "RESET"}
  /\ Targets \subseteq {"INDICATOR", "KEY"}

VARIABLES
  admin,      \* where applyOperation is
  operation,  \* the operation and its target
  written,    \* the results of quick_repair's chunk operations
  stray,      \* writes of quick_repair that timed out and may still arrive
  counted,    \* the count of KeyCountsInternal the key has gone into
  quiet       \* nothing but the operation has happened since it began (history)

adminVars == <<admin, operation, written, stray, counted, quiet>>
repairVars == <<vars, readVars, adminVars>>

RepairInit ==
  /\ ReadInit
  /\ admin = "idle"
  /\ operation = [name |-> "SCAN", target |-> "KEY"]
  /\ written = [i \in Chunks |-> "OK"]
  /\ stray = {}
  /\ counted = "none"
  /\ quiet = FALSE

-----------------------------------------------------------------------------
(***************************************************************************)
(* The steps of applyOperation.                                            *)
(***************************************************************************)

\* The operation itself only reads, or only ends.
Bystanders == <<driveVars, markers, callVars, down, hidden, outages, stage, before,
                mixed, done, answer, operation, stray, quiet>>

\* A StripeOperation_GET that asks for all chunks at once.
ReadAll == op' = [i \in Chunks |-> "PENDING"]

End(count) ==
  /\ counted' = count
  /\ admin' = "returned"

\* doOperation found the key, or its indicator key, in a range of keys.
Listed(target) ==
  IF target = "INDICATOR" THEN indicator
                          ELSE \E i \in Chunks \ down : drive[i] # Empty

\* applyOperation takes up the key.
applyOperation(name, target) ==
  /\ admin = "idle"
  /\ Listed(target)
  /\ operation' = [name |-> name, target |-> target]
  /\ quiet' = (down = {} /\ \A c \in Calls : Idle(c))
  /\ IF name = "RESET"
       THEN /\ UNCHANGED op
            /\ IF target = "INDICATOR"
                 THEN admin' = "markers" /\ UNCHANGED vars
                 ELSE admin' = "remove" /\ Begin(AdminCall, "remove", AnyVersion)
       ELSE ReadAll /\ admin' = "scan" /\ UNCHANGED vars
  /\ UNCHANGED <<down, hidden, outages, stage, before, mixed, done, answer, written,
                 stray, counted>>

\* The drives that returned a result, be it that the key is not there.
ValidResults == Cardinality({i \in Chunks : op[i] # NoVersion})

\* scanKey: the key does not require action, requires repair or removal, or is
\* "unfixable".
Fine == Most.frequency = ValidResults /\ ValidResults >= NumData
\* Mutant: all chunks but the redundant ones plus one have to agree.
NeedActionStrict ==
  ~ Fine /\ (Most.frequency > NumData \/ Frequency(op, Empty) > NumData)

NeedAction ==
  ~ Fine /\ (Most.frequency >= NumData \/ Frequency(op, Empty) >= NumData)

scanKey ==
  /\ admin = "scan" /\ Complete
  /\ IF ~ Fine /\ ~ NeedAction THEN End("unrepairable") /\ UNCHANGED op
     ELSE IF /\ operation.name = "REPAIR"
             /\ NeedAction \/ operation.target = "INDICATOR"
       THEN ReadAll /\ admin' = "get" /\ UNCHANGED counted
       ELSE End("none") /\ UNCHANGED op
  /\ UNCHANGED <<Bystanders, written>>

\* Mutant: nothing is written.
QuickWritesNone == {}

\* Mutant: all chunks are written, whatever version they have by now.
QuickWritesForced ==
  {[chunk |-> i, expect |-> AnyVersion, version |-> Most.version] : i \in Chunks}

\* The writes of quick_repair: the chunks that were read and differ are brought
\* to the version of the stripe, if they still are as they were read.
QuickWrites ==
  {[chunk |-> i, expect |-> op[i], version |-> Most.version] :
     i \in {j \in Chunks : op[j] \notin {NoVersion, Most.version}}}

\* repairKey when its get has ended with status s.
Got(s) ==
  \/ /\ s = "OK"
     /\ written' = [i \in Chunks |-> IF \E w \in QuickWrites : w.chunk = i
                                        THEN "PENDING" ELSE "OK"]
     /\ admin' = "quick"
     /\ UNCHANGED <<vars, op, counted>>
  \/ /\ s = "NOT_FOUND"
     /\ Begin(AdminCall, "remove", AnyVersion)
     /\ admin' = "remove"
     /\ UNCHANGED <<op, written, counted>>

GetFails == End("unrepairable") /\ UNCHANGED <<vars, op, written>>

\* repairKey's get has read all chunks; if need be it looks for handoff keys.
repairKey ==
  /\ \/ /\ admin = "get" /\ Complete
        /\ \/ Got(Outcome)
           \/ /\ Outcome = "IO_ERROR"
              /\ IF Handoffs(Most.version) = {} THEN GetFails
                 ELSE /\ op' = [i \in Chunks |-> IF i \in Handoffs(Most.version)
                                                   THEN Most.version ELSE op[i]]
                      /\ admin' = "handoffs"
                      /\ UNCHANGED <<vars, written, counted>>
     \/ /\ admin = "handoffs"
        /\ Got(Outcome) \/ (Outcome = "IO_ERROR" /\ GetFails)
  /\ UNCHANGED <<down, hidden, outages, stage, before, mixed, done, answer, operation,
                 stray, quiet>>

\* The drive of w applies it if the chunk is still the one that was read.
ApplyWrite(w, r) ==
  /\ drive' = IF r = "OK" THEN [drive EXCEPT ![w.chunk] = w.version] ELSE drive
  /\ held' = IF r = "OK" THEN [held EXCEPT ![w.chunk] = @ \cup {w.version}] ELSE held

\* quick_repair: a chunk write is answered, or its drive is down.
WriteChunk(w) ==
  /\ written[w.chunk] = "PENDING"
  /\ IF w.chunk \in down
       THEN /\ written' = [written EXCEPT ![w.chunk] = "IO_ERROR"]
            /\ stray' = stray \cup {w}
            /\ UNCHANGED <<drive, held>>
       ELSE /\ \E r \in PutReply(drive[w.chunk], w.expect) :
                 /\ written' = [written EXCEPT ![w.chunk] = r]
                 /\ ApplyWrite(w, r)
            /\ UNCHANGED stray
  /\ UNCHANGED <<late, faults, markers, callVars, readVars, admin, operation, counted,
                 quiet>>

\* A drive that is up again serves a write nobody waits for any more.
ServeStray(w) ==
  /\ w \in stray /\ w.chunk \notin down
  /\ stray' = stray \ {w}
  /\ \E r \in PutReply(drive[w.chunk], w.expect) : ApplyWrite(w, r)
  /\ UNCHANGED <<late, faults, markers, callVars, readVars, admin, operation, written,
                 counted, quiet>>

\* quick_repair has all results: the key is repaired, or put as a whole.
QuickDone ==
  /\ admin = "quick"
  /\ \A i \in Chunks : written[i] # "PENDING"
  /\ IF \A i \in Chunks : written[i] = "OK"
       THEN counted' = "repaired" /\ admin' = "markers" /\ UNCHANGED vars
       ELSE /\ Begin(AdminCall, "put", Most.version)
            /\ admin' = "put" /\ UNCHANGED counted
  /\ UNCHANGED <<readVars, operation, written, stray, quiet>>

\* The put or remove of the operation has returned.
CallDone ==
  /\ admin \in {"put", "remove"}
  /\ pc[AdminCall] = "returned"
  /\ IF \/ result[AdminCall] = "OK"
        \/ /\ result[AdminCall] = "NOT_FOUND"
           /\ admin = "remove" /\ operation.name = "REPAIR"
       THEN /\ counted' = IF admin = "put" THEN "repaired" ELSE "removed"
            /\ admin' = IF operation.name = "REPAIR" THEN "markers" ELSE "returned"
       ELSE End("unrepairable")
  /\ UNCHANGED <<Bystanders, op, written>>

\* removeIndicatorKey: the handoff keys that are found are deleted.
RemoveHandoffKeys ==
  /\ admin = "markers"
  /\ handoff' = handoff \cap hidden
  /\ admin' = "indicator"
  /\ UNCHANGED <<driveVars, indicator, callVars, readVars, operation, written, stray,
                 counted, quiet>>

\* removeIndicatorKey: then the indicator key, which may be on a drive that is
\* down.  A RESET is about the indicator and fails unless it was deleted.
RemoveIndicatorKey ==
  /\ admin = "indicator"
  /\ indicator' \in IF down = {} THEN {FALSE} ELSE {FALSE, indicator}
  /\ admin' = "returned"
  /\ counted' = IF operation.name = "REPAIR" THEN counted
                ELSE IF indicator /\ ~ indicator' THEN "removed" ELSE "unrepairable"
  /\ UNCHANGED <<driveVars, handoff, callVars, readVars, operation, written, stray, quiet>>

-----------------------------------------------------------------------------
AdminStep ==
  \/ \E name \in Operations, target \in Targets : applyOperation(name, target)
  \/ (\E i \in Chunks : Fetch(i)) /\ UNCHANGED adminVars
  \/ scanKey \/ repairKey \/ QuickDone \/ CallDone
  \/ admin = "quick" /\ \E w \in QuickWrites : WriteChunk(w)
  \/ RemoveHandoffKeys \/ RemoveIndicatorKey

\* The other clients, and the operation's own put or remove.
ClientStep ==
  /\ \/ WriteStep
     \/ (\E c \in Calls \ {AdminCall} : Crash(c)) /\ UNCHANGED readVars
  /\ pc[AdminCall] = "ready" => pc'[AdminCall] = "ready"
  /\ quiet' = (quiet /\ late' = late /\ \A c \in Calls \ {AdminCall} : pc'[c] = pc[c])
  /\ UNCHANGED <<admin, operation, written, stray, counted>>

DrivesStep ==
  /\ Outage
  /\ quiet' = FALSE
  /\ UNCHANGED <<admin, operation, written, stray, counted>>

RepairNext == AdminStep \/ ClientStep \/ DrivesStep \/ \E w \in stray : ServeStray(w)

RepairSpec == RepairInit /\ [][RepairNext]_repairVars

-----------------------------------------------------------------------------
Aligned == \A i, j \in Chunks : drive[i] = drive[j]

RepairReturned == admin = "returned" /\ operation.name = "REPAIR"

\* A repair that nothing interferes with and that does not report the key as
\* unrepairable leaves a stripe whose chunks agree, whatever crashed clients,
\* timed-out requests and drives that were down have left behind.  If it was
\* after the indicator key, no indicator key and no handoff key is left.
RepairAligns ==
  RepairReturned /\ quiet /\ counted # "unrepairable" =>
    Aligned /\ (operation.target = "INDICATOR" => ~ indicator /\ handoff = {})

\* Such a repair gives up only on stripes that no get could read.
RepairGivesUpOnUnreadable ==
  RepairReturned /\ quiet /\ counted = "unrepairable" =>
    \A v \in ChunkVersion : ~ Readable(v)

\* Left alone, the admin operations SCAN and REPAIR never change what a get
\* of the key finds.
RepairKeepsValue ==
  [][quiet /\ quiet' /\ operation.name # "RESET" =>
       \A v \in ChunkVersion : Readable(v) => Readable(v)']_repairVars

\* A put that is acknowledged while a repair is under way stays readable, as long
\* as no other client is at work and every request is answered: at most NumParity
\* of its chunks are undone by quick_repair.  (The exception is a key the repair
\* has found absent and removes.)
AcknowledgedSurvives ==
  \A c \in Calls \ {AdminCall} :
    (/\ kind[c] = "put" /\ Returned(c, "OK") /\ faults = 0 /\ outages = 0
     /\ \A d \in Calls \ {c, AdminCall} : pc[d] = "ready"
     /\ pc[AdminCall] # "ready" => old[AdminCall] \notin {c, AnyVersion})
      => Readable(c)

\* "The repair attempt should not remove existing indicator or handoff keys":
\* once the clients are done, a repair does not delete the indicator key while
\* the chunks differ, for instance because the drive of one of them is down.
MisalignedStaysMarked ==
  [][(/\ admin = "indicator" /\ operation.name = "REPAIR" /\ indicator /\ ~ indicator'
      /\ \A c \in Calls : Idle(c)) => Aligned]_repairVars
=============================================================================
