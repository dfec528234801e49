------------------------- MODULE StripeRepairProofs -------------------------
(***************************************************************************)
(* Proofs about StripeRepair: what an operation of the administrator does  *)
(* to a stripe if it is left alone, whatever calls that crashed, requests  *)
(* that timed out and drives that were down have made of it before.        *)
(***************************************************************************)
EXTENDS StripeRepair, StripeProofs

\* More chunks with a version make it more frequent.
LEMMA FrequencyGrows ==
  ASSUME NEW f, NEW g, DOMAIN f = Chunks, DOMAIN g = Chunks, NEW v,
         \A i \in Chunks : f[i] = v => g[i] = v
  PROVE  Frequency(f, v) <= Frequency(g, v)
<1> DEFINE A == {i \in DOMAIN f : f[i] = v}
           B == {i \in DOMAIN g : g[i] = v}
<1>1. A \subseteq B /\ B \subseteq Chunks
  OBVIOUS
<1>2. IsFiniteSet(B)
  BY <1>1, FS_Interval, FS_Subset, StripeAssumption DEF Chunks, StripeSize
<1> QED BY <1>1, <1>2, FS_Subset DEF Frequency

\* Every chunk carries a version whose frequency is the number of chunks.
LEMMA FrequencyAll ==
  ASSUME NEW f, DOMAIN f = Chunks, NEW v
  PROVE  Frequency(f, v) = StripeSize <=> \A i \in Chunks : f[i] = v
<1> DEFINE A == {i \in DOMAIN f : f[i] = v}
<1>1. IsFiniteSet(Chunks) /\ Cardinality(Chunks) = StripeSize /\ A \subseteq Chunks
  BY FS_Interval, StripeAssumption DEF Chunks, StripeSize
<1>2. Cardinality(A) = Cardinality(Chunks) => A = Chunks
  BY <1>1, FS_Subset
<1>3. A = Chunks <=> \A i \in Chunks : f[i] = v
  OBVIOUS
<1> QED BY <1>1, <1>2, <1>3 DEF Frequency

\* A stripe has at most one readable version.
LEMMA OneFrequent ==
  ASSUME NEW f, DOMAIN f = Chunks, NEW v, NEW w, Frequency(f, v) >= NumData,
         Frequency(f, w) >= NumData
  PROVE  v = w
<1> DEFINE A == {i \in DOMAIN f : f[i] = v}
           B == {i \in DOMAIN f : f[i] = w}
<1>1. A \in SUBSET Chunks /\ B \in SUBSET Chunks /\ (v # w => A \cap B = {})
  OBVIOUS
<1> QED BY <1>1, DisjointQuorums DEF Frequency

\* No version is more frequent than the one mostFrequentVersion returns.
LEMMA MostFrequentMost ==
  ASSUME NEW f, DOMAIN f = Chunks, NEW v, v \notin {Empty, NoVersion}
  PROVE  Frequency(f, v) <= mostFrequentVersion(f).frequency
<1>1. CASE \E i \in Chunks : f[i] = v
  <2>1. PICK j \in Chunks : f[j] = v
    BY <1>1
  <2>2. j \in Stored(f)
    BY <2>1 DEF Stored
  <2> DEFINE first == CHOOSE i \in DOMAIN f : MostFrequent(f, i)
  <2>3. MostFrequent(f, first)
    BY <2>2, MostFrequentExists
  <2>4. mostFrequentVersion(f).frequency = Frequency(f, f[first])
    BY <2>2 DEF mostFrequentVersion
  <2>5. Frequency(f, f[j]) < Frequency(f, f[first]) \/ Frequency(f, f[j]) = Frequency(f, f[first])
    BY <2>2, <2>3 DEF MostFrequent
  <2>6. Frequency(f, f[j]) \in Int /\ Frequency(f, f[first]) \in Int
    BY FrequencyType
  <2> HIDE DEF first
  <2> QED BY <2>1, <2>4, <2>5, <2>6
<1>2. CASE ~ \E i \in Chunks : f[i] = v
  <2>1. {i \in DOMAIN f : f[i] = v} = {}
    BY <1>2
  <2>2. Frequency(f, v) = 0
    BY <2>1, FS_EmptySet DEF Frequency
  <2>3. mostFrequentVersion(f).frequency >= 0
    <3>1. CASE Stored(f) = {}
      BY <3>1 DEF mostFrequentVersion
    <3>2. CASE Stored(f) # {}
      BY <3>2, FrequencyType DEF mostFrequentVersion
    <3> QED BY <3>1, <3>2
  <2> QED BY <2>2, <2>3
<1> QED BY <1>1, <1>2

-----------------------------------------------------------------------------
\* The state of the operation is well formed: a handoff key is out of reach only
\* while a drive is down, and quick_repair starts from a stripe that was readable.
RepairTypeOK ==
  /\ TypeOK
  /\ down \subseteq Chunks
  /\ down = {} => hidden = {}
  /\ op \in [Chunks -> Obtained]
  /\ written \in [Chunks -> Status \cup {"PENDING"}]
  /\ stray \subseteq [chunk : Chunks, expect : ChunkVersion, version : Version]
  /\ admin = "idle" => stray = {} /\ ~ quiet
  /\ admin \in {"handoffs", "quick"} => Complete
  /\ admin = "quick" => Most.frequency >= NumData

\* The most frequent version, if a get has settled on it.
LEMMA FrequentVersion ==
  ASSUME op \in [Chunks -> Obtained], Complete, Most.frequency >= NumData
  PROVE  Most.version \in Version /\ Frequency(op, Most.version) >= NumData
<1>1. NumData >= 1
  BY StripeAssumption
<1>2. DOMAIN op = Chunks
  OBVIOUS
<1>3. mostFrequentVersion(op).frequency >= 1
  <2>1. mostFrequentVersion(op).frequency \in Int
    <3>1. CASE Stored(op) = {}
      BY <3>1 DEF mostFrequentVersion
    <3>2. CASE Stored(op) # {}
      BY <3>2, <1>2, FrequencyType DEF mostFrequentVersion
    <3> QED BY <3>1, <3>2
  <2> QED BY <2>1, <1>1, StripeAssumption DEF Most
<1>4. PICK i \in Stored(op) : Most.version = op[i]
  BY <1>2, <1>3, MostFrequentRead DEF Most
<1>5. op[i] \in Version
  BY <1>4 DEF Stored, Complete, Obtained, ChunkVersion
<1>6. Most.frequency = Frequency(op, Most.version)
  BY <1>2, <1>3, MostFrequentRead DEF Most
<1> QED BY <1>4, <1>5, <1>6

\* Its frequency is the number of chunks that were read with it.
LEMMA MostFrequency ==
  ASSUME op \in [Chunks -> Obtained], Complete, Most.frequency >= NumData
  PROVE  Frequency(op, Most.version) = Most.frequency
<1>1. DOMAIN op = Chunks /\ NumData >= 1
  BY StripeAssumption
<1>2. mostFrequentVersion(op).frequency \in Int
  <2>1. CASE Stored(op) = {}
    BY <2>1 DEF mostFrequentVersion
  <2>2. CASE Stored(op) # {}
    BY <2>2, <1>1, FrequencyType DEF mostFrequentVersion
  <2> QED BY <2>1, <2>2
<1>3. mostFrequentVersion(op).frequency >= 1
  BY <1>1, <1>2, StripeAssumption DEF Most
<1> QED BY <1>1, <1>3, MostFrequentRead DEF Most

\* The writes of quick_repair bring a chunk from the version read to that of the
\* stripe.
LEMMA QuickWriteType ==
  ASSUME RepairTypeOK, admin = "quick", NEW w \in QuickWrites
  PROVE  /\ w \in [chunk : Chunks, expect : ChunkVersion, version : Version]
         /\ w.expect = op[w.chunk] /\ w.version = Most.version /\ op[w.chunk] # Most.version
<1>1. Most.version \in Version
  BY FrequentVersion DEF RepairTypeOK
<1>2. PICK i \in {j \in Chunks : op[j] \notin {NoVersion, Most.version}} :
        w = [chunk |-> i, expect |-> op[i], version |-> Most.version]
  BY DEF QuickWrites
<1>3. op[i] \in ChunkVersion
  BY <1>2 DEF RepairTypeOK, Complete, Obtained
<1> QED BY <1>1, <1>2, <1>3

\* A step of a client is one of StripeWrite.
LEMMA ClientNext ==
  ASSUME RepairTypeOK, ClientStep
  PROVE  Next /\ UNCHANGED readVars
<1>1. \A c \in Calls : CallStep(c) => Step(c) \/ \E i \in Chunks : TimeOut(c, i)
  BY DEF RepairTypeOK, CallStep, Step
<1>2. CASE WriteStep
  BY <1>1, <1>2 DEF WriteStep, Next
<1>3. CASE (\E c \in Calls \ {AdminCall} : Crash(c)) /\ UNCHANGED readVars
  BY <1>3 DEF Next
<1> QED BY <1>2, <1>3 DEF ClientStep

\* The operation's own put or remove begins with the types of a call.
LEMMA BeginType ==
  ASSUME TypeOK, NEW k \in {"put", "remove"}, NEW e \in ChunkVersion \cup {AnyVersion},
         Begin(AdminCall, k, e)
  PROVE  TypeOK'
<1>1. AdminCall \in Calls
  BY RepairAssumption
<1> QED BY <1>1 DEF Begin, TypeOK, Location, driveVars, markers

\* A chunk write of quick_repair keeps the types of the drives.
LEMMA ApplyWriteType ==
  ASSUME TypeOK, NEW w \in [chunk : Chunks, expect : ChunkVersion, version : Version], NEW r,
         ApplyWrite(w, r), UNCHANGED <<late, faults, markers, callVars>>
  PROVE  TypeOK'
<1>1. w.chunk \in Chunks /\ w.version \in Version /\ w.version \in ChunkVersion
  BY DEF ChunkVersion
<1>2. drive' \in [Chunks -> ChunkVersion] /\ held' \in [Chunks -> SUBSET Version]
  BY <1>1 DEF ApplyWrite, TypeOK
<1> QED BY <1>2 DEF TypeOK, markers, callVars

\* The answers to a chunk write are status codes.
LEMMA PutReplyType ==
  ASSUME NEW current, NEW e, NEW r \in PutReply(current, e)
  PROVE  r \in Status
BY WriteAssumption DEF PutReply, Status

\* A step that leaves the variables of StripeWrite alone keeps their types.
LEMMA SameType == ASSUME TypeOK, UNCHANGED vars PROVE TypeOK'
BY DEF vars, driveVars, markers, callVars, TypeOK

\* Every step of the operation, of a client and of the drives keeps the types.
LEMMA RepairNextType == RepairTypeOK /\ [RepairNext]_repairVars => RepairTypeOK'
<1> SUFFICES ASSUME RepairTypeOK, [RepairNext]_repairVars PROVE RepairTypeOK'
  OBVIOUS
<1> DEFINE Admin == /\ admin' = "idle" => stray' = {} /\ ~ quiet'
                    /\ admin' \in {"handoffs", "quick"} => Complete'
                    /\ admin' = "quick" => Most'.frequency >= NumData
<1>0. TypeOK /\ AdminCall \in Calls
  BY RepairAssumption DEF RepairTypeOK
<1>1. ASSUME TypeOK', UNCHANGED <<down, hidden>>, op' \in [Chunks -> Obtained],
             written' \in [Chunks -> Status \cup {"PENDING"}],
             stray' \subseteq [chunk : Chunks, expect : ChunkVersion, version : Version],
             Admin
      PROVE  RepairTypeOK'
  BY <1>1 DEF RepairTypeOK
<1> HIDE DEF Admin
<1>2. ASSUME NEW name, NEW target, applyOperation(name, target) PROVE RepairTypeOK'
  <2>1. TypeOK'
    <3>1. CASE Begin(AdminCall, "remove", AnyVersion)
      BY <3>1, <1>0, BeginType
    <3>2. CASE UNCHANGED vars
      BY <3>2, <1>0, SameType
    <3> QED BY <1>2, <3>1, <3>2 DEF applyOperation
  <2>2. op' \in [Chunks -> Obtained]
    BY <1>2 DEF applyOperation, ReadAll, RepairTypeOK, Obtained
  <2>3. Admin
    BY <1>2 DEF applyOperation, Admin
  <2> QED BY ZenonT(60), <1>1, <1>2, <2>1, <2>2, <2>3 DEF applyOperation, RepairTypeOK
<1>3. ASSUME NEW i \in Chunks, Fetch(i), UNCHANGED adminVars PROVE RepairTypeOK'
  <2>1. UNCHANGED vars
    BY <1>3 DEF Fetch, vars
  <2>2. op' \in [Chunks -> Obtained]
    BY <1>3 DEF Fetch, RepairTypeOK, TypeOK, Obtained
  <2>3. Admin
    BY <1>3 DEF Fetch, Admin, adminVars, RepairTypeOK, Complete
  <2> QED BY ZenonT(60), <1>0, <1>1, <1>3, <2>1, <2>2, <2>3, SameType DEF Fetch, adminVars, RepairTypeOK
<1>4. CASE scanKey
  <2>1. UNCHANGED vars
    BY <1>4 DEF scanKey, Bystanders, vars
  <2>2. op' \in [Chunks -> Obtained]
    BY <1>4 DEF scanKey, ReadAll, RepairTypeOK, Obtained
  <2>3. Admin
    BY <1>4 DEF scanKey, End, Admin
  <2> QED BY ZenonT(60), <1>0, <1>1, <1>4, <2>1, <2>2, <2>3, SameType DEF scanKey, Bystanders, RepairTypeOK
<1>5. CASE repairKey
  <2>1. UNCHANGED <<down, hidden, stray, quiet>>
    BY <1>5 DEF repairKey
  <2>2. ASSUME Got(Outcome), Complete PROVE RepairTypeOK'
    <3>1. CASE /\ Outcome = "OK"
               /\ written' = [i \in Chunks |-> IF \E w \in QuickWrites : w.chunk = i
                                                 THEN "PENDING" ELSE "OK"]
               /\ admin' = "quick"
               /\ UNCHANGED <<vars, op, counted>>
      <4>1. Most.frequency >= NumData
        BY <3>1 DEF Outcome
      <4>2. Complete' /\ Most'.frequency >= NumData
        BY <2>2, <3>1, <4>1 DEF Complete, Most
      <4>3. written' \in [Chunks -> Status \cup {"PENDING"}]
        BY <3>1 DEF Status
      <4>4. Admin
        BY <3>1, <4>2 DEF Admin
      <4> QED BY ZenonT(60), <1>0, <1>1, <2>1, <3>1, <4>3, <4>4, SameType DEF RepairTypeOK
    <3>2. CASE /\ Begin(AdminCall, "remove", AnyVersion)
               /\ admin' = "remove"
               /\ UNCHANGED <<op, written, counted>>
      <4>1. Admin
        BY <3>2 DEF Admin
      <4> QED BY ZenonT(60), <1>0, <1>1, <2>1, <3>2, <4>1, BeginType DEF RepairTypeOK
    <3> QED BY <2>2, <3>1, <3>2 DEF Got
  <2>3. ASSUME GetFails PROVE RepairTypeOK'
    <3>1. Admin
      BY <2>3 DEF GetFails, End, Admin
    <3> QED BY ZenonT(60), <1>0, <1>1, <2>1, <2>3, <3>1, SameType DEF GetFails, RepairTypeOK
  <2>4. ASSUME op' = [i \in Chunks |-> IF i \in Handoffs(Most.version) THEN Most.version ELSE op[i]],
               admin' = "handoffs", UNCHANGED <<vars, written, counted>>, Complete
        PROVE  RepairTypeOK'
    <3>1. \A i \in Handoffs(Most.version) : Most.version \in Obtained
      BY ZenonT(60), <1>0 DEF Handoffs, TypeOK, Obtained, ChunkVersion, Version
    <3>2. op' \in [Chunks -> Obtained]
      BY <2>4, <3>1 DEF RepairTypeOK
    <3>3. Complete'
      BY SMTT(60), <1>0, <2>4, ReadAssumption DEF Complete, Handoffs, TypeOK, ChunkVersion, Version
    <3>4. Admin
      BY <2>4, <3>3 DEF Admin
    <3> QED BY ZenonT(60), <1>0, <1>1, <2>1, <2>4, <3>2, <3>4, SameType DEF RepairTypeOK
  <2>5. CASE admin = "get"
    BY ZenonT(60), <1>5, <2>2, <2>3, <2>4, <2>5 DEF repairKey
  <2>6. CASE admin = "handoffs"
    <3>1. Got(Outcome) \/ GetFails
      BY ZenonT(60), <1>5, <2>6 DEF repairKey
    <3> QED BY ZenonT(60), <2>2, <2>3, <2>6, <3>1 DEF RepairTypeOK
  <2> QED BY ZenonT(60), <1>5, <2>5, <2>6 DEF repairKey
<1>6. CASE QuickDone
  <2>1. UNCHANGED <<readVars, written, stray, quiet>> /\ admin = "quick"
    BY <1>6 DEF QuickDone
  <2>2. Most.version \in Version
    BY <2>1, FrequentVersion DEF RepairTypeOK
  <2>3. TypeOK'
    <3>1. CASE UNCHANGED vars
      BY <3>1, <1>0, SameType
    <3>2. CASE Begin(AdminCall, "put", Most.version)
      BY ZenonT(60), <3>2, <2>2, <1>0, BeginType DEF ChunkVersion
    <3> QED BY <1>6, <3>1, <3>2 DEF QuickDone
  <2>4. Admin
    BY <1>6 DEF QuickDone, Admin
  <2> QED BY ZenonT(60), <1>1, <2>1, <2>3, <2>4 DEF RepairTypeOK, readVars, getVars
<1>7. CASE CallDone
  <2>1. UNCHANGED vars
    BY <1>7 DEF CallDone, Bystanders, vars
  <2>2. Admin
    BY <1>7 DEF CallDone, End, Admin
  <2> QED BY ZenonT(60), <1>0, <1>1, <1>7, <2>1, <2>2, SameType DEF CallDone, Bystanders, RepairTypeOK
<1>8. ASSUME admin = "quick", NEW w \in QuickWrites, WriteChunk(w) PROVE RepairTypeOK'
  <2>1. w \in [chunk : Chunks, expect : ChunkVersion, version : Version]
    BY <1>8, QuickWriteType
  <2>2. UNCHANGED <<late, faults, markers, callVars, readVars, admin>>
    BY <1>8 DEF WriteChunk
  <2>3. Admin
    BY <1>8, <2>2 DEF Admin, RepairTypeOK, Complete, Most, readVars, getVars
  <2>4. CASE w.chunk \in down
    <3>1. /\ written' = [written EXCEPT ![w.chunk] = "IO_ERROR"]
          /\ stray' = stray \cup {w} /\ UNCHANGED vars
      BY ZenonT(60), <1>8, <2>2, <2>4 DEF WriteChunk, vars, driveVars
    <3> QED BY ZenonT(60), <1>0, <1>1, <2>1, <2>2, <2>3, <3>1, SameType DEF RepairTypeOK, readVars, getVars, Status
  <2>5. CASE w.chunk \notin down
    <3>1. PICK r \in PutReply(drive[w.chunk], w.expect) :
            written' = [written EXCEPT ![w.chunk] = r] /\ ApplyWrite(w, r)
      BY <1>8, <2>5 DEF WriteChunk
    <3>2. UNCHANGED stray
      BY <1>8, <2>5 DEF WriteChunk
    <3>3. r \in Status
      BY PutReplyType
    <3>4. TypeOK'
      BY ZenonT(60), <1>0, <2>1, <2>2, <3>1, ApplyWriteType
    <3> QED BY ZenonT(60), <1>1, <2>1, <2>2, <2>3, <3>1, <3>2, <3>3, <3>4 DEF RepairTypeOK, readVars, getVars
  <2> QED BY ZenonT(60), <2>4, <2>5
<1>9. CASE RemoveHandoffKeys
  <2>1. /\ UNCHANGED <<driveVars, indicator, callVars, readVars, written, stray>>
        /\ handoff' \subseteq handoff /\ admin' = "indicator"
    BY <1>9 DEF RemoveHandoffKeys
  <2>2. TypeOK'
    BY ZenonT(60), <1>0, <2>1 DEF TypeOK, driveVars, callVars
  <2>3. Admin
    BY <2>1 DEF Admin
  <2> QED BY ZenonT(60), <1>1, <2>1, <2>2, <2>3 DEF RepairTypeOK, readVars, getVars
<1>10. CASE RemoveIndicatorKey
  <2>1. /\ UNCHANGED <<driveVars, handoff, callVars, readVars, written, stray>>
        /\ admin' = "returned"
    BY <1>10 DEF RemoveIndicatorKey
  <2>2. indicator' \in BOOLEAN
    BY ZenonT(60), <1>0, <1>10 DEF RemoveIndicatorKey, TypeOK
  <2>3. TypeOK'
    BY <1>0, <2>1, <2>2 DEF TypeOK, driveVars, callVars
  <2>4. Admin
    BY <2>1 DEF Admin
  <2> QED BY ZenonT(60), <1>1, <2>1, <2>3, <2>4 DEF RepairTypeOK, readVars, getVars
<1>11. CASE ClientStep
  <2>1. UNCHANGED readVars /\ TypeOK'
    BY ZenonT(60), <1>0, <1>11, ClientNext, NextType
  <2>2. UNCHANGED <<admin, written, stray>> /\ (quiet' => quiet)
    BY ZenonT(60), <1>11 DEF ClientStep
  <2>3. Admin
    BY <2>1, <2>2 DEF Admin, RepairTypeOK, Complete, Most, readVars, getVars
  <2> QED BY <1>1, <2>1, <2>2, <2>3 DEF RepairTypeOK, readVars, getVars
<1>12. CASE DrivesStep
  <2>1. /\ UNCHANGED <<driveVars, markers, callVars, getVars, admin, written, stray>>
        /\ down' \subseteq Chunks /\ (down' = {} => hidden' = {}) /\ ~ quiet'
    BY <1>12 DEF DrivesStep, Outage
  <2>2. TypeOK'
    BY ZenonT(60), <1>0, <2>1, SameType DEF vars
  <2> QED BY <2>1, <2>2 DEF RepairTypeOK, getVars, Complete, Most
<1>13. ASSUME NEW w \in stray, ServeStray(w) PROVE RepairTypeOK'
  <2>1. w \in [chunk : Chunks, expect : ChunkVersion, version : Version]
    BY DEF RepairTypeOK
  <2>2. UNCHANGED <<late, faults, markers, callVars, readVars, admin, written, quiet>>
    BY <1>13 DEF ServeStray
  <2>3. PICK r \in PutReply(drive[w.chunk], w.expect) : ApplyWrite(w, r)
    BY <1>13 DEF ServeStray
  <2>4. TypeOK' /\ stray' \subseteq stray
    BY ZenonT(60), <1>0, <1>13, <2>1, <2>2, <2>3, ApplyWriteType DEF ServeStray
  <2>5. Admin
    BY <2>2, <2>4 DEF Admin, RepairTypeOK, Complete, Most, readVars, getVars
  <2> QED BY ZenonT(60), <1>1, <2>2, <2>4, <2>5 DEF RepairTypeOK, readVars, getVars
<1>14. CASE UNCHANGED repairVars
  <2>1. UNCHANGED <<vars, readVars, adminVars>>
    BY <1>14 DEF repairVars
  <2>2. TypeOK'
    BY <1>0, <2>1, SameType
  <2> QED BY <2>1, <2>2 DEF RepairTypeOK, readVars, getVars, adminVars, Complete, Most
<1> QED BY ZenonT(60), <1>2, <1>3, <1>4, <1>5, <1>6, <1>7, <1>8, <1>9, <1>10, <1>11, <1>12, <1>13, <1>14
        DEF RepairNext, AdminStep

-----------------------------------------------------------------------------
(***************************************************************************)
(* What holds of an operation that is left alone, by where it is.          *)
(***************************************************************************)

\* All drives are up, no client is under way, and the operation has no need of
\* handoff keys or of an ordinary put.
Undisturbed ==
  /\ down = {} /\ stray = {}
  /\ \A c \in Calls \ {AdminCall} : Idle(c)
  /\ admin \notin {"idle", "handoffs", "put"}
  /\ admin # "remove" => Idle(AdminCall)

\* Scan and get see the stripe as it is; the get is made if there is something to
\* get.
ReadsDrives ==
  /\ admin \in {"scan", "get"} => \A i \in Chunks : op[i] \in {"PENDING", drive[i]}
  /\ admin = "get" => \E v \in ChunkVersion : Readable(v)

\* quick_repair has written a chunk, or will find it as it was read.
QuickSound ==
  admin = "quick" =>
    /\ Readable(Most.version)
    /\ \A i \in Chunks :
         \/ written[i] = "OK" /\ drive[i] = Most.version
         \/ written[i] = "PENDING" /\ drive[i] = op[i] /\ drive[i] # Most.version

\* The forced remove of a key that was found absent, or is to be reset.
RemovalSound ==
  admin = "remove" =>
    /\ kind[AdminCall] = "remove" /\ pc[AdminCall] \in {"write", "returned"}
    /\ operation.name # "RESET" => Readable(Empty)
    /\ \A i \in Chunks :
         /\ expect[AdminCall][i] = AnyVersion
         /\ \/ status[AdminCall][i] = "PENDING" /\ pc[AdminCall] = "write"
            \/ status[AdminCall][i] \in {"OK", "NOT_FOUND"} /\ drive[i] = Empty
    /\ pc[AdminCall] = "returned" => result[AdminCall] \in {"OK", "NOT_FOUND"}

\* A repair deletes the marker keys when the stripe is whole.
RepairSound ==
  operation.name = "REPAIR" =>
    /\ admin \in {"markers", "indicator"} => Aligned /\ counted # "unrepairable"
    /\ admin = "indicator" => handoff = {}
    /\ admin = "returned" => RepairAligns /\ RepairGivesUpOnUnreadable

Calm == Undisturbed /\ ReadsDrives /\ QuickSound /\ RemovalSound /\ RepairSound

QuietInv == quiet => Calm

\* What a scan or a get of all chunks has obtained is what the drives have.
LEMMA ReadsStripe ==
  ASSUME RepairTypeOK, ReadsDrives, admin \in {"scan", "get"}, Complete
  PROVE  op = drive
BY SMTT(60) DEF RepairTypeOK, TypeOK, ReadsDrives, Complete

\* A version that is the target of all changes stays as readable as it was, and no
\* other one was readable.
LEMMA KeepsReadable ==
  ASSUME TypeOK, TypeOK', NEW v, Readable(v), \A i \in Chunks : drive'[i] \in {drive[i], v}
  PROVE  Readable(v)' /\ \A w \in ChunkVersion : Readable(w) => Readable(w)'
<1>1. DOMAIN drive = Chunks /\ DOMAIN drive' = Chunks
  BY DEF TypeOK
<1>2. Frequency(drive, v) <= Frequency(drive', v)
  BY <1>1, FrequencyGrows
<1>3. Frequency(drive, v) \in Int /\ Frequency(drive', v) \in Int
  BY <1>1, FrequencyType
<1>4. Frequency(drive', v) >= NumData
  BY SMTT(60), <1>2, <1>3, StripeAssumption DEF Readable
<1>5. ASSUME NEW w \in ChunkVersion, Readable(w) PROVE w = v
  BY <1>1, <1>5, OneFrequent DEF Readable
<1> QED BY ZenonT(60), <1>4, <1>5 DEF Readable

\* A remove that every drive has answered returns OK, or that the key is not there,
\* and needs no indicator key.
LEMMA RemoveVerdict ==
  ASSUME NEW st \in [Chunks -> {"OK", "NOT_FOUND"}]
  PROVE  Verdict(Removed(st)) \in {"OK", "NOT_FOUND"} /\ ~ DelNeedsIndicator(st)
<1>1. PICK s \in {"OK", "NOT_FOUND"} : Removed(st) = [i \in Chunks |-> s]
  <2>1. CASE With(st, "OK") # {}
    <3>1. Removed(st) = [i \in Chunks |-> "OK"]
      BY <2>1 DEF Removed
    <3> QED BY <3>1
  <2>2. CASE With(st, "OK") = {}
    <3>1. \A i \in Chunks : st[i] = "NOT_FOUND"
      BY <2>2 DEF With
    <3>2. Removed(st) = [i \in Chunks |-> "NOT_FOUND"]
      BY <2>2, <3>1 DEF Removed
    <3> QED BY <3>2
  <2> QED BY <2>1, <2>2
<1>2. IsFiniteSet(Chunks) /\ Cardinality(Chunks) = StripeSize
  BY FS_Interval, StripeAssumption DEF Chunks, StripeSize
<1>3. With(Removed(st), s) = Chunks /\ \A r \in Status \ {s} : With(Removed(st), r) = {}
  BY <1>1 DEF With
<1>4. Tally(Removed(st), s) = StripeSize /\ \A r \in Status \ {s} : Tally(Removed(st), r) = 0
  BY <1>2, <1>3, FS_EmptySet DEF Tally
<1>5. Quorum(Removed(st), s) /\ \A r \in Status : Quorum(Removed(st), r) => r = s
  BY <1>4, StripeAssumption DEF Quorum, StripeSize
<1>6. s \in Status
  BY DEF Status
<1>7. Verdict(Removed(st)) = s
  BY <1>5, <1>6 DEF Verdict
<1>8. ~ DelNeedsIndicator(st)
  <2>1. \A r \in Status : Quorum(Removed(st), r) => Tally(Removed(st), r) = StripeSize
    BY <1>4, <1>5
  <2>2. StripeSize \in Nat
    BY StripeAssumption DEF StripeSize
  <2> QED BY <2>1, <2>2 DEF DelNeedsIndicator
<1> QED BY <1>7, <1>8

\* What is readable stays readable, but for a RESET.
Kept == operation.name # "RESET" => \A v \in ChunkVersion : Readable(v) => Readable(v)'

\* It does when no drive changes.
LEMMA SameKept == UNCHANGED drive => Kept
BY DEF Kept, Readable

\* applyOperation begins undisturbed if no client is under way and all drives are up.
LEMMA CalmApply ==
  ASSUME RepairTypeOK, NEW name, NEW target, applyOperation(name, target), quiet'
  PROVE  Calm'
<1>1. /\ admin = "idle" /\ stray = {} /\ down = {} /\ UNCHANGED <<down, stray>>
      /\ \A c \in Calls : Idle(c)
  BY ZenonT(60) DEF applyOperation, RepairTypeOK
<1>2. AdminCall \in Calls /\ TypeOK
  BY RepairAssumption DEF RepairTypeOK
<1>3. CASE UNCHANGED vars
  <2>1. /\ UNCHANGED <<pc, drive>>
        /\ \/ admin' = "scan" /\ op' = [i \in Chunks |-> "PENDING"]
           \/ admin' = "markers" /\ operation'.name = "RESET"
    <3>1. UNCHANGED <<pc, drive>>
      BY <1>3 DEF vars, driveVars, callVars
    <3>2. ~ Begin(AdminCall, "remove", AnyVersion)
      BY ZenonT(60), <1>2, <1>3 DEF Begin, vars, callVars, TypeOK
    <3> QED BY <3>1, <3>2 DEF applyOperation, ReadAll
  <2>2. Undisturbed'
    BY ZenonT(60), <1>1, <1>2, <2>1 DEF Undisturbed, Idle
  <2> QED BY <2>1, <2>2 DEF Calm, ReadsDrives, QuickSound, RemovalSound, RepairSound
<1>4. CASE ~ UNCHANGED vars
  <2>1. /\ Begin(AdminCall, "remove", AnyVersion)
        /\ admin' = "remove" /\ operation'.name = "RESET"
    BY <1>4 DEF applyOperation
  <2>2. /\ pc' = [pc EXCEPT ![AdminCall] = "write"]
        /\ kind' = [kind EXCEPT ![AdminCall] = "remove"]
        /\ status' = [status EXCEPT ![AdminCall] = [i \in Chunks |-> "PENDING"]]
        /\ expect' = [expect EXCEPT ![AdminCall] = [i \in Chunks |-> AnyVersion]]
    BY <2>1 DEF Begin
  <2>3. Undisturbed'
    BY ZenonT(60), <1>1, <1>2, <2>1, <2>2 DEF Undisturbed, Idle, TypeOK
  <2>4. RemovalSound'
    BY ZenonT(60), <1>2, <2>1, <2>2 DEF RemovalSound, TypeOK
  <2> QED BY ZenonT(60), <2>1, <2>3, <2>4 DEF Calm, ReadsDrives, QuickSound, RepairSound
<1> QED BY <1>3, <1>4

\* A chunk that is read is read as it is.
LEMMA CalmFetch ==
  ASSUME RepairTypeOK, Calm, NEW i \in Chunks, Fetch(i), UNCHANGED adminVars
  PROVE  Calm'
<1>1. /\ op[i] = "PENDING" /\ op' = [op EXCEPT ![i] = drive[i]] /\ op \in [Chunks -> Obtained]
      /\ UNCHANGED <<drive, down, handoff, indicator, pc, kind, status, expect, result>>
  BY DEF Fetch, Calm, Undisturbed, RepairTypeOK, driveVars, markers, callVars
<1>2. UNCHANGED <<admin, operation, stray, counted, quiet>>
  BY DEF adminVars
<1>3. admin # "quick"
  BY <1>1 DEF RepairTypeOK, Complete
<1>4. Undisturbed' /\ RemovalSound'
  BY ZenonT(60), <1>1, <1>2 DEF Calm, Undisturbed, RemovalSound, Idle, Readable
<1>5. ReadsDrives'
  BY <1>1, <1>2 DEF Calm, ReadsDrives, Readable
<1>6. RepairSound'
  BY <1>1, <1>2 DEF Calm, RepairSound, Aligned, RepairAligns, RepairGivesUpOnUnreadable,
                    RepairReturned, Readable
<1> QED BY ZenonT(60), <1>2, <1>3, <1>4, <1>5, <1>6 DEF Calm, QuickSound

\* What a scan or a get makes of a stripe it has read as it is.
LEMMA ReadSays ==
  ASSUME RepairTypeOK, op = drive, Complete
  PROVE  /\ Most.frequency >= NumData =>
              Most.version \in Version /\ Readable(Most.version)
         /\ Frequency(op, Empty) >= NumData <=> Readable(Empty)
         /\ \A v \in Version : Readable(v) => Most.frequency >= NumData
         /\ ValidResults = StripeSize /\ Most.frequency \in Int
<1>1. op \in [Chunks -> Obtained] /\ op \in [Chunks -> ChunkVersion] /\ DOMAIN op = Chunks
  BY DEF RepairTypeOK, TypeOK
<1>2. Most.frequency >= NumData => Most.version \in Version /\ Readable(Most.version)
  BY ZenonT(60), <1>1, FrequentVersion DEF Readable
<1>3. Frequency(op, Empty) >= NumData <=> Readable(Empty)
  BY DEF Readable
<1>4. Most.frequency \in Int
  <2>1. CASE Stored(op) = {}
    BY SMTT(60), <2>1 DEF Most, mostFrequentVersion
  <2>2. CASE Stored(op) # {}
    BY SMTT(60), <2>2, <1>1, FrequencyType DEF Most, mostFrequentVersion
  <2> QED BY <2>1, <2>2
<1>5. ASSUME NEW v \in Version, Readable(v) PROVE Most.frequency >= NumData
  <2>1. v \notin {Empty, NoVersion}
    BY WriteAssumption DEF Version
  <2>2. Frequency(op, v) <= Most.frequency
    BY ZenonT(60), <1>1, <2>1, MostFrequentMost DEF Most
  <2>3. Frequency(op, v) \in Int /\ Frequency(op, v) >= NumData
    BY <1>1, <1>5, FrequencyType DEF Readable
  <2> QED BY SMTT(60), <1>4, <2>2, <2>3, StripeAssumption
<1>6. ValidResults = StripeSize
  <2>1. \A i \in Chunks : op[i] # NoVersion
    BY <1>1, WriteAssumption, StripeAssumption DEF ChunkVersion, Version
  <2>2. {i \in Chunks : op[i] # NoVersion} = Chunks
    BY <2>1
  <2>3. Cardinality(Chunks) = StripeSize
    BY FS_Interval, StripeAssumption DEF Chunks, StripeSize
  <2> QED BY <2>2, <2>3 DEF ValidResults
<1> QED BY ZenonT(60), <1>2, <1>3, <1>4, <1>5, <1>6

\* The scan: the key is given up if no version of it can be read, it is left alone
\* if its chunks agree, and the get that follows has something to get.
LEMMA CalmScan ==
  ASSUME RepairTypeOK, Calm, scanKey
  PROVE  Calm'
<1>1. admin = "scan" /\ Complete /\ op = drive
  BY ReadsStripe DEF scanKey, Calm
<1>2. /\ UNCHANGED <<drive, pc, down, stray, operation, handoff, indicator>>
      /\ TypeOK /\ AdminCall \in Calls
  BY RepairAssumption DEF scanKey, Bystanders, driveVars, callVars, markers, RepairTypeOK
<1>3. admin' \in {"get", "returned"}
  BY DEF scanKey, End
<1>4. Undisturbed'
  BY ZenonT(60), <1>1, <1>2, <1>3 DEF Calm, Undisturbed, Idle
<1>5. QuickSound' /\ RemovalSound'
  BY <1>3 DEF QuickSound, RemovalSound
<1>6. Most.frequency >= NumData => Readable(Most.version) /\ Most.version \in ChunkVersion
  BY <1>1, ReadSays DEF ChunkVersion
<1>7. CASE ~ Fine /\ ~ NeedAction
  <2>1. admin' = "returned" /\ counted' = "unrepairable"
    BY <1>7 DEF scanKey, End
  <2>2. ASSUME NEW v \in ChunkVersion PROVE ~ Readable(v)
    <3>1. ~ (Most.frequency >= NumData) /\ ~ (Frequency(op, Empty) >= NumData)
      BY <1>7 DEF NeedAction
    <3> QED BY <3>1, <1>1, ReadSays DEF ChunkVersion
  <2>3. \A v \in ChunkVersion : ~ Readable(v)'
    BY <1>2, <2>2 DEF Readable
  <2>4. RepairSound'
    BY <2>1, <2>3 DEF RepairSound, RepairAligns, RepairGivesUpOnUnreadable
  <2> QED BY <1>4, <1>5, <2>1, <2>4 DEF Calm, ReadsDrives
<1>8. CASE (Fine \/ NeedAction) /\ operation.name = "REPAIR"
                                /\ (NeedAction \/ operation.target = "INDICATOR")
  <2>1. admin' = "get" /\ op' = [i \in Chunks |-> "PENDING"]
    BY <1>8 DEF scanKey, ReadAll
  <2>2. \E v \in ChunkVersion : Readable(v)
    <3>1. CASE Fine
      BY ZenonT(60), <1>1, <1>6, <3>1, ReadSays DEF Fine
    <3>2. CASE NeedAction
      BY ZenonT(60), <1>1, <1>6, <3>2, ReadSays DEF NeedAction, ChunkVersion
    <3> QED BY ZenonT(60), <1>8, <3>1, <3>2
  <2>3. ReadsDrives'
    BY <1>2, <2>1, <2>2 DEF ReadsDrives, Readable
  <2> QED BY ZenonT(60), <1>4, <1>5, <2>1, <2>3 DEF Calm, RepairSound
<1>9. CASE ~ (operation.name = "REPAIR" /\ (NeedAction \/ operation.target = "INDICATOR"))
           /\ (Fine \/ NeedAction)
  <2>1. admin' = "returned" /\ counted' = "none"
    BY <1>9 DEF scanKey, End
  <2>2. ASSUME operation.name = "REPAIR"
        PROVE  Aligned /\ operation.target # "INDICATOR"
    <3>1. Fine /\ operation.target # "INDICATOR"
      BY <1>9, <2>2
    <3>2. Most.frequency = StripeSize /\ Most.frequency >= NumData
      BY ZenonT(60), <1>1, <3>1, ReadSays DEF Fine
    <3>3. DOMAIN op = Chunks /\ op \in [Chunks -> Obtained]
      BY DEF RepairTypeOK
    <3>4. Frequency(op, Most.version) = StripeSize
      BY ZenonT(60), <1>1, <3>2, <3>3, MostFrequency
    <3>5. \A i \in Chunks : drive[i] = Most.version
      BY ZenonT(60), <1>1, <3>3, <3>4, FrequencyAll
    <3> QED BY <3>1, <3>5 DEF Aligned
  <2>3. RepairSound'
    BY <1>2, <2>1, <2>2 DEF RepairSound, RepairAligns, RepairGivesUpOnUnreadable,
                            RepairReturned, Aligned
  <2> QED BY ZenonT(60), <1>4, <1>5, <2>1, <2>3 DEF Calm, ReadsDrives
<1> QED BY <1>7, <1>8, <1>9

\* The get of a repair ends with the version of the stripe, or finds it absent.
LEMMA CalmGet ==
  ASSUME RepairTypeOK, Calm, repairKey
  PROVE  Calm'
<1>1. admin = "get" /\ Complete /\ op = drive
  BY ReadsStripe DEF repairKey, Calm, Undisturbed
<1>2. UNCHANGED <<down, operation, stray>> /\ TypeOK /\ AdminCall \in Calls
  BY RepairAssumption DEF repairKey, RepairTypeOK
<1>3. PICK v \in ChunkVersion : Readable(v)
  BY <1>1 DEF Calm, ReadsDrives
<1>4. Outcome # "IO_ERROR"
  BY ZenonT(60), <1>1, <1>3, ReadSays DEF Outcome, ChunkVersion
<1>5. Got(Outcome)
  BY ZenonT(60), <1>1, <1>4 DEF repairKey
<1>6. CASE Outcome = "OK"
  <2>1. /\ written' = [i \in Chunks |-> IF \E w \in QuickWrites : w.chunk = i
                                           THEN "PENDING" ELSE "OK"]
        /\ admin' = "quick" /\ UNCHANGED <<vars, op>>
    BY <1>5, <1>6 DEF Got
  <2>2. UNCHANGED <<drive, pc>> /\ Most' = Most
    BY <2>1 DEF vars, driveVars, callVars, Most
  <2>3. Most.frequency >= NumData
    BY <1>6 DEF Outcome
  <2>4. Readable(Most.version)
    BY ZenonT(60), <1>1, <2>3, ReadSays
  <2>5. Undisturbed'
    BY ZenonT(60), <1>1, <1>2, <2>1, <2>2 DEF Calm, Undisturbed, Idle
  <2>6. QuickSound'
    <3>1. Readable(Most.version)'
      BY <2>2, <2>4 DEF Readable
    <3>2. ASSUME NEW i \in Chunks
          PROVE  \/ written'[i] = "OK" /\ drive[i] = Most.version
                 \/ written'[i] = "PENDING" /\ drive[i] = op[i] /\ drive[i] # Most.version
      <4>1. drive[i] # NoVersion
        BY ZenonT(60), <1>2, WriteAssumption, StripeAssumption DEF TypeOK, ChunkVersion, Version
      <4>2. CASE drive[i] = Most.version
        <5>1. ~ \E w \in QuickWrites : w.chunk = i
          BY SMTT(60), <1>1, <4>2 DEF QuickWrites
        <5> QED BY ZenonT(60), <2>1, <4>2, <5>1
      <4>3. CASE drive[i] # Most.version
        <5>1. [chunk |-> i, expect |-> op[i], version |-> Most.version] \in QuickWrites
          BY ZenonT(60), <1>1, <4>1, <4>3 DEF QuickWrites
        <5>2. \E w \in QuickWrites : w.chunk = i
          BY <5>1
        <5> QED BY ZenonT(60), <1>1, <2>1, <4>3, <5>2
      <4> QED BY <4>2, <4>3
    <3> QED BY ZenonT(60), <2>1, <2>2, <3>1, <3>2 DEF QuickSound
  <2> QED BY ZenonT(60), <2>1, <2>5, <2>6 DEF Calm, ReadsDrives, RemovalSound, RepairSound
<1>7. CASE Outcome = "NOT_FOUND"
  <2>1. Begin(AdminCall, "remove", AnyVersion) /\ admin' = "remove"
    BY <1>5, <1>7 DEF Got
  <2>2. /\ pc' = [pc EXCEPT ![AdminCall] = "write"]
        /\ kind' = [kind EXCEPT ![AdminCall] = "remove"]
        /\ status' = [status EXCEPT ![AdminCall] = [i \in Chunks |-> "PENDING"]]
        /\ expect' = [expect EXCEPT ![AdminCall] = [i \in Chunks |-> AnyVersion]]
        /\ UNCHANGED drive
    BY <2>1 DEF Begin, driveVars
  <2>3. Readable(Empty)
    BY <1>1, <1>7, ReadSays DEF Outcome
  <2>4. Readable(Empty)'
    BY <2>2, <2>3 DEF Readable
  <2>5. Undisturbed'
    BY ZenonT(60), <1>1, <1>2, <2>1, <2>2 DEF Calm, Undisturbed, Idle, TypeOK
  <2>6. RemovalSound'
    BY ZenonT(60), <1>2, <2>1, <2>2, <2>4 DEF RemovalSound, TypeOK
  <2> QED BY ZenonT(60), <2>1, <2>5, <2>6 DEF Calm, ReadsDrives, QuickSound, RepairSound
<1> QED BY ZenonT(60), <1>4, <1>6, <1>7 DEF Outcome

\* A chunk write of quick_repair finds the chunk as it was read and brings it to the
\* version of the stripe.
LEMMA CalmWriteChunk ==
  ASSUME RepairTypeOK, RepairTypeOK', Calm, admin = "quick", NEW w \in QuickWrites, WriteChunk(w)
  PROVE  Calm' /\ Kept
<1> DEFINE k == w.chunk
<1>1. /\ k \in Chunks /\ w.expect = op[k] /\ w.version = Most.version /\ down = {}
      /\ written[k] = "PENDING" /\ drive[k] = op[k]
  BY ZenonT(60), QuickWriteType DEF WriteChunk, Calm, Undisturbed, QuickSound
<1>2. PutReply(drive[k], w.expect) = {"OK"}
  BY <1>1 DEF PutReply
<1>3. written' = [written EXCEPT ![k] = "OK"] /\ ApplyWrite(w, "OK") /\ UNCHANGED stray
  BY ZenonT(60), <1>1, <1>2 DEF WriteChunk
<1>4. drive' = [drive EXCEPT ![k] = Most.version]
  BY <1>1, <1>3 DEF ApplyWrite
<1>5. UNCHANGED <<down, op, pc, admin, operation>> /\ Most' = Most
  BY DEF WriteChunk, callVars, readVars, getVars, Most
<1>6. TypeOK /\ TypeOK' /\ Readable(Most.version)
      /\ written \in [Chunks -> Status \cup {"PENDING"}]
  BY DEF RepairTypeOK, Calm, QuickSound
<1> HIDE DEF k
<1>7. \A i \in Chunks : drive'[i] = IF i = k THEN Most.version ELSE drive[i]
  BY ZenonT(60), <1>1, <1>4, <1>6 DEF TypeOK
<1>8. PICK v : v = Most.version
  OBVIOUS
<1>9. Readable(v)' /\ \A u \in ChunkVersion : Readable(u) => Readable(u)'
  BY ZenonT(60), <1>6, <1>7, <1>8, KeepsReadable
<1>10. Readable(Most.version)'
  BY <1>5, <1>8, <1>9 DEF Readable
<1>11. QuickSound'
  BY ZenonT(60), <1>1, <1>3, <1>5, <1>6, <1>7, <1>10 DEF Calm, QuickSound
<1>12. Undisturbed'
  BY <1>3, <1>5 DEF Calm, Undisturbed, Idle
<1> QED BY ZenonT(60), <1>5, <1>9, <1>11, <1>12 DEF Calm, ReadsDrives, RemovalSound, RepairSound, Kept

\* When quick_repair has all results, the chunks agree.
LEMMA CalmQuickDone ==
  ASSUME RepairTypeOK, Calm, QuickDone
  PROVE  Calm'
<1>1. admin = "quick" /\ \A i \in Chunks : written[i] = "OK" /\ drive[i] = Most.version
  BY ZenonT(60) DEF QuickDone, Calm, QuickSound
<1>2. counted' = "repaired" /\ admin' = "markers" /\ UNCHANGED <<drive, pc, down, stray>>
  BY ZenonT(60), <1>1 DEF QuickDone, vars, driveVars, callVars, readVars
<1>3. Aligned'
  BY <1>1, <1>2 DEF Aligned
<1>4. Undisturbed'
  BY <1>1, <1>2 DEF Calm, Undisturbed, Idle
<1> QED BY ZenonT(60), <1>2, <1>3, <1>4 DEF Calm, ReadsDrives, QuickSound, RemovalSound, RepairSound

\* When the forced remove has returned, no chunk is left.
LEMMA CalmCallDone ==
  ASSUME RepairTypeOK, Calm, CallDone
  PROVE  Calm'
<1>1. admin = "remove" /\ pc[AdminCall] = "returned" /\ result[AdminCall] \in {"OK", "NOT_FOUND"}
  BY ZenonT(60) DEF CallDone, Calm, Undisturbed, RemovalSound
<1>2. \A i \in Chunks : drive[i] = Empty
  BY ZenonT(60), <1>1 DEF Calm, RemovalSound
<1>3. UNCHANGED <<drive, pc, down, stray, operation>>
  BY DEF CallDone, Bystanders, driveVars, callVars
<1>4. /\ admin' \in {"markers", "returned"}
      /\ operation.name = "REPAIR" => admin' = "markers" /\ counted' = "removed"
  BY <1>1 DEF CallDone, End
<1>5. Aligned'
  BY <1>2, <1>3 DEF Aligned
<1>6. Undisturbed'
  BY ZenonT(60), <1>1, <1>3, <1>4 DEF Calm, Undisturbed, Idle
<1> QED BY ZenonT(60), <1>3, <1>4, <1>5, <1>6 DEF Calm, ReadsDrives, QuickSound, RemovalSound, RepairSound

\* The handoff keys are deleted, none being out of reach.
LEMMA CalmHandoffKeys ==
  ASSUME RepairTypeOK, Calm, RemoveHandoffKeys
  PROVE  Calm'
<1>1. /\ admin = "markers" /\ admin' = "indicator" /\ handoff' = handoff \cap hidden
      /\ UNCHANGED <<drive, pc, down, stray, operation, counted>>
  BY DEF RemoveHandoffKeys, driveVars, callVars, readVars
<1>2. handoff' = {}
  BY <1>1 DEF RepairTypeOK, Calm, Undisturbed
<1>3. Undisturbed'
  BY <1>1 DEF Calm, Undisturbed, Idle
<1>4. RepairSound'
  BY ZenonT(60), <1>1, <1>2 DEF Calm, RepairSound, Aligned
<1> QED BY ZenonT(60), <1>1, <1>3, <1>4 DEF Calm, ReadsDrives, QuickSound, RemovalSound

\* The indicator key is deleted, no drive being down.
LEMMA CalmIndicatorKey ==
  ASSUME RepairTypeOK, Calm, RemoveIndicatorKey
  PROVE  Calm'
<1>1. /\ admin = "indicator" /\ admin' = "returned" /\ ~ indicator'
      /\ UNCHANGED <<drive, pc, down, stray, operation, handoff>>
      /\ operation.name = "REPAIR" => UNCHANGED counted
  BY DEF RemoveIndicatorKey, driveVars, callVars, readVars, Calm, Undisturbed
<1>2. Undisturbed'
  BY <1>1 DEF Calm, Undisturbed, Idle
<1>3. RepairSound'
  BY <1>1 DEF Calm, RepairSound, Aligned, RepairAligns, RepairGivesUpOnUnreadable
<1> QED BY ZenonT(60), <1>1, <1>2, <1>3 DEF Calm, ReadsDrives, QuickSound, RemovalSound

\* Of the clients only the operation's own remove takes steps: a chunk is removed, or
\* all are.
LEMMA OwnSteps ==
  ASSUME RepairTypeOK, Calm, ClientStep, quiet'
  PROVE  /\ admin = "remove" /\ pc[AdminCall] = "write"
         /\ (\E i \in Chunks : Serve(AdminCall, i)) \/ FinishWrite(AdminCall)
<1>1. /\ late' = late /\ \A c \in Calls \ {AdminCall} : pc'[c] = pc[c]
      /\ pc[AdminCall] = "ready" => pc'[AdminCall] = "ready"
      /\ down = {} /\ \A c \in Calls \ {AdminCall} : Idle(c)
      /\ admin # "remove" => Idle(AdminCall)
      /\ admin = "remove" => pc[AdminCall] \in {"write", "returned"}
  BY ZenonT(60) DEF ClientStep, Calm, Undisturbed, RemovalSound
<1>2. TypeOK /\ AdminCall \in Calls
  BY RepairAssumption DEF RepairTypeOK
<1>3. ASSUME NEW c \in Calls, Put(c) \/ Remove(c) PROVE FALSE
  <2>1. pc[c] = "ready" /\ pc'[c] = "write"
    BY ZenonT(60), <1>2, <1>3 DEF Put, Remove, Begin, TypeOK
  <2> QED BY ZenonT(60), <1>1, <2>1
<1>4. ASSUME NEW c \in Calls, CallStep(c) \/ Poll(c) \/ Expire(c) \/ Crash(c)
      PROVE  ~ Idle(c)
  BY ZenonT(60), <1>4 DEF CallStep, TimeOut, Serve, Pending, Executing, GetVersion, FinishWrite, Repair, Yield,
              NullVersion, AllSeen, FinishRepair, PutIndicatorKey, PutHandoffKeys, Poll, Expire,
              Crash, Idle
<1>5. ASSUME NEW q \in late, ServeLate(q) PROVE FALSE
  BY ZenonT(60), <1>1, <1>5 DEF ServeLate
<1>6. CallStep(AdminCall) \/ Poll(AdminCall) \/ Expire(AdminCall)
  BY ZenonT(60), <1>1, <1>3, <1>4, <1>5 DEF ClientStep, WriteStep
<1>7. admin = "remove" /\ pc[AdminCall] = "write"
  BY ZenonT(60), <1>1, <1>2, <1>4, <1>6 DEF Idle
<1> QED BY ZenonT(60), <1>1, <1>6, <1>7
        DEF CallStep, GetVersion, Repair, Yield, NullVersion, AllSeen, FinishRepair,
            PutIndicatorKey, PutHandoffKeys, Poll, Expire

\* The remove deletes a chunk, or finds it absent.
LEMMA CalmServe ==
  ASSUME RepairTypeOK, RepairTypeOK', Calm, admin = "remove", NEW i \in Chunks,
         Serve(AdminCall, i), UNCHANGED <<readVars, admin, operation, stray>>
  PROVE  Calm' /\ Kept
<1>1. /\ TypeOK /\ TypeOK' /\ AdminCall \in Calls /\ kind[AdminCall] = "remove"
      /\ expect[AdminCall][i] = AnyVersion
  BY ZenonT(60), RepairAssumption DEF RepairTypeOK, Calm, RemovalSound
<1>2. PICK r \in DeleteReply(drive[i], AnyVersion) :
        Apply(AdminCall, i, r) /\ status' = [status EXCEPT ![AdminCall][i] = r]
  BY ZenonT(60), <1>1 DEF Serve, Reply
<1>3. r \in {"OK", "NOT_FOUND"} /\ (r = "NOT_FOUND" => drive[i] = Empty)
  BY DEF DeleteReply
<1>4. \A j \in Chunks : drive'[j] = IF j = i THEN Empty ELSE drive[j]
  BY ZenonT(60), <1>1, <1>2, <1>3 DEF Apply, New, TypeOK
<1>5. UNCHANGED <<pc, kind, expect, result, down>>
  BY DEF Serve, readVars
<1>6. \A j \in Chunks : status'[AdminCall][j] = IF j = i THEN r ELSE status[AdminCall][j]
  BY ZenonT(60), <1>1, <1>2 DEF TypeOK
<1>7. pc[AdminCall] = "write"
  BY DEF Serve, Pending, Executing, Calm, RemovalSound
<1>8. operation.name # "RESET" =>
        Readable(Empty)' /\ \A v \in ChunkVersion : Readable(v) => Readable(v)'
  <2>1. SUFFICES ASSUME operation.name # "RESET"
                 PROVE  Readable(Empty)' /\ \A v \in ChunkVersion : Readable(v) => Readable(v)'
    OBVIOUS
  <2>2. Readable(Empty)
    BY ZenonT(60), <2>1 DEF Calm, RemovalSound
  <2> QED BY ZenonT(60), <1>1, <1>4, <2>2, KeepsReadable
<1>9. RemovalSound'
  BY ZenonT(60), <1>3, <1>4, <1>5, <1>6, <1>7, <1>8 DEF Calm, RemovalSound
<1>10. Undisturbed'
  BY <1>5 DEF Calm, Undisturbed, Idle
<1> QED BY ZenonT(60), <1>8, <1>9, <1>10 DEF Calm, ReadsDrives, QuickSound, RepairSound, Kept

\* The remove returns.
LEMMA CalmFinishWrite ==
  ASSUME RepairTypeOK, Calm, admin = "remove", FinishWrite(AdminCall),
         UNCHANGED <<readVars, admin, operation, stray>>
  PROVE  Calm' /\ Kept
<1>1. /\ TypeOK /\ AdminCall \in Calls /\ kind[AdminCall] = "remove"
      /\ status[AdminCall] \in [Chunks -> Status \cup {"PENDING"}]
  BY ZenonT(60), RepairAssumption DEF RepairTypeOK, Calm, RemovalSound, TypeOK
<1>2. \A i \in Chunks : status[AdminCall][i] \in {"OK", "NOT_FOUND"} /\ drive[i] = Empty
  BY ZenonT(60) DEF Calm, RemovalSound, FinishWrite, Finished
<1>3. status[AdminCall] \in [Chunks -> {"OK", "NOT_FOUND"}]
  BY ZenonT(60), <1>1, <1>2
<1>4. ~ Partial(AdminCall)
  BY ZenonT(60), <1>1, <1>2 DEF Partial, With
<1>5. /\ Verdict(Removed(status[AdminCall])) \in {"OK", "NOT_FOUND"}
      /\ ~ NeedsIndicator(AdminCall)
  BY ZenonT(60), <1>1, <1>3, RemoveVerdict DEF NeedsIndicator
<1>6. Conclude(AdminCall) /\ UNCHANGED <<drive, kind, status, expect, down>>
  BY <1>4 DEF FinishWrite, driveVars, readVars
<1>7. pc' = [pc EXCEPT ![AdminCall] = "returned"] /\ result'[AdminCall] \in {"OK", "NOT_FOUND"}
  BY ZenonT(60), <1>1, <1>5, <1>6 DEF Conclude, TypeOK
<1>8. RemovalSound'
  BY ZenonT(60), <1>1, <1>2, <1>6, <1>7 DEF Calm, RemovalSound, Readable, TypeOK
<1>9. Undisturbed'
  BY ZenonT(60), <1>1, <1>6, <1>7 DEF Calm, Undisturbed, Idle, TypeOK
<1> QED BY ZenonT(60), <1>6, <1>8, <1>9, SameKept DEF Calm, ReadsDrives, QuickSound, RepairSound

\* A step that leaves all variables alone.
LEMMA CalmStutter == Calm /\ UNCHANGED repairVars => Calm'
<1> SUFFICES ASSUME Calm, UNCHANGED repairVars PROVE Calm'
  OBVIOUS
<1>1. UNCHANGED <<drive, pc, kind, status, expect, result, handoff, indicator, down, op>>
  BY DEF repairVars, vars, driveVars, markers, callVars, readVars, getVars
<1>2. UNCHANGED <<admin, operation, written, stray, counted, quiet>>
  BY DEF repairVars, adminVars
<1>3. Undisturbed' /\ ReadsDrives' /\ RemovalSound'
  BY ZenonT(60), <1>1, <1>2 DEF Calm, Undisturbed, ReadsDrives, RemovalSound, Idle, Readable
<1>4. QuickSound'
  BY ZenonT(60), <1>1, <1>2 DEF Calm, QuickSound, Readable, Most
<1>5. RepairSound'
  BY <1>1, <1>2 DEF Calm, RepairSound, Aligned, RepairAligns, RepairGivesUpOnUnreadable,
                    RepairReturned, Readable
<1> QED BY ZenonT(60), <1>3, <1>4, <1>5 DEF Calm

\* A step of an operation that is left alone keeps what holds of it, and what is
\* readable.
LEMMA RepairNextCalm ==
  ASSUME RepairTypeOK, QuietInv, [RepairNext]_repairVars, quiet'
  PROVE  Calm' /\ (quiet => Kept)
<1>0. RepairTypeOK'
  BY RepairNextType
<1>1. ASSUME NEW name, NEW target, applyOperation(name, target) PROVE Calm' /\ ~ quiet
  BY ZenonT(60), <1>1, CalmApply DEF applyOperation, RepairTypeOK
<1> DEFINE Goal == quiet /\ Calm' /\ Kept
<1>2. ASSUME NEW i \in Chunks, Fetch(i), UNCHANGED adminVars PROVE Goal
  <2>1. quiet /\ UNCHANGED drive
    BY ZenonT(60), <1>2 DEF adminVars, Fetch, driveVars
  <2> QED BY ZenonT(60), <1>2, <2>1, CalmFetch, SameKept DEF QuietInv
<1>3. ASSUME scanKey PROVE Goal
  <2>1. quiet /\ UNCHANGED drive
    BY <1>3 DEF scanKey, Bystanders, driveVars
  <2> QED BY ZenonT(60), <1>3, <2>1, CalmScan, SameKept DEF QuietInv
<1>4. ASSUME repairKey PROVE Goal
  <2>1. quiet /\ UNCHANGED drive
    BY ZenonT(60), <1>4 DEF repairKey, Got, GetFails, Begin, vars, driveVars
  <2> QED BY <1>4, <2>1, CalmGet, SameKept DEF QuietInv
<1>5. ASSUME QuickDone PROVE Goal
  <2>1. quiet /\ UNCHANGED drive
    BY <1>5 DEF QuickDone, Begin, vars, driveVars
  <2> QED BY <1>5, <2>1, CalmQuickDone, SameKept DEF QuietInv
<1>6. ASSUME CallDone PROVE Goal
  <2>1. quiet /\ UNCHANGED drive
    BY ZenonT(60), <1>6 DEF CallDone, Bystanders, driveVars
  <2> QED BY <1>6, <2>1, CalmCallDone, SameKept DEF QuietInv
<1>7. ASSUME admin = "quick", NEW w \in QuickWrites, WriteChunk(w) PROVE Goal
  <2>1. quiet
    BY ZenonT(60), <1>7 DEF WriteChunk
  <2> QED BY ZenonT(60), <1>0, <1>7, <2>1, CalmWriteChunk DEF QuietInv
<1>8. ASSUME RemoveHandoffKeys PROVE Goal
  <2>1. quiet /\ UNCHANGED drive
    BY <1>8 DEF RemoveHandoffKeys, driveVars
  <2> QED BY <1>8, <2>1, CalmHandoffKeys, SameKept DEF QuietInv
<1>9. ASSUME RemoveIndicatorKey PROVE Goal
  <2>1. quiet /\ UNCHANGED drive
    BY <1>9 DEF RemoveIndicatorKey, driveVars
  <2> QED BY <1>9, <2>1, CalmIndicatorKey, SameKept DEF QuietInv
<1>10. ASSUME ClientStep PROVE Goal
  <2>1. quiet /\ UNCHANGED <<admin, operation, stray>>
    BY ZenonT(60), <1>10 DEF ClientStep
  <2>2. Calm /\ UNCHANGED readVars
    BY <1>10, <2>1, ClientNext DEF QuietInv
  <2>3. admin = "remove" /\ ((\E i \in Chunks : Serve(AdminCall, i)) \/ FinishWrite(AdminCall))
    BY <1>10, <2>2, OwnSteps
  <2>4. CASE FinishWrite(AdminCall)
    BY <2>1, <2>2, <2>3, <2>4, CalmFinishWrite
  <2>5. CASE \E i \in Chunks : Serve(AdminCall, i)
    BY ZenonT(60), <1>0, <2>1, <2>2, <2>3, <2>5, CalmServe
  <2> QED BY ZenonT(60), <2>3, <2>4, <2>5
<1>11. ASSUME NEW w \in stray, ServeStray(w) PROVE FALSE
  <2>1. quiet
    BY ZenonT(60), <1>11 DEF ServeStray
  <2> QED BY <2>1 DEF QuietInv, Calm, Undisturbed
<1>12. ASSUME UNCHANGED repairVars PROVE Goal
  <2>1. quiet /\ UNCHANGED drive
    BY <1>12 DEF repairVars, adminVars, vars, driveVars
  <2> QED BY ZenonT(60), <1>12, <2>1, CalmStutter, SameKept DEF QuietInv
<1>13. ~ DrivesStep
  BY DEF DrivesStep
<1> HIDE DEF Goal
<1>14. Goal \/ (Calm' /\ ~ quiet)
  BY ZenonT(60), <1>1, <1>2, <1>3, <1>4, <1>5, <1>6, <1>7, <1>8, <1>9, <1>10, <1>11, <1>12, <1>13
     DEF RepairNext, AdminStep
<1> QED BY <1>14 DEF Goal

\* No operation is under way in the beginning.
LEMMA RepairInitInv == RepairInit => RepairTypeOK /\ QuietInv
<1> SUFFICES ASSUME RepairInit PROVE RepairTypeOK /\ QuietInv
  OBVIOUS
<1>1. TypeOK
  BY InitType DEF RepairInit, ReadInit
<1>2. RepairTypeOK
  BY <1>1 DEF RepairInit, ReadInit, RepairTypeOK, Status, Obtained
<1> QED BY <1>2 DEF RepairInit, QuietInv

\* RepairTypeOK and QuietInv hold in every state of RepairSpec.
LEMMA RepairInvariant == RepairSpec => [](RepairTypeOK /\ QuietInv)
<1>1. RepairTypeOK /\ QuietInv /\ [RepairNext]_repairVars => (RepairTypeOK /\ QuietInv)'
  BY RepairNextType, RepairNextCalm DEF QuietInv
<1> QED BY <1>1, RepairInitInv, PTL DEF RepairSpec

-----------------------------------------------------------------------------
\* A repair that nothing interferes with and that does not count the key as
\* unrepairable leaves a stripe whose chunks agree, and, if it was after the
\* indicator key, neither an indicator nor a handoff key, whatever was on the drives
\* when it began: for every stripe, number of clients and of outages.
THEOREM RepairAlignsHolds == RepairSpec => []RepairAligns
<1>1. QuietInv => RepairAligns
  BY DEF QuietInv, Calm, RepairSound, RepairAligns, RepairReturned
<1> QED BY <1>1, RepairInvariant, PTL

\* A repair that nothing interferes with counts a key as unrepairable only if no
\* version of it, not even its absence, is on enough drives for a get.
THEOREM RepairGivesUpHolds == RepairSpec => []RepairGivesUpOnUnreadable
<1>1. QuietInv => RepairGivesUpOnUnreadable
  BY DEF QuietInv, Calm, RepairSound, RepairGivesUpOnUnreadable, RepairReturned
<1> QED BY <1>1, RepairInvariant, PTL

\* No step of a SCAN or REPAIR that nothing interferes with makes unreadable what a
\* get of the key would have returned, be it that the key does not exist.
THEOREM RepairKeepsValueHolds == RepairSpec => RepairKeepsValue
<1>1. RepairTypeOK /\ QuietInv /\ [RepairNext]_repairVars
        => [quiet /\ quiet' /\ operation.name # "RESET" =>
              \A v \in ChunkVersion : Readable(v) => Readable(v)']_repairVars
  BY RepairNextCalm DEF Kept
<1> QED BY <1>1, RepairInvariant, PTL DEF RepairSpec, RepairKeepsValue
=============================================================================
