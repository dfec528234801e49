---------------------------- MODULE MCStripeRead ----------------------------
(***************************************************************************)
(* StripeRead with a bound on the load: two calls one of which may crash   *)
(* or get no answer, or one call with a get and a drive that fails and     *)
(* comes back.                                                             *)
(* Calls differ only in what they choose to do, so the one that crashes,   *)
(* that gets no answer, or that is made together with a get, may be taken  *)
(* to be First.                                                            *)
(***************************************************************************)
EXTENDS StripeRead, TLC

CONSTANT First

\* The stripe models give each chunk a drive of its own.  DistinctDrives of
\* KineticClusterOperationProofs shows that for the drives which Drive names; the loop
\* of the code goes to these drives.
Placement == INSTANCE ChunkPlacement

ASSUME PlacementAssumption == Placement!WalkIsDrive(0..63, 1..7, 64)

Begun == {c \in Calls : pc[c] # "ready"}
Crashed == {c \in Calls : pc[c] = "crashed"}

\* A request for a version, or for a marker key, stays without an answer although no
\* drive is down.
Unanswered(c) ==
  /\ Crashed = {}
  /\ \/ \E i \in Chunks : GetVersion(c, i) /\ seen'[c][i] = NoVersion
     \/ (PutIndicatorKey(c) \/ PutHandoffKeys(c)) /\ faults' > faults
  /\ UNCHANGED readVars

LightNext ==
  /\ \/ ReadNext
     \/ faults = 0 /\ Crash(First) /\ UNCHANGED readVars
     \/ Unanswered(First)
  /\ (stage' # "idle" \/ outages' > 0) =>
       Begun' = {First} /\ Crashed' = {}
  /\ faults' > 0 => outages' > 0 \/ (stage' = "idle" /\ faults' = 1)

FairLightSpec == ReadInit /\ [][LightNext]_<<vars, readVars>> /\ ReadFairness
=============================================================================
