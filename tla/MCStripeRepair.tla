--------------------------- MODULE MCStripeRepair ---------------------------
(***************************************************************************)
(* StripeRepair and the gets of StripeRead in one instance, with a bound   *)
(* on the load: two clients write while a third one reads, or one client   *)
(* writes and gets into trouble (it crashes, requests stay unanswered,     *)
(* drives come and go) while an administrator scans, repairs or resets the *)
(* stripe.  While the administrator is at work the drives change once.     *)
(***************************************************************************)
EXTENDS StripeRepair, TLC

Clients == Calls \ {AdminCall}

\* Clients differ only in what they choose to do, so they may be permuted.
ClientSymmetry == Permutations(Clients)

Begun == {c \in Clients : pc[c] # "ready"}
Crashed == {c \in Clients : pc[c] = "crashed"}
Troubled == faults > 0 \/ outages > 0 \/ Crashed # {} \/ admin # "idle"

\* A request of any kind stays without an answer although no drive is down.
Unanswered(c) ==
  /\ admin = "idle" /\ outages = 0 /\ Crashed = {}
  /\ \/ \E i \in Chunks : TimeOut(c, i) \/ GetVersion(c, i)
     \/ PutIndicatorKey(c) \/ PutHandoffKeys(c)
  /\ faults' > faults
  /\ UNCHANGED <<readVars, adminVars>>

\* A get and an operation of the administrator share op, so only one is made.
MixedNext ==
  /\ \/ RepairNext
     \/ (Get \/ GetStep) /\ UNCHANGED adminVars
     \/ \E c \in Clients : Unanswered(c)
  /\ admin' = "idle" \/ stage' = "idle"
  /\ Troubled' => Cardinality(Begun') <= 1
  /\ Crashed' # {} => outages' = 0
  /\ admin # "idle" /\ outages > 0 => outages' = outages
  /\ stage' # "idle" \/ (faults > 0 /\ outages = 0) => outages' = 0 /\ Crashed' = {}

MixedSpec == RepairInit /\ [][MixedNext]_repairVars
=============================================================================
