---------------------------- MODULE MCClusterMap ----------------------------
(* A model-checking instance of ClusterMap. *)
EXTENDS ClusterMap, TLC

CONSTANT First

\* A usable cluster, an unusable one, and contents that are not loaded to the end.
SomeFiles ==
  {[info |-> [id \in Ids |-> "good"], error |-> "none"],
   [info |-> [id \in Ids |-> "oversized"], error |-> "none"],
   [info |-> [id \in Ids |-> "good"], error |-> "configuration"]}

\* The threads are alike: the one that makes the first call is First.  A request that
\* is not answered and a period of more than two seconds come with one call less.
LightNext ==
  /\ Next
  /\ count.calls = 0 => \A t \in Threads \ {First} : UNCHANGED thread[t]
  /\ count'.faults > 0 /\ count'.elapsed > 0 => count'.calls < MaxCalls

LightSpec == Init /\ [][LightNext]_vars /\ Fairness
=============================================================================
