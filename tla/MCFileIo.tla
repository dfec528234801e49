------------------------------ MODULE MCFileIo ------------------------------
(* Instances of FileIo for TLC. *)
EXTENDS FileIo

CONSTANTS p1, p2

\* Stripes are as wide as the cluster, and complete.
ThreeDrives == 1..3
EverywhereHeld == [b \in 0..LastBlock |-> 1..3]

SmallWrites == {<<1, 2>>, <<2, 2>>}
SmallReads == {<<0, 4>>}
TwoMethods == [p \in Processes |->
  IF p = p1 THEN {"Create", "Open", "Write", "Read", "Stat", "Sync", "Close", "Truncate", "destroy"}
            ELSE {"Write", "Stat", "Remove", "attrSet", "attrDelete"}]

\* A failing request or an expiration with one call less.
LightNext == Next /\ (faults' > 0 \/ elapsed' > 0 => calls' < MaxCalls)
LightSpec == Init /\ [][LightNext]_vars

ReopenMethods == [p \in Processes |-> {"Open", "Stat", "Close", "Truncate"}]
=============================================================================
