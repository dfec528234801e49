-------------------- MODULE MCBackgroundOperationHandler --------------------
(* Instances of BackgroundOperationHandler for TLC. *)
EXTENDS BackgroundOperationHandler, TLC

CONSTANTS p1, p2, p3, s1, s2, s3

\* Producers and slots are interchangeable.
ThreadSymmetry == Permutations(Producers) \cup Permutations(Slots)

NoChange == {}
LargerOrNoQueue == {<<2, 1>>, <<1, 0>>}

\* The queue is given up for good.
LightNext == Next /\ (target[2] = 0 => UNCHANGED target)
LightSpec == Init /\ [][LightNext]_vars /\ Fairness
=============================================================================
