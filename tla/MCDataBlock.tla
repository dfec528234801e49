----------------------------- MODULE MCDataBlock ----------------------------
(* Instances of DataBlock for TLC. *)
EXTENDS DataBlock, TLC

CONSTANTS a, b

LetterSymmetry == Permutations(Letters)

\* An update less once the other client has been at work.
LightNext == Next /\ (versions' = MaxVersion /\ ~ regular' => Len(updates') < MaxUpdates)
LightSpec == Init /\ [][LightNext]_vars
=============================================================================
