---------------------------- MODULE MCDataCache -----------------------------
(* Instances of DataCache for TLC. *)
EXTENDS DataCache, TLC

\* Blocks of one size.
Equal == [k \in Keys |-> 1]

\* Keys, threads and owners are interchangeable.
Symmetry == Permutations(Keys) \cup Permutations(Threads) \cup Permutations(Owners)

\* Flushes are queued one at a time once all the keys have had a block.
Used == {o \in Objects : key[o] # None}
LightNext == Next /\ (Cardinality(Used') = MaxObjects => Cardinality(flushing') <= 1)
LightSpec == Init /\ [][LightNext]_vars
=============================================================================
