-------------------- MODULE MCKineticClusterOperation -----------------------
EXTENDS KineticClusterOperation, TLC

CONSTANTS c1, c2

ClientSymmetry == Permutations({c1, c2})

\* The drive that is connected to again is the first; if a connection to it has
\* broken, no operation is executed again.
LightNext ==
  /\ Next
  /\ \A d \in Drives : elapses'[d] > 0 =>
       d = 1 /\ (broken'[d] # {} => \A c \in Clients : round'[c] <= 1)
LightSpec == Init /\ [][LightNext]_vars /\ Fairness
=============================================================================
