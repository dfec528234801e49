-------------------------------- MODULE Loops -------------------------------
(***************************************************************************)
(* Induction over numbers, for the loops of the code.  A loop is a         *)
(* recursive function of the number of its turns; what holds at each of    *)
(* them is shown with CountingUp, that there is such a function with       *)
(* Turns.                                                                  *)
(***************************************************************************)
EXTENDS Integers, WellFoundedInduction, TLAPS

\* A set of numbers that is not empty has a least element.
LEMMA LeastNumber ==
  ASSUME NEW T, T \subseteq Nat, T # {}
  PROVE  \E x \in T : \A y \in T : x <= y
<1> DEFINE R == {r \in Nat \X Nat : r[1] < r[2]}
<1>1. IsWellFoundedOn(R, Nat)
  BY Zenon, NatLessThanWellFounded DEF OpToRel
<1>2. PICK x \in T : \A y \in T : <<y, x>> \notin R
  BY Zenon, <1>1, WFMin
<1>3. ASSUME NEW y \in T PROVE x <= y
  <2>1. x \in Nat /\ y \in Nat /\ <<y, x>> \notin R
    BY <1>2
  <2> QED BY SMT, <2>1
<1> QED BY <1>3

\* A set of numbers up to N that is closed under successors has all of them.
LEMMA CountingUp ==
  ASSUME NEW N \in Nat, NEW B, 0 \in B, \A n \in 1..N : n - 1 \in B => n \in B
  PROVE  \A n \in 0..N : n \in B
<1> DEFINE Missing == {n \in 0..N : n \notin B}
<1>1. SUFFICES ASSUME Missing # {} PROVE FALSE
  OBVIOUS
<1>2. PICK x \in Missing : \A y \in Missing : x <= y
  <2>1. Missing \subseteq Nat
    OBVIOUS
  <2> QED BY Zenon, <1>1, <2>1, LeastNumber
<1>3. x \in 1..N /\ x - 1 \in 0..N /\ ~ (x <= x - 1)
  OBVIOUS
<1>4. x - 1 \in B
  BY <1>2, <1>3
<1> QED BY <1>3, <1>4

\* The runs of a loop of N turns over values in T that starts with a, when F[n]
\* is what turn n does.
Runs(N, T, a, F) ==
  {g \in [0..N -> T] : g[0] = a /\ \A n \in 1..N : g[n] = F[n][g[n - 1]]}

\* Every loop has a run.
LEMMA Turns ==
  ASSUME NEW N \in Nat, NEW T, NEW a \in T, NEW F \in [1..N -> [T -> T]]
  PROVE  Runs(N, T, a, F) # {}
<1> DEFINE Run(m, g) == g[0] = a /\ \A n \in 1..m : g[n] = F[n][g[n - 1]]
           B == {m \in 0..N : \E g \in [0..m -> T] : Run(m, g)}
<1>1. 0 \in B
  <2> DEFINE g == [n \in 0..0 |-> a]
  <2>1. g \in [0..0 -> T] /\ Run(0, g)
    OBVIOUS
  <2> HIDE DEF g, Run
  <2> QED BY <2>1
<1>2. ASSUME NEW m \in 1..N, m - 1 \in B PROVE m \in B
  <2>1. PICK g \in [0..(m - 1) -> T] : Run(m - 1, g)
    BY <1>2
  <2>2. m - 1 \in 0..(m - 1) /\ g[m - 1] \in T
    OBVIOUS
  <2> DEFINE h == [n \in 0..m |-> IF n = m THEN F[m][g[m - 1]] ELSE g[n]]
  <2>3. h \in [0..m -> T]
    BY <2>2
  <2>4. \A n \in 0..m : h[n] = IF n = m THEN F[m][g[m - 1]] ELSE g[n]
    OBVIOUS
  <2> HIDE DEF h
  <2>5. h[0] = a
    BY <2>1, <2>4
  <2>6. ASSUME NEW n \in 1..m PROVE h[n] = F[n][h[n - 1]]
    <3>1. h[n - 1] = g[n - 1]
      BY <2>4
    <3>2. n # m => n \in 1..(m - 1) /\ h[n] = g[n]
      BY <2>4
    <3>3. CASE n = m
      <4>1. h[m] = F[m][g[m - 1]]
        BY <2>4
      <4> QED BY ZenonT(20), <3>1, <3>3, <4>1
    <3>4. CASE n # m
      <4>1. g[n] = F[n][g[n - 1]]
        BY ZenonT(20), <2>1, <3>2, <3>4
      <4> QED BY ZenonT(20), <3>1, <3>2, <3>4, <4>1
    <3> QED BY <3>3, <3>4
  <2>7. Run(m, h)
    BY <2>5, <2>6
  <2> HIDE DEF Run
  <2> QED BY <2>3, <2>7
<1>3. N \in B
  <2> HIDE DEF B
  <2>1. \A n \in 0..N : n \in B
    BY Zenon, <1>1, <1>2, CountingUp
  <2> QED BY <2>1
<1>4. PICK g \in [0..N -> T] : Run(N, g)
  BY <1>3
<1> QED BY <1>4 DEF Runs
=============================================================================
