--------------------------- MODULE DataCacheProofs --------------------------
(***************************************************************************)
(* Proofs about DataCache, for any number of owners, keys, threads and     *)
(* block objects, any sizes of blocks and any capacities.                  *)
(***************************************************************************)
EXTENDS DataCache, SequenceTheorems, FiniteSetTheorems, Loops, TLAPS

-----------------------------------------------------------------------------
(***************************************************************************)
(* Sums.                                                                   *)
(***************************************************************************)

\* The prefix sums of a sequence of numbers are what their definition says.
LEMMA SumsIs ==
  ASSUME NEW q \in Seq(Nat)
  PROVE  /\ Sums(q) \in [0..Len(q) -> Nat] /\ Sums(q)[0] = 0
         /\ \A n \in 1..Len(q) : Sums(q)[n] = Sums(q)[n - 1] + q[n]
<1> DEFINE N == Len(q)
           F == [n \in 1..N |-> [x \in Nat |-> x + q[n]]]
<1>1. N \in Nat /\ F \in [1..N -> [Nat -> Nat]]
  OBVIOUS
<1>2. \A n \in 1..N, x \in Nat : F[n][x] = x + q[n]
  OBVIOUS
<1> HIDE DEF F, N
<1>3. PICK g \in [0..N -> Nat] : g[0] = 0 /\ \A n \in 1..N : g[n] = F[n][g[n - 1]]
  <2>1. 0 \in Nat
    OBVIOUS
  <2>2. Runs(N, Nat, 0, F) # {}
    BY Zenon, <1>1, <2>1, Turns
  <2> QED BY Zenon, <2>2 DEF Runs
<1>4. ASSUME NEW n \in 1..N PROVE g[n] = g[n - 1] + q[n]
  <2>1. n - 1 \in 0..N
    BY <1>1
  <2>2. g[n - 1] \in Nat
    BY Zenon, <1>3, <2>1
  <2> QED BY Zenon, <1>2, <1>3, <2>2
<1> DEFINE Is(f) == f = [n \in 0..N |-> IF n = 0 THEN 0 ELSE f[n - 1] + q[n]]
<1>5. Is(g)
  BY <1>1, <1>3, <1>4
<1>6. Sums(q) = CHOOSE f : Is(f)
  BY Zenon DEF Sums, N
<1>7. Is(Sums(q))
  <2> HIDE DEF Is
  <2> QED BY Zenon, <1>5, <1>6
<1> DEFINE f == Sums(q)
           B == {n \in 0..N : f[n] = g[n]}
<1>8. /\ f = [n \in 0..N |-> f[n]] /\ f[0] = 0
      /\ \A n \in 1..N : f[n] = f[n - 1] + q[n]
  <2>1. f = [n \in 0..N |-> IF n = 0 THEN 0 ELSE f[n - 1] + q[n]]
    BY Zenon, <1>7
  <2> HIDE DEF f
  <2>2. f = [n \in 0..N |-> f[n]] /\ \A n \in 0..N : f[n] = IF n = 0 THEN 0 ELSE f[n - 1] + q[n]
    BY Zenon, <2>1
  <2>3. 0 \in 0..N /\ \A n \in 1..N : n \in 0..N /\ n # 0
    BY <1>1
  <2> QED BY Zenon, <2>2, <2>3
<1>9. \A n \in 0..N : n \in B
  <2>1. 0 \in B
    BY <1>1, <1>3, <1>8
  <2>2. ASSUME NEW n \in 1..N, n - 1 \in B PROVE n \in B
    <3>1. f[n] = f[n - 1] + q[n] /\ g[n] = g[n - 1] + q[n] /\ f[n - 1] = g[n - 1]
      BY Zenon, <1>4, <1>8, <2>2
    <3>2. n \in 0..N
      BY <1>1
    <3> QED BY Zenon, <3>1, <3>2
  <2> HIDE DEF B
  <2> QED BY Zenon, <1>1, <2>1, <2>2, CountingUp
<1>10. f = g
  BY Zenon, <1>3, <1>8, <1>9
<1> QED BY Zenon, <1>3, <1>4, <1>10 DEF N

\* Sequence p is q without its element at position i.
Without(p, q, i) ==
  /\ Len(p) = Len(q) - 1
  /\ \A j \in 1..(Len(q) - 1) : p[j] = IF j < i THEN q[j] ELSE q[j + 1]

\* The order of three summands.
LEMMA SumOfThree == \A x, y, z \in Nat : (x + y) + z = (x + z) + y
OBVIOUS

\* Taking a number out of a sequence takes it out of the sum.
LEMMA SumWithout ==
  ASSUME NEW q \in Seq(Nat), NEW p \in Seq(Nat), NEW i \in 1..Len(q), Without(p, q, i)
  PROVE  Sums(p)[Len(p)] + q[i] = Sums(q)[Len(q)]
<1> DEFINE P == Sums(p)
           Q == Sums(q)
           N == Len(q)
           B == {n \in 0..N : IF n < i THEN P[n] = Q[n] ELSE P[n - 1] + q[i] = Q[n]}
<1>0. /\ N \in Nat /\ i \in 1..N /\ Len(p) = N - 1 /\ q[i] \in Nat
      /\ \A j \in 1..N : q[j] \in Nat
      /\ \A j \in 1..(N - 1) : p[j] = IF j < i THEN q[j] ELSE q[j + 1]
  BY DEF Without
<1>1. /\ P \in [0..(N - 1) -> Nat] /\ P[0] = 0
      /\ \A n \in 1..(N - 1) : P[n] = P[n - 1] + p[n]
  BY ZenonT(60), <1>0, SumsIs
<1>2. /\ Q \in [0..N -> Nat] /\ Q[0] = 0
      /\ \A n \in 1..N : Q[n] = Q[n - 1] + q[n]
  BY SumsIs
<1> HIDE DEF P, Q, N
<1>3. \A n \in 0..N :
        n \in B <=> (n < i => P[n] = Q[n]) /\ (~ (n < i) => P[n - 1] + q[i] = Q[n])
  OBVIOUS
<1> HIDE DEF B
<1>4. 0 \in B
  <2>1. 0 \in 0..N /\ 0 < i
    BY <1>0
  <2> QED BY Zenon, <1>1, <1>2, <1>3, <2>1
<1>5. ASSUME NEW n \in 1..N, n - 1 \in B PROVE n \in B
  <2>0. n \in 0..N /\ n - 1 \in 0..N
    BY <1>0
  <2>1. Q[n] = Q[n - 1] + q[n] /\ Q[n - 1] \in Nat /\ q[n] \in Nat
    BY Zenon, <1>0, <1>2, <2>0
  <2>2. CASE n < i
    <3>1. n - 1 < i /\ n \in 1..(N - 1)
      BY <1>0, <2>2
    <3>2. P[n] = P[n - 1] + p[n] /\ p[n] = q[n]
      BY Zenon, <1>0, <1>1, <2>2, <3>1
    <3>3. P[n - 1] = Q[n - 1]
      BY Zenon, <1>3, <1>5, <2>0, <3>1
    <3>4. P[n] = Q[n]
      BY Zenon, <2>1, <3>2, <3>3
    <3> QED BY Zenon, <1>3, <2>0, <2>2, <3>4
  <2>3. CASE n = i
    <3>1. n - 1 < i /\ ~ (n < i)
      BY <1>0, <2>3
    <3>2. P[n - 1] = Q[n - 1]
      BY Zenon, <1>3, <1>5, <2>0, <3>1
    <3>3. P[n - 1] + q[i] = Q[n]
      BY Zenon, <2>1, <2>3, <3>2
    <3> QED BY Zenon, <1>3, <2>0, <3>1, <3>3
  <2>4. CASE n > i
    <3>1. /\ n - 1 \in 1..(N - 1) /\ ~ (n - 1 < i) /\ ~ (n < i) /\ (n - 1) + 1 = n
          /\ (n - 1) - 1 \in 0..(N - 1)
      BY <1>0, <2>4
    <3>2. P[n - 1] = P[(n - 1) - 1] + p[n - 1] /\ p[n - 1] = q[n] /\ P[(n - 1) - 1] \in Nat
      BY Zenon, <1>0, <1>1, <3>1
    <3>3. P[(n - 1) - 1] + q[i] = Q[n - 1]
      BY Zenon, <1>3, <1>5, <2>0, <3>1
    <3>4. (P[(n - 1) - 1] + q[n]) + q[i] = (P[(n - 1) - 1] + q[i]) + q[n]
      BY ZenonT(60), <1>0, <2>1, <3>2, SumOfThree
    <3>5. P[n - 1] + q[i] = Q[n]
      BY Zenon, <2>1, <3>2, <3>3, <3>4
    <3> QED BY Zenon, <1>3, <2>0, <3>1, <3>5
  <2> QED BY <1>0, <2>2, <2>3, <2>4
<1>6. \A n \in 0..N : n \in B
  BY Zenon, <1>0, <1>4, <1>5, CountingUp
<1>7. P[N - 1] + q[i] = Q[N]
  <2>1. N \in 0..N /\ ~ (N < i)
    BY <1>0
  <2> QED BY Zenon, <1>3, <1>6, <2>1
<1> QED BY Zenon, <1>0, <1>7 DEF P, Q, N

-----------------------------------------------------------------------------
(***************************************************************************)
(* Lists.                                                                  *)
(***************************************************************************)

\* No object is twice in a list.
Distinct(s) == \A i, j \in 1..Len(s) : s[i] = s[j] => i = j

\* The objects of a list.
LEMMA RangeIs ==
  ASSUME NEW S, NEW s \in Seq(S)
  PROVE  Range(s) = {s[i] : i \in 1..Len(s)}
BY DEF Range

\* What erasing a position does.
LEMMA EraseAt ==
  ASSUME NEW S, NEW s \in Seq(S), NEW i \in 1..Len(s)
  PROVE  LET l == SubSeq(s, 1, i - 1) \o SubSeq(s, i + 1, Len(s))
         IN  l \in Seq(S) /\ Without(l, s, i)
<1> DEFINE f == SubSeq(s, 1, i - 1)
           b == SubSeq(s, i + 1, Len(s))
<1>1. f \in Seq(S) /\ Len(f) = i - 1 /\ \A j \in 1..(i - 1) : f[j] = s[j]
  OBVIOUS
<1>2. b \in Seq(S) /\ Len(b) = Len(s) - i /\ \A j \in 1..(Len(s) - i) : b[j] = s[i + j]
  OBVIOUS
<1> SUFFICES f \o b \in Seq(S) /\ Without(f \o b, s, i)
  BY Zenon
<1> HIDE DEF f, b
<1>4. /\ f \o b \in Seq(S) /\ Len(f \o b) = Len(s) - 1
      /\ \A j \in 1..(Len(s) - 1) : (f \o b)[j] = IF j < i THEN f[j] ELSE b[j - (i - 1)]
  <2>1. /\ f \o b \in Seq(S) /\ Len(f \o b) = Len(f) + Len(b)
        /\ \A j \in 1..(Len(f) + Len(b)) :
             (f \o b)[j] = IF j <= Len(f) THEN f[j] ELSE b[j - Len(f)]
    BY Zenon, <1>1, <1>2, ConcatProperties
  <2>2. Len(f) + Len(b) = Len(s) - 1 /\ \A j \in 1..(Len(s) - 1) : j <= Len(f) <=> j < i
    BY <1>1, <1>2
  <2>3. \A j \in 1..(Len(s) - 1) : (f \o b)[j] = IF j < i THEN f[j] ELSE b[j - Len(f)]
    BY Zenon, <2>1, <2>2
  <2> QED BY Zenon, <1>1, <2>1, <2>2, <2>3
<1>5. ASSUME NEW j \in 1..(Len(s) - 1) PROVE (f \o b)[j] = IF j < i THEN s[j] ELSE s[j + 1]
  <2>1. CASE j < i
    BY <1>1, <1>4, <2>1
  <2>2. CASE ~ (j < i)
    <3>1. j - (i - 1) \in 1..(Len(s) - i) /\ i + (j - (i - 1)) = j + 1
      BY <2>2
    <3> QED BY ZenonT(60), <1>2, <1>4, <2>2, <3>1
  <2> QED BY ZenonT(60), <2>1, <2>2
<1> QED BY <1>4, <1>5 DEF Without

\* Erasing an object erases the position it is at.
LEMMA EraseIs ==
  ASSUME NEW S, NEW s \in Seq(S), NEW e
  PROVE  /\ Erase(s, e) \in Seq(S)
         /\ e \in Range(s) => \E i \in 1..Len(s) : s[i] = e /\ Without(Erase(s, e), s, i)
         /\ e \notin Range(s) => Erase(s, e) = s
<1>1. Range(s) = {s[i] : i \in 1..Len(s)} /\ DOMAIN s = 1..Len(s)
  BY DEF Range
<1>2. CASE e \notin Range(s)
  BY Zenon, <1>2 DEF Erase
<1>3. CASE e \in Range(s)
  <2> DEFINE i == CHOOSE j \in DOMAIN s : s[j] = e
  <2>1. i \in 1..Len(s) /\ s[i] = e
    BY Zenon, <1>1, <1>3
  <2>2. Erase(s, e) = SubSeq(s, 1, i - 1) \o SubSeq(s, i + 1, Len(s))
    BY Zenon, <1>3 DEF Erase
  <2> HIDE DEF i
  <2> QED BY Zenon, <1>3, <2>1, <2>2, EraseAt
<1> QED BY Zenon, <1>2, <1>3

\* The objects of a list without one position.
LEMMA WithoutIs ==
  ASSUME NEW S, NEW q \in Seq(S), NEW p \in Seq(S), NEW i \in 1..Len(q), Without(p, q, i),
         Distinct(q)
  PROVE  Range(p) = Range(q) \ {q[i]} /\ Distinct(p)
<1>0. /\ Len(p) = Len(q) - 1 /\ Len(q) \in Nat
      /\ \A j \in 1..(Len(q) - 1) : p[j] = IF j < i THEN q[j] ELSE q[j + 1]
      /\ Range(p) = {p[j] : j \in 1..Len(p)} /\ Range(q) = {q[j] : j \in 1..Len(q)}
  BY DEF Without, Range
<1> DEFINE to(j) == IF j < i THEN j ELSE j + 1
<1>1. \A j \in 1..Len(p) : to(j) \in 1..Len(q) /\ to(j) # i /\ p[j] = q[to(j)]
  BY <1>0
<1>2. \A j, k \in 1..Len(p) : to(j) = to(k) => j = k
  BY <1>0
<1>3. ASSUME NEW m \in 1..Len(q), m # i PROVE \E j \in 1..Len(p) : m = to(j)
  <2>1. CASE m < i
    <3>1. m \in 1..Len(p) /\ m = to(m)
      BY <1>0, <2>1
    <3> QED BY <3>1
  <2>2. CASE m > i
    <3>1. m - 1 \in 1..Len(p) /\ m = to(m - 1)
      BY <1>0, <2>2
    <3> QED BY <3>1
  <2> QED BY <1>0, <1>3, <2>1, <2>2
<1> HIDE DEF to
<1>4. Range(p) \subseteq Range(q) \ {q[i]}
  <2>1. ASSUME NEW j \in 1..Len(p) PROVE p[j] \in Range(q) /\ p[j] # q[i]
    <3>1. to(j) \in 1..Len(q) /\ to(j) # i /\ p[j] = q[to(j)]
      BY Zenon, <1>1
    <3>2. q[to(j)] # q[i]
      BY Zenon, <3>1 DEF Distinct
    <3> QED BY Zenon, <1>0, <3>1, <3>2
  <2> QED BY <1>0, <2>1
<1>5. Range(q) \ {q[i]} \subseteq Range(p)
  <2>1. ASSUME NEW m \in 1..Len(q), q[m] # q[i] PROVE q[m] \in Range(p)
    <3>1. PICK j \in 1..Len(p) : m = to(j)
      BY Zenon, <1>3, <2>1
    <3> QED BY Zenon, <1>0, <1>1, <3>1
  <2> QED BY ZenonT(60), <1>0, <2>1
<1>6. Distinct(p)
  BY Zenon, <1>1, <1>2 DEF Distinct
<1> QED BY <1>4, <1>5, <1>6

\* A list from which nothing is missing but its first object.
LEMMA PushIs ==
  ASSUME NEW S, NEW p \in Seq(S), NEW e \in S
  PROVE  /\ <<e>> \o p \in Seq(S) /\ Without(p, <<e>> \o p, 1) /\ (<<e>> \o p)[1] = e
         /\ Len(<<e>> \o p) = Len(p) + 1
         /\ Range(<<e>> \o p) = Range(p) \cup {e}
         /\ e \notin Range(p) /\ Distinct(p) => Distinct(<<e>> \o p)
<1> DEFINE q == <<e>> \o p
<1>1. <<e>> \in Seq(S) /\ Len(<<e>>) = 1 /\ <<e>>[1] = e /\ Len(p) \in Nat
  OBVIOUS
<1>2. /\ q \in Seq(S) /\ Len(q) = 1 + Len(p)
      /\ \A j \in 1..(1 + Len(p)) : q[j] = IF j <= 1 THEN <<e>>[j] ELSE p[j - 1]
  <2>1. /\ q \in Seq(S) /\ Len(q) = Len(<<e>>) + Len(p)
        /\ \A j \in 1..(Len(<<e>>) + Len(p)) :
             q[j] = IF j <= Len(<<e>>) THEN <<e>>[j] ELSE p[j - Len(<<e>>)]
    BY Zenon, <1>1, ConcatProperties
  <2> QED BY Zenon, <1>1, <2>1
<1> HIDE DEF q
<1>3. q[1] = e /\ Len(q) = Len(p) + 1
  BY <1>1, <1>2
<1>4. \A j \in 1..Len(p) : j + 1 \in 1..Len(q) /\ q[j + 1] = p[j]
  BY <1>1, <1>2
<1>5. Without(p, q, 1)
  <2>1. \A j \in 1..(Len(q) - 1) : p[j] = IF j < 1 THEN q[j] ELSE q[j + 1]
    <3>1. 1..(Len(q) - 1) = 1..Len(p) /\ \A j \in 1..Len(p) : ~ (j < 1)
      BY <1>1, <1>3
    <3> QED BY Zenon, <1>4, <3>1
  <2>2. Len(p) = Len(q) - 1
    BY <1>1, <1>3
  <2> QED BY Zenon, <2>1, <2>2 DEF Without
<1>6. \A j \in 1..Len(q) : j = 1 \/ (j - 1 \in 1..Len(p) /\ q[j] = p[j - 1])
  BY <1>1, <1>2
<1>7. Range(p) = {p[j] : j \in 1..Len(p)} /\ Range(q) = {q[j] : j \in 1..Len(q)}
  BY Zenon, <1>2, RangeIs
<1>8. Range(q) \subseteq Range(p) \cup {e}
  <2>1. ASSUME NEW j \in 1..Len(q) PROVE q[j] \in Range(p) \cup {e}
    BY Zenon, <1>3, <1>6, <1>7
  <2> QED BY Zenon, <1>7, <2>1
<1>9. Range(p) \cup {e} \subseteq Range(q)
  <2>1. 1 \in 1..Len(q)
    BY <1>1, <1>3
  <2> QED BY Zenon, <1>3, <1>4, <1>7, <2>1
<1>10. ASSUME e \notin Range(p), Distinct(p) PROVE Distinct(q)
  <2>1. ASSUME NEW j \in 1..Len(q), NEW k \in 1..Len(q), q[j] = q[k] PROVE j = k
    <3>1. CASE j = 1 \/ k = 1
      BY Zenon, <1>3, <1>6, <1>7, <1>10, <2>1, <3>1
    <3>2. CASE j # 1 /\ k # 1
      <4>1. j - 1 = k - 1
        BY Zenon, <1>6, <1>10, <2>1, <3>2 DEF Distinct
      <4> QED BY <1>1, <1>3, <4>1
    <3> QED BY <3>1, <3>2
  <2> QED BY <2>1 DEF Distinct
<1> QED BY <1>2, <1>3, <1>5, <1>8, <1>9, <1>10 DEF q

-----------------------------------------------------------------------------
(***************************************************************************)
(* The structures of the cache, and what keeps them in agreement.          *)
(***************************************************************************)

\* The structures, with sizes that may be wrong.
Records ==
  [cache : Seq(Objects), unused_items : Seq(Objects), owners : [Objects -> SUBSET Owners],
   lookup : [Keys -> Objects \cup {None}], owner_tables : [Owners -> SUBSET Objects],
   current_size : Int, unused_size : Int]

Keyed(at, l) == \A o \in Range(l) : at[o] \in Keys

\* The structures agree with each other and with the keys of the objects.
Coherent(at, s) ==
  /\ s \in Records
  /\ Distinct(s.cache) /\ Distinct(s.unused_items)
  /\ Range(s.cache) \cap Range(s.unused_items) = {}
  /\ Keyed(at, s.cache) /\ Keyed(at, s.unused_items)
  /\ \A o \in Range(s.cache) : s.lookup[at[o]] = o
  /\ \A k \in Keys : s.lookup[k] # None => s.lookup[k] \in Range(s.cache) /\ at[s.lookup[k]] = k
  /\ \A w \in Owners : s.owner_tables[w] = {o \in Range(s.cache) : w \in s.owners[o]}
  /\ s.current_size = Total(at, s.cache)
  /\ s.unused_size = Total(at, s.unused_items)

\* The capacities of the objects of a list.
LEMMA SizesAre ==
  ASSUME NEW at, NEW l \in Seq(Objects), Keyed(at, l)
  PROVE  /\ Sizes(at, l) \in Seq(Nat) /\ Len(Sizes(at, l)) = Len(l)
         /\ \A i \in 1..Len(l) : Sizes(at, l)[i] = Size[at[l[i]]]
         /\ Total(at, l) \in Nat
<1>1. \A i \in 1..Len(l) : Size[at[l[i]]] \in Nat
  BY CacheAssumption, RangeIs DEF Keyed
<1>2. Sizes(at, l) = [i \in 1..Len(l) |-> Size[at[l[i]]]] /\ Len(l) \in Nat
  BY DEF Sizes
<1>3. /\ Sizes(at, l) \in Seq(Nat) /\ Len(Sizes(at, l)) = Len(l)
      /\ \A i \in 1..Len(l) : Sizes(at, l)[i] = Size[at[l[i]]]
  <2> DEFINE N == Len(l)
             f == Sizes(at, l)
  <2>1. f \in [1..N -> Nat] /\ \A i \in 1..N : f[i] = Size[at[l[i]]]
    BY Zenon, <1>1, <1>2
  <2>2. N \in Nat
    BY <1>2
  <2> HIDE DEF N, f
  <2>3. f \in Seq(Nat) /\ Len(f) = N
    BY <2>1, <2>2
  <2> QED BY Zenon, <2>1, <2>3 DEF N, f
<1>4. Sums(Sizes(at, l)) \in [0..Len(l) -> Nat] /\ Len(l) \in 0..Len(l)
  <2>1. Sums(Sizes(at, l)) \in [0..Len(Sizes(at, l)) -> Nat]
    BY Zenon, <1>3, SumsIs
  <2>2. Len(l) \in 0..Len(l)
    BY <1>2
  <2> QED BY Zenon, <1>3, <2>1, <2>2
<1> QED BY Zenon, <1>3, <1>4 DEF Total

\* The objects of a list have kept their keys.
Keeps(at, now, l) == \A o \in Range(l) : now[o] = at[o]

\* The capacities of a list whose objects have kept their keys.
LEMMA SameKeys ==
  ASSUME NEW at, NEW now, NEW l \in Seq(Objects), Keyed(at, l), Keeps(at, now, l)
  PROVE  Keyed(now, l) /\ Total(now, l) = Total(at, l)
<1>1. \A i \in 1..Len(l) : Size[now[l[i]]] = Size[at[l[i]]]
  BY Zenon, RangeIs DEF Keeps
<1>2. Sizes(now, l) = Sizes(at, l)
  BY Zenon, <1>1 DEF Sizes
<1> QED BY Zenon, <1>2 DEF Keyed, Total, Keeps

\* The capacities of a list without one position.
LEMMA TotalWithout ==
  ASSUME NEW at, NEW q \in Seq(Objects), NEW p \in Seq(Objects), NEW i \in 1..Len(q),
         Without(p, q, i), Keyed(at, q), Keyed(at, p)
  PROVE  Total(at, p) + Size[at[q[i]]] = Total(at, q)
<1>1. /\ Sizes(at, q) \in Seq(Nat) /\ Len(Sizes(at, q)) = Len(q) /\ Len(q) \in Nat
      /\ \A j \in 1..Len(q) : Sizes(at, q)[j] = Size[at[q[j]]]
  BY SizesAre
<1>2. /\ Sizes(at, p) \in Seq(Nat) /\ Len(Sizes(at, p)) = Len(p) /\ Len(p) = Len(q) - 1
      /\ \A j \in 1..Len(p) : Sizes(at, p)[j] = Size[at[p[j]]]
  BY SMTT(60), SizesAre DEF Without
<1>3. Without(Sizes(at, p), Sizes(at, q), i)
  <2>1. ASSUME NEW j \in 1..(Len(q) - 1)
        PROVE  Sizes(at, p)[j] = IF j < i THEN Sizes(at, q)[j] ELSE Sizes(at, q)[j + 1]
    <3>1. j \in 1..Len(p) /\ j \in 1..Len(q) /\ j + 1 \in 1..Len(q)
      BY <1>1, <1>2
    <3>2. p[j] = IF j < i THEN q[j] ELSE q[j + 1]
      BY Zenon, <2>1 DEF Without
    <3>3. /\ Sizes(at, p)[j] = Size[at[p[j]]] /\ Sizes(at, q)[j] = Size[at[q[j]]]
          /\ Sizes(at, q)[j + 1] = Size[at[q[j + 1]]]
      BY Zenon, <1>1, <1>2, <3>1
    <3>4. CASE j < i
      BY Zenon, <3>2, <3>3, <3>4
    <3>5. CASE ~ (j < i)
      BY Zenon, <3>2, <3>3, <3>5
    <3> QED BY Zenon, <3>4, <3>5
  <2> QED BY Zenon, <1>1, <1>2, <2>1 DEF Without
<1>4. Sums(Sizes(at, p))[Len(p)] + Sizes(at, q)[i] = Sums(Sizes(at, q))[Len(q)]
  <2>1. i \in 1..Len(Sizes(at, q))
    BY Zenon, <1>1
  <2>2. Sums(Sizes(at, p))[Len(Sizes(at, p))] + Sizes(at, q)[i] = Sums(Sizes(at, q))[Len(Sizes(at, q))]
    BY Zenon, <1>1, <1>2, <1>3, <2>1, SumWithout
  <2> QED BY Zenon, <1>1, <1>2, <2>2
<1> QED BY Zenon, <1>1, <1>4 DEF Total

\* A sum without a summand.
LEMMA Subtract == \A x, y, z \in Nat : x + y = z => x = z - y
OBVIOUS

\* An object is erased from a list.
LEMMA EraseObject ==
  ASSUME NEW at, NEW l \in Seq(Objects), Distinct(l), Keyed(at, l), NEW o \in Range(l)
  PROVE  /\ Erase(l, o) \in Seq(Objects) /\ Distinct(Erase(l, o))
         /\ Range(Erase(l, o)) = Range(l) \ {o} /\ Keyed(at, Erase(l, o))
         /\ Total(at, Erase(l, o)) = Total(at, l) - Size[at[o]]
<1> DEFINE p == Erase(l, o)
<1>1. p \in Seq(Objects)
  BY Zenon, EraseIs
<1>2. PICK i \in 1..Len(l) : l[i] = o /\ Without(p, l, i)
  BY Zenon, EraseIs
<1> HIDE DEF p
<1>3. Range(p) = Range(l) \ {o} /\ Distinct(p)
  <2>1. Range(p) = Range(l) \ {l[i]} /\ Distinct(p)
    BY Zenon, <1>1, <1>2, WithoutIs
  <2> QED BY Zenon, <1>2, <2>1
<1>4. Keyed(at, p)
  BY Zenon, <1>3 DEF Keyed
<1>5. Total(at, p) + Size[at[o]] = Total(at, l)
  BY Zenon, <1>1, <1>2, <1>4, TotalWithout
<1>6. Total(at, p) \in Nat /\ Total(at, l) \in Nat
  BY Zenon, <1>1, <1>4, SizesAre
<1>7. Size[at[o]] \in Nat
  <2>1. at[o] \in Keys
    BY Zenon DEF Keyed
  <2> QED BY <2>1, CacheAssumption
<1>8. Total(at, p) = Total(at, l) - Size[at[o]]
  BY ZenonT(60), <1>5, <1>6, <1>7, Subtract
<1> QED BY Zenon, <1>1, <1>3, <1>4, <1>8 DEF p

\* An object is put at the front of a list.
LEMMA PushObject ==
  ASSUME NEW at, NEW l \in Seq(Objects), Distinct(l), Keyed(at, l), NEW o \in Objects \ Range(l),
         at[o] \in Keys
  PROVE  /\ <<o>> \o l \in Seq(Objects) /\ Distinct(<<o>> \o l)
         /\ Range(<<o>> \o l) = Range(l) \cup {o} /\ Keyed(at, <<o>> \o l)
         /\ Total(at, <<o>> \o l) = Total(at, l) + Size[at[o]]
<1> DEFINE q == <<o>> \o l
<1>1. /\ q \in Seq(Objects) /\ Without(l, q, 1) /\ q[1] = o /\ Len(q) = Len(l) + 1
      /\ Range(q) = Range(l) \cup {o} /\ Distinct(q)
  <2>1. o \in Objects /\ o \notin Range(l)
    OBVIOUS
  <2>2. /\ <<o>> \o l \in Seq(Objects) /\ Without(l, <<o>> \o l, 1) /\ (<<o>> \o l)[1] = o
        /\ Len(<<o>> \o l) = Len(l) + 1
        /\ Range(<<o>> \o l) = Range(l) \cup {o}
        /\ o \notin Range(l) /\ Distinct(l) => Distinct(<<o>> \o l)
    BY Zenon, <2>1, PushIs
  <2> QED BY Zenon, <2>1, <2>2
<1> HIDE DEF q
<1>2. Keyed(at, q)
  BY Zenon, <1>1 DEF Keyed
<1>3. 1 \in 1..Len(q)
  BY <1>1
<1>4. Total(at, l) + Size[at[o]] = Total(at, q)
  BY Zenon, <1>1, <1>2, <1>3, TotalWithout
<1> QED BY Zenon, <1>1, <1>2, <1>4 DEF q

\* The first object of a list is taken.
LEMMA PopObject ==
  ASSUME NEW at, NEW l \in Seq(Objects), Distinct(l), Keyed(at, l), l # <<>>
  PROVE  /\ Head(l) \in Range(l)
         /\ Tail(l) \in Seq(Objects) /\ Distinct(Tail(l))
         /\ Range(Tail(l)) = Range(l) \ {Head(l)} /\ Keyed(at, Tail(l))
         /\ Total(at, Tail(l)) = Total(at, l) - Size[at[Head(l)]]
<1> DEFINE p == Tail(l)
           o == Head(l)
<1>1. /\ p \in Seq(Objects) /\ Len(p) = Len(l) - 1 /\ Len(l) \in Nat
      /\ \A i \in 1..Len(p) : p[i] = l[i + 1]
  BY HeadTailProperties
<1>2. 1 \in 1..Len(l) /\ l[1] = o
  OBVIOUS
<1> HIDE DEF p, o
<1>3. Without(p, l, 1)
  <2>1. ASSUME NEW j \in 1..(Len(l) - 1) PROVE p[j] = IF j < 1 THEN l[j] ELSE l[j + 1]
    <3>1. j \in 1..Len(p) /\ ~ (j < 1)
      BY <1>1
    <3> QED BY Zenon, <1>1, <3>1
  <2> QED BY Zenon, <1>1, <2>1 DEF Without
<1>4. Range(p) = Range(l) \ {o} /\ Distinct(p)
  <2>1. Range(p) = Range(l) \ {l[1]} /\ Distinct(p)
    BY Zenon, <1>1, <1>2, <1>3, WithoutIs
  <2> QED BY Zenon, <1>2, <2>1
<1>5. o \in Range(l)
  BY Zenon, <1>2, RangeIs
<1>6. Keyed(at, p) /\ at[o] \in Keys
  BY Zenon, <1>4, <1>5 DEF Keyed
<1>7. Total(at, p) + Size[at[o]] = Total(at, l)
  BY Zenon, <1>1, <1>2, <1>3, <1>6, TotalWithout
<1>8. Total(at, p) \in Nat /\ Total(at, l) \in Nat
  BY Zenon, <1>1, <1>6, SizesAre
<1>9. Size[at[o]] \in Nat
  BY <1>6, CacheAssumption
<1>10. Total(at, p) = Total(at, l) - Size[at[o]]
  BY ZenonT(60), <1>7, <1>8, <1>9, Subtract
<1> QED BY Zenon, <1>1, <1>4, <1>5, <1>6, <1>10 DEF p, o

-----------------------------------------------------------------------------
\* What remove_item does to each structure.
LEMMA RemoveItemIs ==
  ASSUME NEW s \in Records, NEW o \in Objects, key[o] \in Keys
  PROVE  LET r == remove_item(s, o)
         IN  /\ r \in Records
             /\ r.cache = Erase(s.cache, o)
             /\ r.owners = [s.owners EXCEPT ![o] = {}]
             /\ r.lookup = [s.lookup EXCEPT ![key[o]] = None]
             /\ r.owner_tables = [w \in Owners |-> IF w \in s.owners[o] THEN s.owner_tables[w] \ {o}
                                                  ELSE s.owner_tables[w]]
             /\ r.current_size = s.current_size - Size[key[o]]
             /\ \/ /\ r.unused_items = <<o>> \o s.unused_items
                   /\ r.unused_size = s.unused_size + Size[key[o]]
                \/ r.unused_items = s.unused_items /\ r.unused_size = s.unused_size
<1> DEFINE tables == [w \in Owners |-> IF w \in s.owners[o] THEN s.owner_tables[w] \ {o}
                                       ELSE s.owner_tables[w]]
           cache == Erase(s.cache, o)
           owners == [s.owners EXCEPT ![o] = {}]
           lookup == [s.lookup EXCEPT ![key[o]] = None]
           current == s.current_size - Size[key[o]]
           pool == IF 10 * s.unused_size <= capacity THEN <<o>> \o s.unused_items ELSE s.unused_items
           pooled == IF 10 * s.unused_size <= capacity THEN s.unused_size + Size[key[o]] ELSE s.unused_size
           r == remove_item(s, o)
<1>1. /\ s.cache \in Seq(Objects) /\ s.unused_items \in Seq(Objects)
      /\ s.owners \in [Objects -> SUBSET Owners] /\ s.lookup \in [Keys -> Objects \cup {None}]
      /\ s.owner_tables \in [Owners -> SUBSET Objects] /\ s.current_size \in Int
      /\ s.unused_size \in Int /\ Size[key[o]] \in Int
  BY CacheAssumption DEF Records
<1>2. r = [cache |-> cache, owner_tables |-> tables, owners |-> owners, lookup |-> lookup,
           current_size |-> current, unused_items |-> pool, unused_size |-> pooled]
  BY Zenon DEF remove_item
<1>3. tables \in [Owners -> SUBSET Objects] /\ owners \in [Objects -> SUBSET Owners]
  BY Zenon, <1>1
<1>4. lookup \in [Keys -> Objects \cup {None}]
  BY Zenon, <1>1
<1>5. cache \in Seq(Objects)
  BY Zenon, <1>1, EraseIs
<1>6. pool \in Seq(Objects)
  BY <1>1, PushIs
<1>7. current \in Int /\ pooled \in Int
  BY <1>1
<1>8. \/ pool = <<o>> \o s.unused_items /\ pooled = s.unused_size + Size[key[o]]
      \/ pool = s.unused_items /\ pooled = s.unused_size
  OBVIOUS
<1> HIDE DEF tables, cache, owners, lookup, current, pool, pooled, r
<1>9. r \in Records
  BY <1>2, <1>3, <1>4, <1>5, <1>6, <1>7 DEF Records
<1>10. /\ r.cache = cache /\ r.unused_items = pool /\ r.owners = owners /\ r.lookup = lookup
       /\ r.owner_tables = tables /\ r.current_size = current /\ r.unused_size = pooled
  BY <1>2
<1> QED BY Zenon, <1>8, <1>9, <1>10 DEF tables, cache, owners, lookup, current, r

\* Removing a cached item keeps the structures in agreement.
LEMMA RemoveKeeps ==
  ASSUME NEW s, Coherent(key, s), NEW o \in Range(s.cache)
  PROVE  LET r == remove_item(s, o)
         IN  /\ Coherent(key, r)
             /\ Range(r.cache) = Range(s.cache) \ {o}
             /\ Range(r.unused_items) \subseteq Range(s.unused_items) \cup {o}
<1> DEFINE r == remove_item(s, o)
<1>0. /\ s \in Records /\ s.cache \in Seq(Objects) /\ s.unused_items \in Seq(Objects)
      /\ s.owners \in [Objects -> SUBSET Owners] /\ s.lookup \in [Keys -> Objects \cup {None}]
  BY DEF Coherent, Records
<1>a. /\ Distinct(s.cache) /\ Keyed(key, s.cache) /\ Distinct(s.unused_items)
      /\ Keyed(key, s.unused_items)
  BY Zenon DEF Coherent
<1>1. o \in Objects /\ key[o] \in Keys
  BY <1>0, RangeIs DEF Coherent, Keyed
<1>2. /\ r \in Records
      /\ r.cache = Erase(s.cache, o)
      /\ r.owners = [s.owners EXCEPT ![o] = {}]
      /\ r.lookup = [s.lookup EXCEPT ![key[o]] = None]
      /\ r.owner_tables = [w \in Owners |-> IF w \in s.owners[o] THEN s.owner_tables[w] \ {o}
                                           ELSE s.owner_tables[w]]
      /\ r.current_size = s.current_size - Size[key[o]]
      /\ \/ /\ r.unused_items = <<o>> \o s.unused_items
            /\ r.unused_size = s.unused_size + Size[key[o]]
         \/ r.unused_items = s.unused_items /\ r.unused_size = s.unused_size
  BY Zenon, <1>0, <1>1, RemoveItemIs
<1> HIDE DEF r
<1>3. /\ Distinct(r.cache) /\ Range(r.cache) = Range(s.cache) \ {o} /\ Keyed(key, r.cache)
      /\ r.current_size = Total(key, r.cache)
  <2>1. /\ Distinct(Erase(s.cache, o)) /\ Keyed(key, Erase(s.cache, o))
        /\ Range(Erase(s.cache, o)) = Range(s.cache) \ {o}
        /\ Total(key, Erase(s.cache, o)) = Total(key, s.cache) - Size[key[o]]
    BY Zenon, <1>0, <1>a, EraseObject
  <2> QED BY Zenon, <1>2, <2>1 DEF Coherent
<1>4. /\ Distinct(r.unused_items) /\ Keyed(key, r.unused_items) /\ r.unused_size = Total(key, r.unused_items)
      /\ Range(r.unused_items) \in {Range(s.unused_items), Range(s.unused_items) \cup {o}}
  <2>1. CASE r.unused_items = s.unused_items /\ r.unused_size = s.unused_size
    BY Zenon, <2>1 DEF Coherent
  <2>2. CASE /\ r.unused_items = <<o>> \o s.unused_items
             /\ r.unused_size = s.unused_size + Size[key[o]]
    <3>1. o \in Objects \ Range(s.unused_items)
      BY Zenon, <1>1 DEF Coherent
    <3>2. /\ Distinct(<<o>> \o s.unused_items) /\ Keyed(key, <<o>> \o s.unused_items)
          /\ Range(<<o>> \o s.unused_items) = Range(s.unused_items) \cup {o}
          /\ Total(key, <<o>> \o s.unused_items) = Total(key, s.unused_items) + Size[key[o]]
      BY ZenonT(60), <1>0, <1>a, <1>1, <3>1, PushObject
    <3> QED BY Zenon, <2>2, <3>2 DEF Coherent
  <2> QED BY Zenon, <1>2, <2>1, <2>2
<1>5. Range(r.cache) \cap Range(r.unused_items) = {}
  BY Zenon, <1>3, <1>4 DEF Coherent
<1>6. ASSUME NEW x \in Range(r.cache) PROVE r.lookup[key[x]] = x
  <2>1. x \in Range(s.cache) /\ x # o /\ key[x] \in Keys
    BY Zenon, <1>3 DEF Keyed
  <2>2. s.lookup[key[x]] = x /\ s.lookup[key[o]] = o
    BY Zenon, <2>1 DEF Coherent
  <2> QED BY Zenon, <1>0, <1>2, <2>1, <2>2
<1>7. ASSUME NEW k \in Keys, r.lookup[k] # None
      PROVE  r.lookup[k] \in Range(r.cache) /\ key[r.lookup[k]] = k
  <2>1. k # key[o] /\ r.lookup[k] = s.lookup[k]
    BY Zenon, <1>0, <1>1, <1>2, <1>7
  <2>2. s.lookup[k] \in Range(s.cache) /\ key[s.lookup[k]] = k
    BY Zenon, <1>7, <2>1 DEF Coherent
  <2> QED BY Zenon, <1>3, <2>1, <2>2
<1>8. ASSUME NEW w \in Owners
      PROVE  r.owner_tables[w] = {x \in Range(r.cache) : w \in r.owners[x]}
  <2>1. s.owner_tables[w] = {x \in Range(s.cache) : w \in s.owners[x]}
    BY Zenon DEF Coherent
  <2>2. r.owner_tables[w] = s.owner_tables[w] \ {o}
    BY Zenon, <1>2, <2>1
  <2>3. \A x \in Range(r.cache) : r.owners[x] = s.owners[x]
    <3>1. Range(s.cache) \subseteq Objects
      BY <1>0, RangeIs
    <3> QED BY Zenon, <1>0, <1>2, <1>3, <3>1
  <2> QED BY Zenon, <1>3, <2>1, <2>2, <2>3
<1>9. Coherent(key, r)
  BY Zenon, <1>2, <1>3, <1>4, <1>5, <1>6, <1>7, <1>8 DEF Coherent
<1> QED BY Zenon, <1>3, <1>4, <1>9 DEF r

\* What one turn of a loop that removes the items of S does.
Turn(s, o, S) == IF o \in S THEN remove_item(s, o) ELSE s

\* f is the structures at each turn of a loop that removes those items that are in S.
Removal(f, s, items, S) ==
  /\ f \in [0..Len(items) -> Records] /\ f[0] = s
  /\ \A n \in 1..Len(items) : f[n] = Turn(f[n - 1], items[n], S)

\* The structures at each turn of such a loop are what their definition says.
LEMMA RemovingIs ==
  ASSUME NEW s \in Records, NEW items \in Seq(Objects), NEW S,
         \A n \in 1..Len(items) : key[items[n]] \in Keys
  PROVE  Removal(Removing(s, items, S), s, items, S)
<1> DEFINE N == Len(items)
           F == [n \in 1..N |-> [x \in Records |-> Turn(x, items[n], S)]]
           f == Removing(s, items, S)
<1>0. N \in Nat /\ \A n \in 1..N : items[n] \in Objects
  OBVIOUS
<1>1. \A n \in 1..N, x \in Records : Turn(x, items[n], S) \in Records
  BY Zenon, <1>0, RemoveItemIs DEF Turn
<1>2. \A n \in 1..N, x \in Records : F[n][x] = Turn(x, items[n], S)
  BY Zenon
<1>3. F \in [1..N -> [Records -> Records]]
  BY Zenon, <1>1
<1> HIDE DEF F, N
<1>4. PICK g \in [0..N -> Records] : g[0] = s /\ \A n \in 1..N : g[n] = F[n][g[n - 1]]
  <2>1. Runs(N, Records, s, F) # {}
    BY Zenon, <1>0, <1>3, Turns
  <2> QED BY Zenon, <2>1 DEF Runs
<1>5. ASSUME NEW n \in 1..N PROVE g[n] = Turn(g[n - 1], items[n], S)
  <2>1. n - 1 \in 0..N
    BY <1>0
  <2>2. g[n - 1] \in Records
    BY Zenon, <1>4, <2>1
  <2> QED BY Zenon, <1>2, <1>4, <2>2
<1> DEFINE Is(h) == h = [n \in 0..N |->
                           IF n = 0 THEN s
                           ELSE IF items[n] \in S THEN remove_item(h[n - 1], items[n]) ELSE h[n - 1]]
<1>6. Is(g)
  <2>1. \A n \in 0..N : n = 0 \/ n \in 1..N
    BY <1>0
  <2>2. \A n \in 0..N : g[n] = IF n = 0 THEN s
                               ELSE IF items[n] \in S THEN remove_item(g[n - 1], items[n]) ELSE g[n - 1]
    BY Zenon, <1>4, <1>5, <2>1 DEF Turn
  <2> QED BY Zenon, <1>4, <2>2
<1>7. f = CHOOSE h : Is(h)
  BY Zenon DEF Removing, N
<1>8. Is(f)
  <2> HIDE DEF Is, f
  <2> QED BY Zenon, <1>6, <1>7
<1>9. /\ f = [n \in 0..N |-> f[n]] /\ f[0] = s
      /\ \A n \in 1..N : f[n] = Turn(f[n - 1], items[n], S)
  <2>1. f = [n \in 0..N |-> IF n = 0 THEN s
                            ELSE IF items[n] \in S THEN remove_item(f[n - 1], items[n]) ELSE f[n - 1]]
    BY Zenon, <1>8
  <2> HIDE DEF f
  <2>2. f = [n \in 0..N |-> f[n]]
        /\ \A n \in 0..N : f[n] = IF n = 0 THEN s
                                  ELSE IF items[n] \in S THEN remove_item(f[n - 1], items[n]) ELSE f[n - 1]
    BY Zenon, <2>1
  <2>3. 0 \in 0..N /\ \A n \in 1..N : n \in 0..N /\ n # 0
    BY <1>0
  <2> QED BY Zenon, <2>2, <2>3 DEF Turn
<1> HIDE DEF f
<1> DEFINE B == {n \in 0..N : f[n] = g[n]}
<1>10. \A n \in 0..N : n \in B
  <2>1. 0 \in B
    <3>1. 0 \in 0..N
      BY <1>0
    <3> QED BY Zenon, <1>4, <1>9, <3>1
  <2>2. ASSUME NEW n \in 1..N, n - 1 \in B PROVE n \in B
    <3>1. f[n] = Turn(f[n - 1], items[n], S) /\ g[n] = Turn(g[n - 1], items[n], S) /\ f[n - 1] = g[n - 1]
      BY Zenon, <1>5, <1>9, <2>2
    <3>2. n \in 0..N
      BY <1>0
    <3> QED BY Zenon, <3>1, <3>2
  <2> HIDE DEF B
  <2> QED BY Zenon, <1>0, <2>1, <2>2, CountingUp
<1>11. f = g
  BY Zenon, <1>4, <1>9, <1>10
<1> QED BY Zenon, <1>4, <1>5, <1>11 DEF N, f, Removal

\* A loop over cached items that differ from each other removes those of S from
\* the list, moves some of them to the pool, and keeps the structures in agreement.
LEMMA RemoveEachKeeps ==
  ASSUME NEW s, Coherent(key, s), NEW items \in Seq(Objects), Distinct(items),
         \A n \in 1..Len(items) : items[n] \in Range(s.cache), NEW S
  PROVE  LET r == RemoveEach(s, items, S)
         IN  /\ Coherent(key, r)
             /\ Range(r.cache) = Range(s.cache) \ (S \cap Range(items))
             /\ Range(r.unused_items) \subseteq Range(s.unused_items) \cup (S \cap Range(items))
<1> DEFINE N == Len(items)
           f == Removing(s, items, S)
           gone(n) == {items[m] : m \in {i \in 1..n : items[i] \in S}}
           Good(n) == /\ Coherent(key, f[n])
                      /\ Range(f[n].cache) = Range(s.cache) \ gone(n)
                      /\ Range(f[n].unused_items) \subseteq Range(s.unused_items) \cup gone(n)
           B == {n \in 0..N : Good(n)}
<1>0. N \in Nat /\ \A n \in 1..N : items[n] \in Objects /\ key[items[n]] \in Keys
  BY DEF Coherent, Keyed
<1>1. s \in Records
  BY Zenon DEF Coherent
<1>2. /\ f \in [0..N -> Records] /\ f[0] = s
      /\ \A n \in 1..N : f[n] = Turn(f[n - 1], items[n], S)
  <2>1. \A n \in 1..Len(items) : key[items[n]] \in Keys
    BY Zenon, <1>0
  <2>2. Removal(Removing(s, items, S), s, items, S)
    BY Zenon, <1>1, <2>1, RemovingIs
  <2> QED BY Zenon, <2>2 DEF Removal
<1> HIDE DEF f
<1>3. 0 \in B
  <2>1. gone(0) = {} /\ 0 \in 0..N
    BY <1>0
  <2> HIDE DEF gone
  <2> QED BY Zenon, <1>2, <2>1
<1>4. ASSUME NEW n \in 1..N, n - 1 \in B PROVE n \in B
  <2>1. Good(n - 1) /\ n \in 0..N
    BY <1>0, <1>4
  <2>2. f[n] = Turn(f[n - 1], items[n], S)
    BY Zenon, <1>2
  <2>3. items[n] \notin gone(n - 1)
    BY <1>0 DEF Distinct
  <2>4. items[n] \in S => gone(n) = gone(n - 1) \cup {items[n]}
    <3>1. \A i : i \in 1..n <=> i \in 1..(n - 1) \/ i = n
      BY <1>0
    <3> QED BY Zenon, <3>1
  <2>5. items[n] \notin S => gone(n) = gone(n - 1)
    <3>1. \A i : i \in 1..n <=> i \in 1..(n - 1) \/ i = n
      BY <1>0
    <3> QED BY Zenon, <3>1
  <2> DEFINE o == items[n]
             x == f[n - 1]
             G == gone(n - 1)
             H == gone(n)
  <2>6. o \in Range(s.cache)
    BY <1>0
  <2>7. Coherent(key, x) /\ Range(x.cache) = Range(s.cache) \ G
        /\ Range(x.unused_items) \subseteq Range(s.unused_items) \cup G
    BY Zenon, <2>1
  <2>8. f[n] = Turn(x, o, S) /\ o \notin G
        /\ (o \in S => H = G \cup {o}) /\ (o \notin S => H = G)
    BY Zenon, <2>2, <2>3, <2>4, <2>5
  <2>9. Coherent(key, f[n]) /\ Range(f[n].cache) = Range(s.cache) \ H
        /\ Range(f[n].unused_items) \subseteq Range(s.unused_items) \cup H
    <3> HIDE DEF o, x, G, H
    <3>1. CASE o \in S
      <4>1. f[n] = remove_item(x, o) /\ H = G \cup {o}
        BY Zenon, <2>8, <3>1 DEF Turn
      <4>2. o \in Range(x.cache)
        BY Zenon, <2>6, <2>7, <2>8
      <4>3. /\ Coherent(key, remove_item(x, o))
            /\ Range(remove_item(x, o).cache) = Range(x.cache) \ {o}
            /\ Range(remove_item(x, o).unused_items) \subseteq Range(x.unused_items) \cup {o}
        BY Zenon, <2>7, <4>2, RemoveKeeps
      <4> HIDE DEF f
      <4>4. /\ Coherent(key, f[n]) /\ Range(f[n].cache) = Range(x.cache) \ {o}
            /\ Range(f[n].unused_items) \subseteq Range(x.unused_items) \cup {o}
        BY Zenon, <4>1, <4>3
      <4> QED BY Zenon, <2>7, <4>1, <4>4
    <3>2. CASE o \notin S
      <4>1. f[n] = x /\ H = G
        BY Zenon, <2>8, <3>2 DEF Turn
      <4> QED BY Zenon, <2>7, <4>1
    <3> QED BY Zenon, <3>1, <3>2
  <2> QED BY Zenon, <2>1, <2>9
<1>5. Good(N)
  <2>1. N \in 0..N
    BY <1>0
  <2> HIDE DEF Good
  <2>2. 0 \in B /\ \A n \in 1..N : n - 1 \in B => n \in B
    BY Zenon, <1>3, <1>4
  <2>3. \A n \in 0..N : n \in B
    <3> HIDE DEF B, N
    <3> QED BY Zenon, <1>0, <2>2, CountingUp
  <2> QED BY Zenon, <2>1, <2>3
<1>6. gone(N) = S \cap Range(items)
  <2>1. Range(items) = {items[m] : m \in 1..N}
    BY Zenon, RangeIs
  <2> QED BY Zenon, <2>1
<1>7. RemoveEach(s, items, S) = f[N]
  BY Zenon DEF RemoveEach, f
<1> HIDE DEF gone, f
<1> QED BY Zenon, <1>5, <1>6, <1>7

\* What reversing a list does.
LEMMA FromBackIs ==
  ASSUME NEW S, NEW l \in Seq(S)
  PROVE  /\ FromBack(l) \in Seq(S) /\ Range(FromBack(l)) = Range(l)
         /\ Distinct(l) => Distinct(FromBack(l))
<1> DEFINE N == Len(l)
           q == FromBack(l)
           to(i) == (N - i) + 1
<1>1. /\ N \in Nat /\ l \in [1..N -> S]
      /\ \A i \in 1..N : to(i) \in 1..N /\ to(to(i)) = i
      /\ \A i, j \in 1..N : to(i) = to(j) => i = j
  OBVIOUS
<1>2. q \in [1..N -> S] /\ \A i \in 1..N : q[i] = l[to(i)]
  <2>1. q = [i \in 1..N |-> l[to(i)]]
    BY Zenon DEF FromBack
  <2> HIDE DEF to, N, q
  <2> QED BY Zenon, <1>1, <2>1
<1> HIDE DEF to, q
<1>3. q \in Seq(S) /\ Len(q) = N
  <2> HIDE DEF N
  <2> QED BY <1>1, <1>2
<1> HIDE DEF N
<1>4. Range(l) = {l[i] : i \in 1..N} /\ Range(q) = {q[i] : i \in 1..N}
  <2>1. Range(l) = {l[i] : i \in 1..Len(l)} /\ Range(q) = {q[i] : i \in 1..Len(q)}
    BY Zenon, <1>3, RangeIs
  <2> QED BY Zenon, <1>3, <2>1 DEF N
<1>5. Range(q) = Range(l)
  <2>1. ASSUME NEW i \in 1..N PROVE l[i] \in Range(q) /\ q[i] \in Range(l)
    <3>1. to(i) \in 1..N /\ q[to(i)] = l[i] /\ q[i] = l[to(i)]
      BY Zenon, <1>1, <1>2
    <3> QED BY Zenon, <1>4, <3>1
  <2> QED BY Zenon, <1>4, <2>1
<1>6. Distinct(l) => Distinct(q)
  <2>1. ASSUME Distinct(l), NEW i \in 1..N, NEW j \in 1..N, q[i] = q[j] PROVE i = j
    <3>1. to(i) \in 1..N /\ to(j) \in 1..N /\ l[to(i)] = l[to(j)]
      BY Zenon, <1>1, <1>2, <2>1
    <3>2. to(i) = to(j)
      BY Zenon, <2>1, <3>1 DEF Distinct, N
    <3> QED BY Zenon, <1>1, <3>2
  <2> QED BY Zenon, <1>3, <2>1 DEF Distinct
<1> QED BY Zenon, <1>3, <1>5, <1>6 DEF q

\* The first walk removes what it drops, and keeps the structures in agreement.
LEMMA DropAllKeeps ==
  ASSUME NEW s, Coherent(key, s), NEW S
  PROVE  /\ Coherent(key, DropAll(s, S))
         /\ Range(DropAll(s, S).cache) = Range(s.cache) \ S
<1> DEFINE items == FromBack(s.cache)
<1>1. s.cache \in Seq(Objects) /\ Distinct(s.cache)
  BY DEF Coherent, Records
<1>2. items \in Seq(Objects) /\ Range(items) = Range(s.cache) /\ Distinct(items)
  BY Zenon, <1>1, FromBackIs
<1> HIDE DEF items
<1>3. \A n \in 1..Len(items) : items[n] \in Range(s.cache)
  BY Zenon, <1>2, RangeIs
<1>4. /\ Coherent(key, RemoveEach(s, items, S))
      /\ Range(RemoveEach(s, items, S).cache) = Range(s.cache) \ (S \cap Range(items))
  BY Zenon, <1>2, <1>3, RemoveEachKeeps
<1>5. DropAll(s, S) = RemoveEach(s, items, S)
  BY Zenon DEF DropAll, items
<1>6. Range(s.cache) \ (S \cap Range(items)) = Range(s.cache) \ S
  BY Zenon, <1>2
<1> QED BY Zenon, <1>4, <1>5, <1>6

\* The greatest of some positions is one of them.
LEMMA MaxIsMember ==
  ASSUME NEW N \in Nat, NEW I, I \subseteq 1..N, I # {}
  PROVE  Max(I) \in I
<1> DEFINE D == {N - i : i \in I}
<1>1. D \subseteq Nat /\ D # {}
  <2>1. \A i \in I : N - i \in Nat
    OBVIOUS
  <2> QED BY Zenon, <2>1
<1>2. PICK d \in D : \A y \in D : d <= y
  <2> HIDE DEF D
  <2> QED BY Zenon, <1>1, LeastNumber
<1>3. PICK m \in I : d = N - m
  OBVIOUS
<1>4. ASSUME NEW i \in I PROVE m >= i
  <2>1. N - i \in D
    OBVIOUS
  <2>2. N - m <= N - i
    BY <1>2, <1>3, <2>1
  <2>3. m \in Nat /\ i \in Nat
    OBVIOUS
  <2> QED BY <2>2, <2>3
<1> QED BY Zenon, <1>4 DEF Max

\* What try_shrink may do to the structures: objects leave the list that nobody
\* references and that are clean or have just been flushed, and nothing else does.
Shrunk(s, Q, r) ==
  /\ Coherent(key, r.state)
  /\ Range(r.state.cache) \subseteq Range(s.cache)
  /\ \A o \in Range(s.cache) \ Range(r.state.cache) :
       o \notin Referenced \cup Q /\ (o \in dirty => o \in r.flushed)
  /\ r.flushed \subseteq Range(s.cache)
  /\ r.invalid \in BOOLEAN

\* The removal a forced walk makes.
LEMMA ForcedIs ==
  ASSUME NEW s, Coherent(key, s), NEW D, NEW i \in Candidates(s, D)
  PROVE  /\ Coherent(key, Forced(s, i).state)
         /\ Range(Forced(s, i).state.cache) = Range(s.cache) \ {s.cache[i]}
         /\ s.cache[i] \in Range(s.cache) /\ s.cache[i] \notin Referenced \cup D
         /\ Forced(s, i).invalid \in BOOLEAN
<1>1. s.cache \in Seq(Objects)
  BY DEF Coherent, Records
<1>2. i \in 1..Len(s.cache) /\ s.cache[i] \notin Referenced \cup D
  BY <1>1 DEF Candidates, Walk
<1>3. s.cache[i] \in Range(s.cache)
  BY Zenon, <1>1, <1>2, RangeIs
<1> DEFINE o == s.cache[i]
<1>4. /\ Coherent(key, remove_item(s, o))
      /\ Range(remove_item(s, o).cache) = Range(s.cache) \ {o}
  BY Zenon, <1>3, RemoveKeeps
<1>5. Forced(s, i).state = remove_item(s, o) /\ Forced(s, i).invalid \in BOOLEAN
  BY DEF Forced, Over
<1> QED BY Zenon, <1>2, <1>3, <1>4, <1>5

\* Structures that stay as they are.
LEMMA Unshrunk ==
  ASSUME NEW s, Coherent(key, s), NEW D
  PROVE  Shrunk(s, D, [state |-> s, flushed |-> {}, invalid |-> FALSE])
<1> DEFINE r == [state |-> s, flushed |-> {}, invalid |-> FALSE]
<1>1. r.state = s /\ r.flushed = {} /\ r.invalid = FALSE
  OBVIOUS
<1> HIDE DEF r
<1>2. Shrunk(s, D, r)
  BY Zenon, <1>1 DEF Shrunk
<1> QED BY <1>2 DEF r

\* A forced walk removes a clean block or flushes the one it removes.
LEMMA ForcedShrinks ==
  ASSUME NEW s, Coherent(key, s), NEW D, NEW i \in Candidates(s, D), NEW F,
         F \subseteq {s.cache[i]}, s.cache[i] \in dirty => s.cache[i] \in F
  PROVE  Shrunk(s, D, [state |-> Forced(s, i).state, flushed |-> F, invalid |-> Forced(s, i).invalid])
<1> DEFINE r == [state |-> Forced(s, i).state, flushed |-> F, invalid |-> Forced(s, i).invalid]
           o == s.cache[i]
<1>1. /\ Coherent(key, Forced(s, i).state)
      /\ Range(Forced(s, i).state.cache) = Range(s.cache) \ {o}
      /\ o \in Range(s.cache) /\ o \notin Referenced \cup D
      /\ Forced(s, i).invalid \in BOOLEAN
  BY Zenon, ForcedIs
<1>2. r.state = Forced(s, i).state /\ r.flushed = F /\ r.invalid = Forced(s, i).invalid
  OBVIOUS
<1> HIDE DEF r
<1>3. /\ Coherent(key, r.state) /\ Range(r.state.cache) = Range(s.cache) \ {o}
      /\ r.flushed \subseteq {o} /\ (o \in dirty => o \in r.flushed) /\ r.invalid \in BOOLEAN
  BY Zenon, <1>1, <1>2
<1> HIDE DEF o
<1>4. Shrunk(s, D, r)
  BY Zenon, <1>1, <1>3 DEF Shrunk
<1> QED BY <1>4 DEF r

\* The forced walks.
LEMMA OutcomesShrink ==
  ASSUME NEW s, Coherent(key, s), NEW D, NEW r \in Outcomes(s, D)
  PROVE  Shrunk(s, D, r)
<1> DEFINE clean == Candidates(s, D \cup dirty)
           unshrunk == [state |-> s, flushed |-> {}, invalid |-> FALSE]
           removed(i, F) == [state |-> Forced(s, i).state, flushed |-> F,
                             invalid |-> Forced(s, i).invalid]
<1>1. \/ r = unshrunk
      \/ clean # {} /\ r = removed(Max(clean), {})
      \/ \E i \in Candidates(s, D) : r = removed(i, {s.cache[i]})
  BY Zenon DEF Outcomes
<1>2. CASE r = unshrunk
  BY Zenon, <1>2, Unshrunk
<1>3. CASE clean # {} /\ r = removed(Max(clean), {})
  <2>1. s.cache \in Seq(Objects)
    BY DEF Coherent, Records
  <2>2. Len(s.cache) \in Nat /\ clean \subseteq 1..Len(s.cache)
    BY <2>1 DEF Candidates, Walk
  <2>3. Max(clean) \in clean
    <3> HIDE DEF clean
    <3> QED BY Zenon, <1>3, <2>2, MaxIsMember
  <2> DEFINE i == Max(clean)
  <2>4. i \in Candidates(s, D) /\ s.cache[i] \notin dirty
    <3>1. i \in clean
      BY Zenon, <2>3
    <3> HIDE DEF i
    <3> QED BY Zenon, <3>1 DEF Candidates
  <2>5. r = removed(i, {})
    BY Zenon, <1>3
  <2> HIDE DEF i
  <2>6. {} \subseteq {s.cache[i]} /\ (s.cache[i] \in dirty => s.cache[i] \in {})
    BY Zenon, <2>4
  <2>7. Shrunk(s, D, removed(i, {}))
    BY Zenon, <2>4, <2>6, ForcedShrinks
  <2> QED BY Zenon, <2>5, <2>7
<1>4. CASE \E i \in Candidates(s, D) : r = removed(i, {s.cache[i]})
  <2>1. PICK i \in Candidates(s, D) : r = removed(i, {s.cache[i]})
    BY Zenon, <1>4
  <2>2. {s.cache[i]} \subseteq {s.cache[i]} /\ (s.cache[i] \in dirty => s.cache[i] \in {s.cache[i]})
    BY Zenon
  <2>3. Shrunk(s, D, removed(i, {s.cache[i]}))
    BY Zenon, <2>2, ForcedShrinks
  <2> QED BY Zenon, <2>1, <2>3
<1> QED BY Zenon, <1>1, <1>2, <1>3, <1>4

\* try_shrink, when the blocks it passes to the thread pool are dirty.
LEMMA ShrinksShrink ==
  ASSUME Coherent(key, c), NEW Q, Q \subseteq dirty, NEW r \in Shrinks(Q)
  PROVE  Shrunk(c, Q, r)
<1> DEFINE s == DropAll(c, Dropped(c))
<1>1. r = [state |-> c, flushed |-> {}, invalid |-> FALSE] \/ r \in Outcomes(s, Q)
  BY Zenon DEF Shrinks, try_shrink
<1>2. CASE r = [state |-> c, flushed |-> {}, invalid |-> FALSE]
  BY Zenon, <1>2, Unshrunk
<1>3. CASE r \in Outcomes(s, Q)
  <2>1. Coherent(key, s) /\ Range(s.cache) = Range(c.cache) \ Dropped(c)
    BY Zenon, DropAllKeeps
  <2>2. \A o \in Dropped(c) : o \notin dirty /\ o \notin Referenced \cup Q
    BY Zenon DEF Dropped, Disposable
  <2> HIDE DEF s
  <2>3. Shrunk(s, Q, r)
    BY Zenon, <1>3, <2>1, OutcomesShrink
  <2> QED BY Zenon, <2>1, <2>2, <2>3 DEF Shrunk
<1> QED BY Zenon, <1>1, <1>2, <1>3

\* The structures agree but for object o, which is about to be put at the front of
\* the list under key k.
Ready(at, s, o, k) ==
  /\ s \in Records /\ o \in Objects /\ k \in Keys /\ at[o] = k
  /\ Distinct(s.cache) /\ Distinct(s.unused_items)
  /\ Range(s.cache) \cap Range(s.unused_items) = {} /\ o \notin Range(s.unused_items)
  /\ Keyed(at, s.cache) /\ Keyed(at, s.unused_items)
  /\ \A x \in Range(s.cache) \ {o} : at[x] # k /\ s.lookup[at[x]] = x
  /\ \A j \in Keys \ {k} :
       s.lookup[j] # None => s.lookup[j] \in Range(s.cache) /\ at[s.lookup[j]] = j
  /\ \A v \in Owners : s.owner_tables[v] = {x \in Range(s.cache) \cup {o} : v \in s.owners[x]}
  /\ s.current_size = Total(at, Erase(s.cache, o)) + Size[k]
  /\ s.unused_size = Total(at, s.unused_items)

\* The structures r are s after o has been moved to the front.
Moved(r, s, o, w, k) ==
  /\ r \in Records
  /\ r.cache = <<o>> \o Erase(s.cache, o)
  /\ r.owners = [s.owners EXCEPT ![o] = s.owners[o] \cup {w}]
  /\ r.owner_tables = [s.owner_tables EXCEPT ![w] = s.owner_tables[w] \cup {o}]
  /\ r.lookup = [s.lookup EXCEPT ![k] = o]
  /\ r.current_size = s.current_size
  /\ r.unused_items = s.unused_items /\ r.unused_size = s.unused_size

\* What MoveToFront does to each structure.
LEMMA MoveToFrontIs ==
  ASSUME NEW s \in Records, NEW o \in Objects, NEW w \in Owners, NEW k \in Keys
  PROVE  Moved(MoveToFront(s, o, w, k), s, o, w, k)
<1> DEFINE l == <<o>> \o Erase(s.cache, o)
           W == s.owners[o] \cup {w}
           T == s.owner_tables[w] \cup {o}
           r == MoveToFront(s, o, w, k)
<1>1. /\ s.cache \in Seq(Objects) /\ s.owners[o] \in SUBSET Owners
      /\ s.owner_tables[w] \in SUBSET Objects
  BY DEF Records
<1>2. l \in Seq(Objects)
  <2>1. Erase(s.cache, o) \in Seq(Objects)
    BY Zenon, <1>1, EraseIs
  <2> QED BY Zenon, <2>1, PushIs
<1>3. W \in SUBSET Owners /\ T \in SUBSET Objects
  BY Zenon, <1>1
<1>4. r = [s EXCEPT !.cache = l, !.owners[o] = W, !.owner_tables[w] = T, !.lookup[k] = o]
  BY Zenon DEF MoveToFront
<1> HIDE DEF l, W, T, r
<1>5. r \in Records
  BY ZenonT(60), <1>2, <1>3, <1>4 DEF Records
<1>6. /\ r.cache = l /\ r.owners = [s.owners EXCEPT ![o] = W]
      /\ r.owner_tables = [s.owner_tables EXCEPT ![w] = T]
      /\ r.lookup = [s.lookup EXCEPT ![k] = o]
      /\ r.current_size = s.current_size
      /\ r.unused_items = s.unused_items /\ r.unused_size = s.unused_size
  BY <1>4 DEF Records
<1> QED BY Zenon, <1>5, <1>6 DEF l, W, T, r, Moved

\* The structures r agree, with object o added to the list of s under key k.
Fronted(at, r, s, o, k) ==
  /\ Coherent(at, r)
  /\ Range(r.cache) = Range(s.cache) \cup {o}
  /\ r.lookup = [s.lookup EXCEPT ![k] = o]

\* Putting an object at the front completes the agreement.
LEMMA MoveToFrontKeeps ==
  ASSUME NEW at, NEW s, NEW o, NEW w \in Owners, NEW k, Ready(at, s, o, k)
  PROVE  Fronted(at, MoveToFront(s, o, w, k), s, o, k)
<1> DEFINE r == MoveToFront(s, o, w, k)
           l == Erase(s.cache, o)
<1>1. /\ s \in Records /\ o \in Objects /\ k \in Keys /\ at[o] = k
      /\ Distinct(s.cache) /\ Keyed(at, s.cache)
  BY Zenon DEF Ready
<1>2. /\ s.cache \in Seq(Objects) /\ s.owners \in [Objects -> SUBSET Owners]
      /\ s.lookup \in [Keys -> Objects \cup {None}] /\ s.owner_tables \in [Owners -> SUBSET Objects]
      /\ Range(s.cache) \subseteq Objects
  <2>1. /\ s.cache \in Seq(Objects) /\ s.owners \in [Objects -> SUBSET Owners]
        /\ s.lookup \in [Keys -> Objects \cup {None}] /\ s.owner_tables \in [Owners -> SUBSET Objects]
    BY <1>1 DEF Records
  <2>2. Range(s.cache) \subseteq Objects
    BY <2>1, RangeIs
  <2> QED BY Zenon, <2>1, <2>2
<1>3. /\ r \in Records
      /\ r.cache = <<o>> \o l
      /\ r.owners = [s.owners EXCEPT ![o] = s.owners[o] \cup {w}]
      /\ r.owner_tables = [s.owner_tables EXCEPT ![w] = s.owner_tables[w] \cup {o}]
      /\ r.lookup = [s.lookup EXCEPT ![k] = o]
      /\ r.current_size = s.current_size
      /\ r.unused_items = s.unused_items /\ r.unused_size = s.unused_size
  <2>1. Moved(r, s, o, w, k)
    BY Zenon, <1>1, MoveToFrontIs
  <2> QED BY Zenon, <2>1 DEF Moved
<1> HIDE DEF r
<1>4. l \in Seq(Objects) /\ Distinct(l) /\ Range(l) = Range(s.cache) \ {o} /\ Keyed(at, l)
  <2>1. CASE o \in Range(s.cache)
    <3>1. /\ Erase(s.cache, o) \in Seq(Objects) /\ Distinct(Erase(s.cache, o))
          /\ Range(Erase(s.cache, o)) = Range(s.cache) \ {o}
          /\ Keyed(at, Erase(s.cache, o))
      BY Zenon, <1>1, <1>2, <2>1, EraseObject
    <3> QED BY Zenon, <3>1
  <2>2. CASE o \notin Range(s.cache)
    <3>1. Erase(s.cache, o) = s.cache
      BY Zenon, <1>2, <2>2, EraseIs
    <3> QED BY Zenon, <1>1, <1>2, <2>2, <3>1
  <2> QED BY Zenon, <2>1, <2>2
<1>5. /\ Distinct(r.cache) /\ Range(r.cache) = Range(s.cache) \cup {o}
      /\ Keyed(at, r.cache) /\ r.current_size = Total(at, r.cache)
  <2>0. s.current_size = Total(at, l) + Size[k]
    BY Zenon DEF Ready
  <2> HIDE DEF l
  <2>1. o \in Objects \ Range(l) /\ at[o] \in Keys
    BY Zenon, <1>1, <1>4
  <2>2. /\ Distinct(<<o>> \o l) /\ Range(<<o>> \o l) = Range(l) \cup {o}
        /\ Keyed(at, <<o>> \o l) /\ Total(at, <<o>> \o l) = Total(at, l) + Size[at[o]]
    BY ZenonT(60), <1>4, <2>1, PushObject
  <2>3. Range(l) \cup {o} = Range(s.cache) \cup {o}
    BY Zenon, <1>4
  <2> QED BY Zenon, <1>1, <1>3, <2>0, <2>2, <2>3
<1> HIDE DEF l
<1>6. /\ Distinct(r.unused_items) /\ Keyed(at, r.unused_items)
      /\ r.unused_size = Total(at, r.unused_items)
      /\ Range(r.cache) \cap Range(r.unused_items) = {}
  <2>1. /\ Distinct(s.unused_items) /\ Keyed(at, s.unused_items)
        /\ s.unused_size = Total(at, s.unused_items)
        /\ Range(s.cache) \cap Range(s.unused_items) = {} /\ o \notin Range(s.unused_items)
    BY Zenon DEF Ready
  <2>2. (Range(s.cache) \cup {o}) \cap Range(s.unused_items) = {}
    BY Zenon, <2>1
  <2> QED BY Zenon, <1>3, <1>5, <2>1, <2>2
<1>7. ASSUME NEW x \in Range(r.cache) PROVE r.lookup[at[x]] = x
  <2>1. CASE x = o
    BY Zenon, <1>1, <1>2, <1>3, <2>1
  <2>2. CASE x # o
    <3>1. x \in Range(s.cache) \ {o}
      BY Zenon, <1>5, <2>2
    <3>2. at[x] # k /\ s.lookup[at[x]] = x /\ at[x] \in Keys
      BY Zenon, <3>1 DEF Ready, Keyed
    <3> QED BY Zenon, <1>2, <1>3, <3>2
  <2> QED BY Zenon, <2>1, <2>2
<1>8. ASSUME NEW j \in Keys, r.lookup[j] # None
      PROVE  r.lookup[j] \in Range(r.cache) /\ at[r.lookup[j]] = j
  <2>1. CASE j = k
    BY Zenon, <1>1, <1>2, <1>3, <1>5, <2>1
  <2>2. CASE j # k
    <3>1. r.lookup[j] = s.lookup[j]
      BY Zenon, <1>2, <1>3, <2>2
    <3>2. s.lookup[j] \in Range(s.cache) /\ at[s.lookup[j]] = j
      BY Zenon, <1>8, <2>2, <3>1 DEF Ready
    <3> QED BY Zenon, <1>5, <3>1, <3>2
  <2> QED BY Zenon, <2>1, <2>2
<1>9. ASSUME NEW v \in Owners
      PROVE  r.owner_tables[v] = {x \in Range(r.cache) : v \in r.owners[x]}
  <2>1. s.owner_tables[v] = {x \in Range(r.cache) : v \in s.owners[x]}
    <3>1. s.owner_tables[v] = {x \in Range(s.cache) \cup {o} : v \in s.owners[x]}
      BY Zenon DEF Ready
    <3> QED BY Zenon, <1>5, <3>1
  <2>2. \A x \in Range(r.cache) : x \in Objects
    BY Zenon, <1>1, <1>2, <1>5
  <2>3. o \in Range(r.cache) /\ o \in Objects
    BY Zenon, <1>1, <1>5
  <2>4. CASE v = w
    <3>1. r.owner_tables[v] = s.owner_tables[v] \cup {o}
      BY Zenon, <1>2, <1>3, <2>4
    <3>2. r.owners[o] = s.owners[o] \cup {v}
      BY Zenon, <1>2, <1>3, <2>3, <2>4
    <3>3. \A x \in Range(r.cache) : x # o => r.owners[x] = s.owners[x]
      BY Zenon, <1>2, <1>3, <2>2
    <3> QED BY Zenon, <2>1, <2>3, <3>1, <3>2, <3>3
  <2>5. CASE v # w
    <3>1. r.owner_tables[v] = s.owner_tables[v]
      BY Zenon, <1>2, <1>3, <2>5
    <3>2. r.owners[o] = s.owners[o] \cup {w}
      BY Zenon, <1>2, <1>3, <2>3
    <3>3. \A x \in Range(r.cache) : x # o => r.owners[x] = s.owners[x]
      BY Zenon, <1>2, <1>3, <2>2
    <3>4. \A x \in Range(r.cache) : v \in r.owners[x] <=> v \in s.owners[x]
      BY Zenon, <2>5, <3>2, <3>3
    <3> QED BY Zenon, <2>1, <3>1, <3>4
  <2> QED BY Zenon, <2>4, <2>5
<1>10. Coherent(at, r)
  BY Zenon, <1>3, <1>5, <1>6, <1>7, <1>8, <1>9 DEF Coherent
<1> QED BY Zenon, <1>3, <1>5, <1>10 DEF r, Fronted

\* A block that is found is ready to be moved to the front.
LEMMA FoundIsReady ==
  ASSUME Coherent(key, c), NEW k \in Keys, c.lookup[k] # None
  PROVE  Ready(key, c, c.lookup[k], k) /\ c.lookup[k] \in Range(c.cache)
<1> DEFINE o == c.lookup[k]
           l == Erase(c.cache, o)
<1>1. /\ c \in Records /\ o \in Range(c.cache) /\ key[o] = k
      /\ Distinct(c.cache) /\ Keyed(key, c.cache) /\ c.current_size = Total(key, c.cache)
  BY Zenon DEF Coherent
<1>2. c.cache \in Seq(Objects) /\ o \in Objects
  <2>1. c.cache \in Seq(Objects)
    BY <1>1 DEF Records
  <2> HIDE DEF o
  <2>2. o \in Objects
    BY <1>1, <2>1, RangeIs
  <2> QED BY Zenon, <2>1, <2>2
<1> HIDE DEF o
<1>3. c.current_size = Total(key, l) + Size[k]
  <2>1. /\ Erase(c.cache, o) \in Seq(Objects) /\ Keyed(key, Erase(c.cache, o))
        /\ Total(key, Erase(c.cache, o)) = Total(key, c.cache) - Size[key[o]]
    BY Zenon, <1>1, <1>2, EraseObject
  <2>2. Total(key, l) \in Nat /\ Total(key, c.cache) \in Nat
    <3>1. l \in Seq(Objects) /\ Keyed(key, l)
      BY Zenon, <2>1
    <3> HIDE DEF l
    <3> QED BY Zenon, <1>1, <1>2, <3>1, SizesAre
  <2>3. Total(key, l) = Total(key, c.cache) - Size[k]
    BY Zenon, <1>1, <2>1
  <2>4. Size[k] \in Nat
    BY CacheAssumption
  <2> HIDE DEF l
  <2> QED BY <1>1, <2>2, <2>3, <2>4
<1>4. /\ Distinct(c.unused_items) /\ Range(c.cache) \cap Range(c.unused_items) = {}
      /\ Keyed(key, c.unused_items) /\ c.unused_size = Total(key, c.unused_items)
      /\ \A x \in Range(c.cache) : c.lookup[key[x]] = x
      /\ \A j \in Keys : c.lookup[j] # None => c.lookup[j] \in Range(c.cache) /\ key[c.lookup[j]] = j
      /\ \A v \in Owners : c.owner_tables[v] = {x \in Range(c.cache) : v \in c.owners[x]}
  BY Zenon DEF Coherent
<1>5. o \notin Range(c.unused_items) /\ Range(c.cache) \cup {o} = Range(c.cache)
  <2>1. Range(c.cache) \cap Range(c.unused_items) = {} /\ o \in Range(c.cache)
    BY Zenon, <1>1, <1>4
  <2> QED BY <2>1
<1>6. \A x \in Range(c.cache) \ {o} : key[x] # k /\ c.lookup[key[x]] = x
  <2>1. \A x \in Range(c.cache) : c.lookup[key[x]] = x
    BY Zenon, <1>4
  <2> QED BY Zenon, <2>1 DEF o
<1>7. \A v \in Owners : c.owner_tables[v] = {x \in Range(c.cache) \cup {o} : v \in c.owners[x]}
  <2>1. Range(c.cache) \cup {o} = Range(c.cache)
    BY Zenon, <1>5
  <2>2. \A v \in Owners : c.owner_tables[v] = {x \in Range(c.cache) : v \in c.owners[x]}
    BY Zenon, <1>4
  <2> QED BY ZenonT(20), <2>1, <2>2
<1>8. Ready(key, c, o, k)
  BY Zenon, <1>1, <1>2, <1>3, <1>4, <1>5, <1>6, <1>7 DEF Ready
<1> QED BY Zenon, <1>1, <1>8 DEF o

\* What taking the first object of the pool does.
LEMMA TakeIs ==
  ASSUME NEW s, Coherent(key, s), s.unused_items # <<>>
  PROVE  LET o == Head(s.unused_items)
             p == [s EXCEPT !.unused_items = Tail(@), !.unused_size = @ - Size[key[o]]]
         IN  /\ o \in Range(s.unused_items)
             /\ p \in Records /\ p.cache = s.cache /\ p.owners = s.owners /\ p.lookup = s.lookup
             /\ p.owner_tables = s.owner_tables /\ p.current_size = s.current_size
             /\ Range(p.unused_items) = Range(s.unused_items) \ {o}
             /\ Distinct(p.unused_items) /\ Keyed(key, p.unused_items)
             /\ p.unused_size = Total(key, p.unused_items)
<1> DEFINE l == s.unused_items
           o == Head(l)
           tail == Tail(l)
           rest == s.unused_size - Size[key[o]]
           p == [s EXCEPT !.unused_items = Tail(@), !.unused_size = @ - Size[key[o]]]
<1>1. s \in Records /\ Distinct(l) /\ Keyed(key, l) /\ s.unused_size = Total(key, l)
  BY Zenon DEF Coherent
<1>2. l \in Seq(Objects) /\ s.unused_size \in Int
  BY <1>1 DEF Records
<1>3. /\ o \in Range(l) /\ tail \in Seq(Objects) /\ Distinct(tail)
      /\ Range(tail) = Range(l) \ {o} /\ Keyed(key, tail)
      /\ Total(key, tail) = Total(key, l) - Size[key[o]]
  BY Zenon, <1>1, <1>2, PopObject
<1>4. rest \in Int
  <2>1. key[o] \in Keys
    BY Zenon, <1>1, <1>3 DEF Keyed
  <2> HIDE DEF o
  <2> QED BY <1>2, <2>1, CacheAssumption
<1>5. rest = Total(key, tail)
  BY Zenon, <1>1, <1>3
<1>6. p = [s EXCEPT !.unused_items = tail, !.unused_size = rest]
  BY Zenon
<1> HIDE DEF l, o, tail, rest, p
<1>7. /\ p \in Records /\ p.cache = s.cache /\ p.owners = s.owners /\ p.lookup = s.lookup
      /\ p.owner_tables = s.owner_tables /\ p.current_size = s.current_size
      /\ p.unused_items = tail /\ p.unused_size = rest
  BY ZenonT(60), <1>1, <1>3, <1>4, <1>6 DEF Records
<1>8. /\ o \in Range(l) /\ Range(p.unused_items) = Range(l) \ {o}
      /\ Distinct(p.unused_items) /\ Keyed(key, p.unused_items)
      /\ p.unused_size = Total(key, p.unused_items)
  BY Zenon, <1>3, <1>5, <1>7
<1> QED BY Zenon, <1>7, <1>8 DEF l, o, p

\* The structures p are s with, at most, an object taken from the pool.
Taken(p, s) ==
  /\ p \in Records /\ p.cache = s.cache /\ p.owners = s.owners /\ p.lookup = s.lookup
  /\ p.owner_tables = s.owner_tables /\ p.current_size = s.current_size
  /\ Range(p.unused_items) \subseteq Range(s.unused_items)
  /\ Distinct(p.unused_items) /\ Keyed(key, p.unused_items)
  /\ p.unused_size = Total(key, p.unused_items)

\* An object that is in neither list is ready to be cached under a key that has no
\* block, when it is given the key and the listed objects keep theirs.
LEMMA InsertReady ==
  ASSUME NEW s, Coherent(key, s), NEW p, Taken(p, s), NEW at, NEW k \in Keys, s.lookup[k] = None,
         NEW o \in Objects \ (Range(s.cache) \cup Range(p.unused_items)), at[o] = k,
         Keeps(key, at, s.cache), Keeps(key, at, p.unused_items)
  PROVE  Ready(at, [p EXCEPT !.owners[o] = {}, !.current_size = @ + Size[k]], o, k)
<1> DEFINE size == p.current_size + Size[k]
           q == [p EXCEPT !.owners[o] = {}, !.current_size = @ + Size[k]]
<1>0. /\ p \in Records /\ p.cache = s.cache /\ p.owners = s.owners /\ p.lookup = s.lookup
      /\ p.owner_tables = s.owner_tables /\ p.current_size = s.current_size
      /\ Range(p.unused_items) \subseteq Range(s.unused_items)
      /\ Distinct(p.unused_items) /\ Keyed(key, p.unused_items)
      /\ p.unused_size = Total(key, p.unused_items)
  BY Zenon DEF Taken
<1>14. /\ \A x \in Range(s.cache) : at[x] = key[x]
       /\ \A x \in Range(p.unused_items) : at[x] = key[x]
  BY Zenon DEF Keeps
<1>1. /\ Distinct(s.cache) /\ Keyed(key, s.cache) /\ s.current_size = Total(key, s.cache)
      /\ Range(s.cache) \cap Range(s.unused_items) = {}
      /\ \A x \in Range(s.cache) : s.lookup[key[x]] = x
      /\ \A j \in Keys : s.lookup[j] # None => s.lookup[j] \in Range(s.cache) /\ key[s.lookup[j]] = j
      /\ \A v \in Owners : s.owner_tables[v] = {x \in Range(s.cache) : v \in s.owners[x]}
  BY Zenon DEF Coherent
<1>2. /\ p.cache \in Seq(Objects) /\ p.unused_items \in Seq(Objects)
      /\ p.owners \in [Objects -> SUBSET Owners] /\ size \in Int /\ o \in Objects
  <2>1. Size[k] \in Int
    BY CacheAssumption
  <2> QED BY <1>0, <2>1 DEF Records
<1>3. q = [p EXCEPT !.owners[o] = {}, !.current_size = size]
  BY Zenon
<1> HIDE DEF size, q
<1>4. /\ q \in Records /\ q.cache = p.cache /\ q.unused_items = p.unused_items
      /\ q.owners = [p.owners EXCEPT ![o] = {}] /\ q.lookup = p.lookup
      /\ q.owner_tables = p.owner_tables /\ q.current_size = size /\ q.unused_size = p.unused_size
  BY ZenonT(60), <1>0, <1>2, <1>3 DEF Records
<1>5. o \notin Range(s.cache) /\ o \notin Range(p.unused_items)
  BY Zenon
<1>6. Keyed(at, q.cache) /\ Total(at, q.cache) = Total(key, s.cache)
  <2>1. /\ s.cache \in Seq(Objects) /\ Keyed(key, s.cache)
    BY Zenon, <1>0, <1>1, <1>2
  <2>2. Keyed(at, s.cache) /\ Total(at, s.cache) = Total(key, s.cache)
    BY ZenonT(60), <2>1, SameKeys
  <2> QED BY Zenon, <1>0, <1>4, <2>2
<1>7. Keyed(at, q.unused_items) /\ q.unused_size = Total(at, q.unused_items)
  <2>1. p.unused_items \in Seq(Objects) /\ Keyed(key, p.unused_items)
    BY Zenon, <1>0, <1>2
  <2>2. Keyed(at, p.unused_items) /\ Total(at, p.unused_items) = Total(key, p.unused_items)
    BY ZenonT(60), <2>1, SameKeys
  <2> QED BY Zenon, <1>0, <1>4, <2>2
<1>8. q.current_size = Total(at, Erase(q.cache, o)) + Size[k]
  <2>1. Erase(q.cache, o) = q.cache
    <3>1. q.cache \in Seq(Objects) /\ o \notin Range(q.cache)
      BY Zenon, <1>0, <1>2, <1>4, <1>5
    <3> QED BY Zenon, <3>1, EraseIs
  <2>2. q.current_size = s.current_size + Size[k]
    BY Zenon, <1>0, <1>4 DEF size
  <2> QED BY Zenon, <1>1, <1>6, <2>1, <2>2
<1>9. Range(q.cache) \cap Range(q.unused_items) = {} /\ o \notin Range(q.unused_items)
  <2>1. Range(s.cache) \cap Range(p.unused_items) = {}
    BY Zenon, <1>0, <1>1
  <2> QED BY Zenon, <1>0, <1>4, <1>5, <2>1
<1>10. ASSUME NEW x \in Range(q.cache) \ {o} PROVE at[x] # k /\ q.lookup[at[x]] = x
  <2>1. x \in Range(s.cache) /\ at[x] = key[x] /\ s.lookup[key[x]] = x
    BY Zenon, <1>0, <1>1, <1>4, <1>14
  <2>2. x # None
    <3>1. x \in Objects
      BY <1>0, <1>2, <2>1, RangeIs
    <3> QED BY Zenon, <3>1, CacheAssumption
  <2> QED BY Zenon, <1>0, <1>4, <2>1, <2>2
<1>11. ASSUME NEW j \in Keys \ {k}, q.lookup[j] # None
       PROVE  q.lookup[j] \in Range(q.cache) /\ at[q.lookup[j]] = j
  <2>1. q.lookup[j] = s.lookup[j] /\ Range(q.cache) = Range(s.cache)
    BY Zenon, <1>0, <1>4
  <2>2. s.lookup[j] \in Range(s.cache) /\ key[s.lookup[j]] = j
    BY Zenon, <1>1, <1>11, <2>1
  <2>3. at[s.lookup[j]] = key[s.lookup[j]]
    BY Zenon, <1>14, <2>2
  <2> QED BY Zenon, <2>1, <2>2, <2>3
<1>12. ASSUME NEW v \in Owners
       PROVE  q.owner_tables[v] = {x \in Range(q.cache) \cup {o} : v \in q.owners[x]}
  <2>1. q.owner_tables[v] = {x \in Range(s.cache) : v \in s.owners[x]}
    <3>1. s.owner_tables[v] = {x \in Range(s.cache) : v \in s.owners[x]}
      BY Zenon, <1>1
    <3>2. q.owner_tables = s.owner_tables
      BY Zenon, <1>0, <1>4
    <3> QED BY Zenon, <3>1, <3>2
  <2>2. Range(q.cache) = Range(s.cache) /\ Range(s.cache) \subseteq Objects
    BY <1>0, <1>2, <1>4, RangeIs
  <2>3. q.owners[o] = {} /\ \A x \in Range(s.cache) : q.owners[x] = s.owners[x]
    BY Zenon, <1>0, <1>2, <1>4, <1>5, <2>2
  <2>4. {x \in Range(s.cache) \cup {o} : v \in q.owners[x]} = {x \in Range(s.cache) : v \in s.owners[x]}
    BY Zenon, <2>3
  <2> QED BY Zenon, <2>1, <2>2, <2>4
<1>13. Ready(at, q, o, k)
  <2>1. Distinct(q.cache) /\ Distinct(q.unused_items)
    BY Zenon, <1>0, <1>1, <1>4
  <2> QED BY Zenon, <1>2, <1>4, <1>6, <1>7, <1>8, <1>9, <1>10, <1>11, <1>12, <2>1 DEF Ready
<1> QED BY Zenon, <1>13 DEF q

\* Object o, which was not in the list, has been cached for thread t under key k.
Placed(s, o, clean, t, k, m) ==
  /\ o \in Objects \ Range(s.cache)
  /\ Range(c'.cache) = Range(s.cache) \cup {o}
  /\ c'.lookup = [s.lookup EXCEPT ![k] = o]
  /\ key'[o] = k /\ Keeps(key, key', s.cache)
  /\ holds' = [holds EXCEPT ![t] = {<<o, k>>}]
  /\ \A x \in Range(s.cache) : x \in dirty /\ x \notin clean => x \in dirty'
  /\ m = "CREATE" => o \in dirty'

\* The object that Insert takes, and the structures it takes it from.
LEMMA InsertTakes ==
  ASSUME NEW s, Coherent(key, s), NEW R, s.unused_items # <<>> \/ Free(s, R) # {}
  PROVE  LET pooled == s.unused_items # <<>>
             o == IF pooled THEN Head(s.unused_items) ELSE CHOOSE x \in Free(s, R) : TRUE
             p == IF pooled THEN [s EXCEPT !.unused_items = Tail(@),
                                           !.unused_size = @ - Size[key[o]]] ELSE s
         IN  /\ Taken(p, s) /\ o \in Objects
             /\ o \notin Range(s.cache) /\ o \notin Range(p.unused_items)
<1> DEFINE pooled == s.unused_items # <<>>
           o == IF pooled THEN Head(s.unused_items) ELSE CHOOSE x \in Free(s, R) : TRUE
           popped == [s EXCEPT !.unused_items = Tail(@), !.unused_size = @ - Size[key[o]]]
           p == IF pooled THEN popped ELSE s
<1>1. /\ s \in Records /\ Range(s.cache) \cap Range(s.unused_items) = {}
      /\ Distinct(s.unused_items) /\ Keyed(key, s.unused_items)
      /\ s.unused_size = Total(key, s.unused_items)
  BY Zenon DEF Coherent
<1>2. s.cache \in Seq(Objects) /\ s.unused_items \in Seq(Objects)
  BY <1>1 DEF Records
<1>3. CASE pooled
  <2>1. o = Head(s.unused_items) /\ p = popped
    BY Zenon, <1>3
  <2>2. /\ o \in Range(s.unused_items)
        /\ popped \in Records /\ popped.cache = s.cache /\ popped.owners = s.owners
        /\ popped.lookup = s.lookup
        /\ popped.owner_tables = s.owner_tables /\ popped.current_size = s.current_size
        /\ Range(popped.unused_items) = Range(s.unused_items) \ {o}
        /\ Distinct(popped.unused_items) /\ Keyed(key, popped.unused_items)
        /\ popped.unused_size = Total(key, popped.unused_items)
    BY Zenon, <1>3, <2>1, TakeIs
  <2> HIDE DEF popped, o, pooled
  <2>3. Taken(popped, s)
    BY Zenon, <2>2 DEF Taken
  <2>4. o \in Objects
    BY <1>2, <2>2, RangeIs
  <2>5. o \notin Range(s.cache) /\ o \notin Range(popped.unused_items)
    BY Zenon, <1>1, <2>2
  <2> HIDE DEF p
  <2>6. Taken(p, s) /\ o \in Objects /\ o \notin Range(s.cache) /\ o \notin Range(p.unused_items)
    BY Zenon, <2>1, <2>3, <2>4, <2>5
  <2> QED BY Zenon, <2>6 DEF p, o, popped, pooled
<1>4. CASE ~ pooled
  <2>1. o = (CHOOSE x \in Free(s, R) : TRUE) /\ p = s
    BY Zenon, <1>4
  <2>2. Free(s, R) # {}
    BY Zenon, <1>4
  <2>3. o \in Free(s, R)
    BY Zenon, <2>1, <2>2
  <2> HIDE DEF o, p, pooled
  <2>4. o \in Objects /\ o \notin Range(s.cache) /\ o \notin Range(s.unused_items)
    BY <1>2, <2>3, RangeIs DEF Free
  <2>5. Taken(s, s)
    BY Zenon, <1>1 DEF Taken
  <2>6. Taken(p, s) /\ o \in Objects /\ o \notin Range(s.cache) /\ o \notin Range(p.unused_items)
    BY Zenon, <2>1, <2>4, <2>5
  <2> QED BY Zenon, <2>6 DEF p, o, popped, pooled
<1> QED BY Zenon, <1>3, <1>4

\* Insert.
LEMMA InsertKeeps ==
  ASSUME key \in [Objects -> Keys \cup {None}], dirty \subseteq Objects, expired \subseteq Objects,
         NEW s, Coherent(key, s), NEW R, NEW clean, NEW t \in Threads, NEW w \in Owners,
         NEW k \in Keys, s.lookup[k] = None, NEW m, Insert(s, R, clean, t, w, k, m)
  PROVE  /\ Coherent(key', c')
         /\ key' \in [Objects -> Keys \cup {None}] /\ dirty' \subseteq Objects
         /\ expired' \subseteq Objects
         /\ \E o : Placed(s, o, clean, t, k, m)
<1> DEFINE pooled == s.unused_items # <<>>
           o == IF pooled THEN Head(s.unused_items) ELSE CHOOSE x \in Free(s, R) : TRUE
           p == IF pooled THEN [s EXCEPT !.unused_items = Tail(@),
                                         !.unused_size = @ - Size[key[o]]] ELSE s
           q == [p EXCEPT !.owners[o] = {}, !.current_size = @ + Size[k]]
<1>1. /\ pooled \/ Free(s, R) # {}
      /\ c' = MoveToFront(q, o, w, k)
      /\ key' = [x \in Objects |-> IF x = o THEN k ELSE IF x \in Free(s, R) THEN None ELSE key[x]]
      /\ dirty' = (dirty \ (clean \cup Free(s, R) \cup {o})) \cup (IF m = "CREATE" THEN {o} ELSE {})
      /\ expired' = (expired \cap Range(s.cache)) \ {o}
      /\ holds' = [holds EXCEPT ![t] = {<<o, k>>}]
  BY Zenon DEF Insert
<1>2. Taken(p, s) /\ o \in Objects /\ o \notin Range(s.cache) /\ o \notin Range(p.unused_items)
  BY Zenon, <1>1, InsertTakes
<1> HIDE DEF o, p, pooled
<1>3. /\ s.cache \in Seq(Objects) /\ s.unused_items \in Seq(Objects)
      /\ Range(p.unused_items) \subseteq Range(s.unused_items)
  BY <1>2 DEF Coherent, Records, Taken
<1>4. \A x \in Range(s.cache) \cup Range(s.unused_items) : x \in Objects /\ x \notin Free(s, R)
  BY <1>3, RangeIs DEF Free
<1>5. Keeps(key, key', s.cache) /\ Keeps(key, key', p.unused_items)
  <2>1. ASSUME NEW x \in Objects, x # o, x \notin Free(s, R) PROVE key'[x] = key[x]
    BY Zenon, <1>1, <2>1
  <2>2. \A x \in Range(s.cache) : x \in Objects /\ x # o /\ x \notin Free(s, R)
    BY Zenon, <1>2, <1>4
  <2>3. \A x \in Range(p.unused_items) : x \in Objects /\ x # o /\ x \notin Free(s, R)
    BY Zenon, <1>2, <1>3, <1>4
  <2> QED BY Zenon, <2>1, <2>2, <2>3 DEF Keeps
<1>6. key'[o] = k
  BY Zenon, <1>1, <1>2
<1>7. Ready(key', q, o, k)
  <2>1. o \in Objects \ (Range(s.cache) \cup Range(p.unused_items))
    BY Zenon, <1>2
  <2> QED BY Zenon, <1>2, <1>5, <1>6, <2>1, InsertReady
<1>8. q.cache = s.cache /\ q.lookup = s.lookup
  BY <1>2 DEF Taken, Records
<1> HIDE DEF q
<1>9. /\ Coherent(key', c') /\ Range(c'.cache) = Range(s.cache) \cup {o}
      /\ c'.lookup = [s.lookup EXCEPT ![k] = o]
  <2>1. Fronted(key', MoveToFront(q, o, w, k), q, o, k)
    BY Zenon, <1>7, MoveToFrontKeeps
  <2>2. Fronted(key', c', q, o, k)
    BY Zenon, <1>1, <2>1
  <2> QED BY Zenon, <1>8, <2>2 DEF Fronted
<1>10. /\ key' \in [Objects -> Keys \cup {None}] /\ dirty' \subseteq Objects
       /\ expired' \subseteq Objects
  <2>1. key' \in [Objects -> Keys \cup {None}]
    <3>1. \A x \in Objects : (IF x = o THEN k ELSE IF x \in Free(s, R) THEN None ELSE key[x])
                               \in Keys \cup {None}
      BY Zenon
    <3>2. key' = [x \in Objects |-> IF x = o THEN k ELSE IF x \in Free(s, R) THEN None ELSE key[x]]
      BY Zenon, <1>1
    <3> QED BY Zenon, <3>1, <3>2
  <2>2. dirty' \subseteq Objects
    BY <1>1, <1>2
  <2>3. expired' \subseteq Objects
    BY <1>1
  <2> QED BY Zenon, <2>1, <2>2, <2>3
<1>11. /\ \A x \in Range(s.cache) : x \in dirty /\ x \notin clean => x \in dirty'
       /\ m = "CREATE" => o \in dirty'
  <2>1. \A x \in Range(s.cache) : x # o /\ x \notin Free(s, R)
    BY Zenon, <1>2, <1>4
  <2> QED BY <1>1, <2>1
<1>12. Placed(s, o, clean, t, k, m)
  <2>1. o \in Objects \ Range(s.cache)
    BY Zenon, <1>2
  <2> QED BY Zenon, <1>1, <1>5, <1>6, <1>9, <1>11, <2>1 DEF Placed
<1> QED BY Zenon, <1>9, <1>10, <1>12

\* Taking an owner from its blocks keeps the structures in agreement.
LEMMA DisownKeeps ==
  ASSUME Coherent(key, c), NEW w \in Owners
  PROVE  /\ Coherent(key, Disown(w)) /\ Disown(w).cache = c.cache
         /\ Disown(w).lookup = c.lookup /\ Disown(w).unused_items = c.unused_items
<1> DEFINE r == Disown(w)
           own == [o \in Objects |-> c.owners[o] \ {w}]
<1>1. c \in Records
  BY Zenon DEF Coherent
<1>2. /\ c.owners \in [Objects -> SUBSET Owners] /\ c.owner_tables \in [Owners -> SUBSET Objects]
      /\ c.cache \in Seq(Objects) /\ Range(c.cache) \subseteq Objects
  BY <1>1, RangeIs DEF Records
<1>3. own \in [Objects -> SUBSET Owners] /\ \A o \in Objects : own[o] = c.owners[o] \ {w}
  BY Zenon, <1>2
<1>4. r = [c EXCEPT !.owners = own, !.owner_tables[w] = {}]
  BY Zenon DEF Disown
<1> HIDE DEF own, r
<1>5. /\ r \in Records /\ r.cache = c.cache /\ r.unused_items = c.unused_items
      /\ r.owners = own /\ r.owner_tables = [c.owner_tables EXCEPT ![w] = {}]
      /\ r.lookup = c.lookup /\ r.current_size = c.current_size /\ r.unused_size = c.unused_size
  BY ZenonT(60), <1>1, <1>3, <1>4 DEF Records
<1>6. ASSUME NEW v \in Owners
      PROVE  r.owner_tables[v] = {o \in Range(r.cache) : v \in r.owners[o]}
  <2>1. c.owner_tables[v] = {o \in Range(c.cache) : v \in c.owners[o]}
    BY Zenon DEF Coherent
  <2>2. \A o \in Range(c.cache) : r.owners[o] = c.owners[o] \ {w}
    BY Zenon, <1>2, <1>3, <1>5
  <2>3. CASE v = w
    <3>1. r.owner_tables[v] = {}
      BY Zenon, <1>2, <1>5, <2>3
    <3> QED BY Zenon, <1>5, <2>2, <2>3, <3>1
  <2>4. CASE v # w
    <3>1. r.owner_tables[v] = c.owner_tables[v]
      BY Zenon, <1>2, <1>5, <2>4
    <3>2. \A o \in Range(c.cache) : v \in r.owners[o] <=> v \in c.owners[o]
      BY Zenon, <2>2, <2>4
    <3>3. Range(r.cache) = Range(c.cache)
      BY Zenon, <1>5
    <3> QED BY Zenon, <2>1, <3>1, <3>2, <3>3
  <2> QED BY Zenon, <2>3, <2>4
<1>7. Coherent(key, r)
  <2>1. /\ Distinct(c.cache) /\ Distinct(c.unused_items)
        /\ Range(c.cache) \cap Range(c.unused_items) = {}
        /\ Keyed(key, c.cache) /\ Keyed(key, c.unused_items)
        /\ \A o \in Range(c.cache) : c.lookup[key[o]] = o
        /\ \A k \in Keys : c.lookup[k] # None => c.lookup[k] \in Range(c.cache) /\ key[c.lookup[k]] = k
        /\ c.current_size = Total(key, c.cache) /\ c.unused_size = Total(key, c.unused_items)
    BY Zenon DEF Coherent
  <2>2. /\ Distinct(r.cache) /\ Distinct(r.unused_items)
        /\ Range(r.cache) \cap Range(r.unused_items) = {}
        /\ Keyed(key, r.cache) /\ Keyed(key, r.unused_items)
        /\ \A o \in Range(r.cache) : r.lookup[key[o]] = o
        /\ \A k \in Keys : r.lookup[k] # None => r.lookup[k] \in Range(r.cache) /\ key[r.lookup[k]] = k
        /\ r.current_size = Total(key, r.cache) /\ r.unused_size = Total(key, r.unused_items)
    BY Zenon, <1>5, <2>1
  <2> QED BY Zenon, <1>5, <1>6, <2>2 DEF Coherent
<1> QED BY Zenon, <1>5, <1>7 DEF r

\* The orders in which the objects of a set may be visited.
LEMMA OrdersAre ==
  ASSUME NEW T, T \subseteq Objects, NEW items \in Orders(T)
  PROVE  items \in Seq(Objects) /\ Distinct(items) /\ Range(items) \subseteq T
<1>1. IsFiniteSet(T) /\ Cardinality(T) \in Nat
  <2>1. IsFiniteSet(Objects)
    BY CacheAssumption, FS_Interval DEF Objects
  <2>2. IsFiniteSet(T)
    BY <2>1, FS_Subset
  <2> QED BY Zenon, <2>2, FS_CardinalityType
<1> DEFINE N == Cardinality(T)
<1>2. items \in [1..N -> T] /\ \A i, j \in 1..N : i # j => items[i] # items[j]
  BY Zenon DEF Orders, Bijection, Injection, IsInjective
<1>3. N \in Nat
  BY Zenon, <1>1
<1> HIDE DEF N
<1>4. items \in Seq(T) /\ Len(items) = N
  BY <1>2, <1>3
<1>5. items \in Seq(Objects)
  BY <1>2, <1>3
<1>6. Range(items) \subseteq T
  <2>1. Range(items) = {items[i] : i \in 1..Len(items)}
    BY Zenon, <1>4, RangeIs
  <2> QED BY Zenon, <1>2, <1>4, <2>1
<1> QED BY Zenon, <1>2, <1>4, <1>5, <1>6 DEF Distinct

\* What the removal of an owner's blocks does.
LEMMA DropForceKeeps ==
  ASSUME Coherent(key, c), NEW w \in Owners, NEW items \in Orders(c.owner_tables[w]),
         c' = RemoveEach(Disown(w), items, c.owner_tables[w])
  PROVE  /\ Coherent(key, c')
         /\ Range(c'.cache) \subseteq Range(c.cache)
         /\ Range(c.cache) \ Range(c'.cache) \subseteq c.owner_tables[w]
<1> DEFINE T == c.owner_tables[w]
           s == Disown(w)
<1>1. Coherent(key, s) /\ s.cache = c.cache
  BY Zenon, DisownKeeps
<1>2. T \subseteq Range(c.cache) /\ T \subseteq Objects
  <2>1. T \subseteq Range(c.cache)
    <3>1. T = {o \in Range(c.cache) : w \in c.owners[o]}
      BY Zenon DEF Coherent
    <3> QED BY Zenon, <3>1
  <2>2. c.cache \in Seq(Objects)
    BY DEF Coherent, Records
  <2>3. Range(c.cache) \subseteq Objects
    BY <2>2, RangeIs
  <2> QED BY Zenon, <2>1, <2>3
<1>3. c' = RemoveEach(s, items, T)
  BY Zenon
<1>4. items \in Seq(Objects) /\ Distinct(items) /\ Range(items) \subseteq T
  BY Zenon, <1>2, OrdersAre
<1> HIDE DEF T, s
<1>5. \A n \in 1..Len(items) : items[n] \in Range(s.cache)
  <2>1. Range(items) = {items[n] : n \in 1..Len(items)}
    BY Zenon, <1>4, RangeIs
  <2> QED BY Zenon, <1>1, <1>2, <1>4, <2>1
<1>6. /\ Coherent(key, RemoveEach(s, items, T))
      /\ Range(RemoveEach(s, items, T).cache) = Range(s.cache) \ (T \cap Range(items))
  BY Zenon, <1>1, <1>4, <1>5, RemoveEachKeeps
<1>7. Coherent(key, c') /\ Range(c'.cache) = Range(c.cache) \ (T \cap Range(items))
  BY Zenon, <1>1, <1>3, <1>6
<1> QED BY Zenon, <1>7 DEF T

-----------------------------------------------------------------------------
(***************************************************************************)
(* The structures agree, whatever owners are dropped by force.             *)
(***************************************************************************)

\* The variables other than the structures are of their types.
Typed ==
  /\ capacity \in Capacities
  /\ key \in [Objects -> Keys \cup {None}]
  /\ dirty \subseteq Objects /\ expired \subseteq Objects /\ flushing \subseteq Objects
  /\ holds \in [Threads -> SUBSET (Objects \X Keys)]
  /\ todo \in [Threads -> SUBSET Objects]
  /\ unflushed \subseteq Keys
  /\ invalid \in BOOLEAN

Agree == Typed /\ Coherent(key, c)

\* What a miss comes to: the blocks Q are queued, the cache shrinks to r, and a
\* block is placed, unless the walk has left the list.
Missed(t, k, m, Q, r) ==
  /\ Q \subseteq Range(c.cache) /\ Q \subseteq dirty
  /\ Shrunk(c, Q, r)
  /\ c.lookup[k] = None
  /\ flushing' = flushing \cup Q
  /\ unflushed' = (unflushed \ {key[o] : o \in r.flushed})
                   \cup (IF m = "CREATE" /\ ~ r.invalid THEN {k} ELSE {})
  /\ invalid' = r.invalid
  /\ \/ /\ r.invalid /\ c' = r.state /\ dirty' = dirty \ r.flushed
        /\ key' = key /\ expired' = expired /\ holds' = holds
     \/ /\ ~ r.invalid /\ Coherent(key', c')
        /\ key' \in [Objects -> Keys \cup {None}] /\ dirty' \subseteq Objects
        /\ expired' \subseteq Objects
        /\ \E o : Placed(r.state, o, r.flushed, t, k, m)

\* A miss is one of those.
LEMMA MissIs ==
  ASSUME Agree, NEW t \in Threads, NEW w \in Owners, NEW k \in Keys, NEW m, Miss(t, w, k, m)
  PROVE  \E Q, r : Missed(t, k, m, Q, r)
<1> DEFINE Accepted == IF 10 * c.current_size > 7 * capacity
                         THEN {o \in Visited(c) : o \in dirty \cap expired} ELSE {}
           Unflushed(r) == (unflushed \ {key[o] : o \in r.flushed})
                            \cup (IF m = "CREATE" /\ ~ r.invalid THEN {k} ELSE {})
<1>1. PICK Q \in SUBSET Accepted :
        /\ flushing' = flushing \cup Q
        /\ \E r \in Shrinks(Q) :
             /\ unflushed' = Unflushed(r)
             /\ invalid' = r.invalid
             /\ IF r.invalid
                  THEN /\ c' = r.state
                       /\ dirty' = dirty \ r.flushed
                       /\ UNCHANGED <<key, expired, holds>>
                  ELSE Insert(r.state, Referenced \cup Q, r.flushed, t, w, k, m)
  BY Zenon DEF Miss
<1>2. PICK r \in Shrinks(Q) :
        /\ unflushed' = Unflushed(r)
        /\ invalid' = r.invalid
        /\ IF r.invalid
             THEN /\ c' = r.state
                  /\ dirty' = dirty \ r.flushed
                  /\ UNCHANGED <<key, expired, holds>>
             ELSE Insert(r.state, Referenced \cup Q, r.flushed, t, w, k, m)
  BY Zenon, <1>1
<1>3. c.lookup[k] = None
  BY Zenon DEF Miss
<1>4. Coherent(key, c) /\ c.cache \in Seq(Objects)
  BY DEF Agree, Coherent, Records
<1>5. Q \subseteq Range(c.cache) /\ Q \subseteq dirty
  <2>1. Visited(c) \subseteq Range(c.cache)
    BY <1>4, RangeIs DEF Visited, Walk
  <2> QED BY Zenon, <2>1
<1> HIDE DEF Accepted
<1>6. Shrunk(c, Q, r)
  BY Zenon, <1>4, <1>5, ShrinksShrink
<1>7. CASE r.invalid
  <2>1. /\ c' = r.state /\ dirty' = dirty \ r.flushed
        /\ key' = key /\ expired' = expired /\ holds' = holds
    BY Zenon, <1>2, <1>7
  <2>2. Missed(t, k, m, Q, r)
    BY Zenon, <1>1, <1>2, <1>3, <1>5, <1>6, <1>7, <2>1 DEF Missed
  <2> QED BY Zenon, <2>2
<1>8. CASE ~ r.invalid
  <2>1. Insert(r.state, Referenced \cup Q, r.flushed, t, w, k, m)
    BY Zenon, <1>2, <1>8
  <2>2. Coherent(key, r.state) /\ Range(r.state.cache) \subseteq Range(c.cache)
    BY Zenon, <1>6 DEF Shrunk
  <2>3. r.state.lookup[k] = None
    <3>1. SUFFICES ASSUME r.state.lookup[k] # None PROVE FALSE
      BY Zenon
    <3> DEFINE x == r.state.lookup[k]
    <3>2. x \in Range(r.state.cache) /\ key[x] = k
      BY Zenon, <2>2, <3>1 DEF Coherent
    <3>3. c.lookup[key[x]] = x
      BY ZenonT(60), <1>4, <2>2, <3>2 DEF Coherent
    <3> QED BY Zenon, <1>3, <3>1, <3>2, <3>3
  <2>4. key \in [Objects -> Keys \cup {None}] /\ dirty \subseteq Objects /\ expired \subseteq Objects
    BY Zenon DEF Agree, Typed
  <2>5. /\ Coherent(key', c')
        /\ key' \in [Objects -> Keys \cup {None}] /\ dirty' \subseteq Objects
        /\ expired' \subseteq Objects
        /\ \E o : Placed(r.state, o, r.flushed, t, k, m)
    BY Zenon, <2>1, <2>2, <2>3, <2>4, InsertKeeps
  <2>6. Missed(t, k, m, Q, r)
    BY Zenon, <1>1, <1>2, <1>3, <1>5, <1>6, <1>8, <2>5 DEF Missed
  <2> QED BY Zenon, <2>6
<1> QED BY Zenon, <1>7, <1>8

\* A hit.
LEMMA HitIs ==
  ASSUME Agree, NEW t \in Threads, NEW w \in Owners, NEW k \in Keys, Hit(t, w, k)
  PROVE  /\ Coherent(key', c') /\ Range(c'.cache) = Range(c.cache)
         /\ c.lookup[k] \in Range(c.cache) /\ key[c.lookup[k]] = k
         /\ c'.lookup = [c.lookup EXCEPT ![k] = c.lookup[k]]
<1> DEFINE o == c.lookup[k]
<1>1. o # None /\ c' = MoveToFront(c, o, w, k) /\ key' = key
  BY Zenon DEF Hit
<1>2. Ready(key, c, o, k) /\ o \in Range(c.cache)
  BY Zenon, <1>1, FoundIsReady DEF Agree
<1>3. key[o] = k
  BY Zenon, <1>2 DEF Ready
<1> HIDE DEF o
<1>4. Fronted(key, MoveToFront(c, o, w, k), c, o, k)
  BY Zenon, <1>2, MoveToFrontKeeps
<1>5. Fronted(key, c', c, o, k)
  BY Zenon, <1>1, <1>4
<1>6. Range(c'.cache) = Range(c.cache)
  BY Zenon, <1>2, <1>5 DEF Fronted
<1> QED BY Zenon, <1>1, <1>2, <1>3, <1>5, <1>6 DEF Fronted, o

\* At the start the structures agree.
LEMMA AgreeInit == Init => Agree
<1> SUFFICES ASSUME Init PROVE Agree
  OBVIOUS
<1>1. Typed
  BY ZenonT(60) DEF Init, Typed
<1>2. /\ c.cache = <<>> /\ c.unused_items = <<>> /\ c.owners = [o \in Objects |-> {}]
      /\ c.lookup = [k \in Keys |-> None] /\ c.owner_tables = [w \in Owners |-> {}]
      /\ c.current_size = 0 /\ c.unused_size = 0 /\ c \in Records
  BY DEF Init, Records
<1>3. /\ <<>> \in Seq(Nat) /\ Len(<<>>) = 0 /\ Range(<<>>) = {} /\ Distinct(<<>>)
      /\ Sizes(key, <<>>) = <<>>
  BY DEF Range, Distinct, Sizes
<1>4. Total(key, <<>>) = 0
  BY Zenon, <1>3, SumsIs DEF Total
<1>5. Keyed(key, <<>>)
  BY Zenon, <1>3 DEF Keyed
<1>6. \A w \in Owners : c.owner_tables[w] = {}
  BY Zenon, <1>2
<1>7. \A k \in Keys : c.lookup[k] = None
  BY Zenon, <1>2
<1>8. Coherent(key, c)
  BY Zenon, <1>2, <1>3, <1>4, <1>5, <1>6, <1>7 DEF Coherent
<1> QED BY Zenon, <1>1, <1>8 DEF Agree

\* getDataKey keeps the structures in agreement.
LEMMA AgreeGet ==
  ASSUME Agree, NEW t \in Threads, NEW w \in Owners, NEW k \in Keys, NEW m, getDataKey(t, w, k, m)
  PROVE  Agree'
<1>0. /\ capacity' = capacity /\ todo' = todo /\ (Hit(t, w, k) \/ Miss(t, w, k, m))
  BY Zenon DEF getDataKey
<1>1. /\ Typed /\ Coherent(key, c) /\ c.cache \in Seq(Objects) /\ Range(c.cache) \subseteq Objects
  <2>1. c.cache \in Seq(Objects)
    BY DEF Agree, Coherent, Records
  <2>2. Range(c.cache) \subseteq Objects
    BY <2>1, RangeIs
  <2> QED BY Zenon, <2>1, <2>2 DEF Agree
<1>2. CASE Hit(t, w, k)
  <2> DEFINE o == c.lookup[k]
  <2>1. /\ Coherent(key', c') /\ o \in Objects
    BY Zenon, <1>1, <1>2, HitIs
  <2>2. /\ expired' = expired \ {o} /\ holds' = [holds EXCEPT ![t] = {<<o, k>>}]
        /\ key' = key /\ dirty' = dirty /\ flushing' = flushing /\ unflushed' = unflushed
        /\ invalid' = invalid
    BY Zenon, <1>2 DEF Hit
  <2> HIDE DEF o
  <2>3. Typed'
    BY SMTT(60), <1>0, <1>1, <2>1, <2>2 DEF Typed
  <2> QED BY Zenon, <2>1, <2>3 DEF Agree
<1>3. CASE Miss(t, w, k, m)
  <2>1. PICK Q, r : Missed(t, k, m, Q, r)
    BY Zenon, <1>3, MissIs
  <2>2. Q \subseteq Objects /\ invalid' \in BOOLEAN
    BY Zenon, <1>1, <2>1 DEF Missed, Shrunk
  <2>3. flushing' \subseteq Objects
    BY Zenon, <1>1, <2>1, <2>2 DEF Missed, Typed
  <2>4. unflushed' \subseteq Keys
    <3>1. unflushed \subseteq Keys
      BY Zenon, <1>1 DEF Typed
    <3>2. \A j \in unflushed' : j \in unflushed \/ j = k
      BY Zenon, <2>1 DEF Missed
    <3> QED BY Zenon, <3>1, <3>2
  <2>5. CASE r.invalid
    <3>1. /\ c' = r.state /\ dirty' = dirty \ r.flushed
          /\ key' = key /\ expired' = expired /\ holds' = holds
      BY Zenon, <2>1, <2>5 DEF Missed
    <3>2. Coherent(key', c')
      BY Zenon, <2>1, <3>1 DEF Missed, Shrunk
    <3>3. Typed'
      BY Zenon, <1>0, <1>1, <2>2, <2>3, <2>4, <3>1 DEF Typed
    <3> QED BY Zenon, <3>2, <3>3 DEF Agree
  <2>6. CASE ~ r.invalid
    <3>1. /\ Coherent(key', c')
          /\ key' \in [Objects -> Keys \cup {None}] /\ dirty' \subseteq Objects
          /\ expired' \subseteq Objects
          /\ \E o : Placed(r.state, o, r.flushed, t, k, m)
      BY Zenon, <2>1, <2>6 DEF Missed
    <3>2. PICK o : Placed(r.state, o, r.flushed, t, k, m)
      BY Zenon, <3>1
    <3>3. o \in Objects /\ holds' = [holds EXCEPT ![t] = {<<o, k>>}]
      BY Zenon, <3>2 DEF Placed
    <3>4. holds' \in [Threads -> SUBSET (Objects \X Keys)]
      BY <1>1, <3>3 DEF Typed
    <3>5. Typed'
      BY Zenon, <1>0, <1>1, <2>2, <2>3, <2>4, <3>1, <3>4 DEF Typed
    <3> QED BY Zenon, <3>1, <3>5 DEF Agree
  <2> QED BY Zenon, <2>5, <2>6
<1> QED BY Zenon, <1>0, <1>2, <1>3

\* Every step keeps the structures in agreement.
LEMMA AgreeStep ==
  ASSUME Agree, [Next]_vars
  PROVE  Agree'
<1>0. /\ Typed /\ Coherent(key, c)
  BY Zenon DEF Agree
<1>1. ASSUME NEW t \in Threads, NEW w \in Owners, NEW k \in Keys, NEW m, getDataKey(t, w, k, m)
      PROVE  Agree'
  BY Zenon, <1>1, AgreeGet
<1>2. ASSUME c' = c, key' = key, Typed' PROVE Agree'
  BY Zenon, <1>0, <1>2 DEF Agree
<1>3. ASSUME NEW t \in Threads, NEW w \in Owners, flush(t, w) PROVE Agree'
  <2>1. c.owner_tables[w] = {o \in Range(c.cache) : w \in c.owners[o]}
    BY Zenon, <1>0 DEF Coherent
  <2>2. \A o \in c.owner_tables[w] : o \in Objects /\ key[o] \in Keys
    <3>1. \A o \in Range(c.cache) : key[o] \in Keys
      BY Zenon, <1>0 DEF Coherent, Keyed
    <3>2. c.owner_tables \in [Owners -> SUBSET Objects]
      BY <1>0 DEF Coherent, Records
    <3> QED BY Zenon, <2>1, <3>1, <3>2
  <2>3. {<<o, key[o]>> : o \in c.owner_tables[w]} \subseteq Objects \X Keys
    BY <2>2
  <2>4. c.owner_tables[w] \subseteq Objects
    BY Zenon, <2>2
  <2>5. c' = c /\ key' = key
    BY Zenon, <1>3 DEF flush
  <2>6. Typed'
    <3>1. /\ holds' = [holds EXCEPT ![t] = {<<o, key[o]>> : o \in c.owner_tables[w]}]
          /\ todo' = [todo EXCEPT ![t] = c.owner_tables[w]]
          /\ capacity' = capacity /\ key' = key /\ dirty' = dirty /\ expired' = expired
          /\ flushing' = flushing /\ unflushed' = unflushed /\ invalid' = invalid
      BY Zenon, <1>3 DEF flush
    <3>2. holds' \in [Threads -> SUBSET (Objects \X Keys)] /\ todo' \in [Threads -> SUBSET Objects]
      BY Zenon, <1>0, <2>3, <2>4, <3>1 DEF Typed
    <3> QED BY Zenon, <1>0, <3>1, <3>2 DEF Typed
  <2> QED BY Zenon, <1>2, <2>5, <2>6
<1>4. ASSUME NEW t \in Threads, Write(t) \/ Release(t) PROVE Agree'
  <2>1. c' = c /\ key' = key
    BY <1>4 DEF Write, Release
  <2>2. CASE Write(t)
    <3>1. PICK h \in holds[t] : dirty' = dirty \cup {h[1]} /\ unflushed' = unflushed \cup {h[2]}
      BY Zenon, <2>2 DEF Write
    <3>2. h[1] \in Objects /\ h[2] \in Keys
      BY <1>0 DEF Typed
    <3>3. Typed'
      BY <1>0, <2>2, <3>1, <3>2 DEF Typed, Write
    <3> QED BY Zenon, <1>2, <2>1, <3>3
  <2>3. CASE Release(t)
    <3>1. Typed'
      BY ZenonT(60), <1>0, <2>3 DEF Typed, Release
    <3> QED BY Zenon, <1>2, <2>1, <3>1
  <2> QED BY Zenon, <1>4, <2>2, <2>3
<1>5. ASSUME NEW t \in Threads, FlushBlock(t) PROVE Agree'
  <2>1. c' = c /\ key' = key
    BY Zenon, <1>5 DEF FlushBlock
  <2>2. /\ dirty' \subseteq dirty /\ unflushed' \subseteq unflushed
        /\ todo' \in [Threads -> SUBSET Objects]
        /\ holds' = holds \/ holds' = [holds EXCEPT ![t] = {}]
        /\ capacity' = capacity /\ expired' = expired /\ flushing' = flushing /\ invalid' = invalid
    <3> DEFINE o == Min(todo[t])
    <3>1. /\ \/ /\ todo' = [todo EXCEPT ![t] = todo[t] \ {o}]
                /\ dirty' = dirty \ {o}
                /\ unflushed' = IF o \in dirty THEN unflushed \ {key[o]} ELSE unflushed
                /\ holds' = IF todo[t] = {o} THEN [holds EXCEPT ![t] = {}] ELSE holds
             \/ /\ todo' = [todo EXCEPT ![t] = {}]
                /\ holds' = [holds EXCEPT ![t] = {}]
                /\ dirty' = dirty /\ unflushed' = unflushed
          /\ capacity' = capacity /\ expired' = expired /\ flushing' = flushing /\ invalid' = invalid
      BY Zenon, <1>5 DEF FlushBlock
    <3> HIDE DEF o
    <3>2. todo \in [Threads -> SUBSET Objects]
      BY Zenon, <1>0 DEF Typed
    <3>3. todo' \in [Threads -> SUBSET Objects]
      BY <3>1, <3>2
    <3> QED BY <3>1, <3>3
  <2>3. Typed'
    <3>1. holds' \in [Threads -> SUBSET (Objects \X Keys)]
      BY <1>0, <2>2 DEF Typed
    <3> QED BY Zenon, <1>0, <2>1, <2>2, <3>1 DEF Typed
  <2> QED BY Zenon, <1>2, <2>1, <2>3
<1>6. ASSUME NEW o \in Objects, doFlush(o) PROVE Agree'
  <2>1. c' = c /\ key' = key
    BY Zenon, <1>6 DEF doFlush
  <2>2. /\ dirty' \subseteq dirty /\ unflushed' \subseteq unflushed /\ flushing' \subseteq flushing
        /\ capacity' = capacity /\ expired' = expired /\ holds' = holds /\ todo' = todo
        /\ invalid' = invalid
    BY <1>6 DEF doFlush
  <2>3. Typed'
    BY Zenon, <1>0, <2>1, <2>2 DEF Typed
  <2> QED BY Zenon, <1>2, <2>1, <2>3
<1>7. ASSUME Age PROVE Agree'
  <2>1. c' = c /\ key' = key
    BY Zenon, <1>7 DEF Age
  <2>2. PICK i \in DOMAIN c.cache : expired' = expired \cup {c.cache[i]}
    BY Zenon, <1>7 DEF Age
  <2>3. c.cache[i] \in Objects
    BY SMTT(60), <1>0, <2>2 DEF Coherent, Records
  <2>4. Typed'
    BY ZenonT(60), <1>0, <1>7, <2>2, <2>3 DEF Typed, Age
  <2> QED BY Zenon, <1>2, <2>1, <2>4
<1>8. ASSUME NEW w \in Owners, drop(w) PROVE Agree'
  <2>1. /\ c' = Disown(w)
        /\ UNCHANGED <<capacity, key, dirty, expired, holds, todo, flushing, unflushed, invalid>>
    BY Zenon, <1>8 DEF drop
  <2>2. Coherent(key', c')
    BY Zenon, <1>0, <2>1, DisownKeeps
  <2>3. Typed'
    BY Zenon, <1>0, <2>1 DEF Typed
  <2> QED BY Zenon, <2>2, <2>3 DEF Agree
<1>9. ASSUME NEW w \in Owners, DropForce(w) PROVE Agree'
  <2>1. /\ \E items \in Orders(c.owner_tables[w]) :
             c' = RemoveEach(Disown(w), items, c.owner_tables[w])
        /\ unflushed' = unflushed \ {key[o] : o \in c.owner_tables[w]}
        /\ dirty' = dirty \ (c.owner_tables[w] \ Referenced)
        /\ expired' = expired \ c.owner_tables[w]
        /\ UNCHANGED <<capacity, key, holds, todo, flushing, invalid>>
    BY Zenon, <1>9 DEF DropForce
  <2>2. PICK items \in Orders(c.owner_tables[w]) :
          c' = RemoveEach(Disown(w), items, c.owner_tables[w])
    BY Zenon, <2>1
  <2>3. Coherent(key, c')
    BY Zenon, <1>0, <2>2, DropForceKeeps
  <2>4. Typed'
    BY Zenon, <1>0, <2>1 DEF Typed
  <2> QED BY Zenon, <2>1, <2>3, <2>4 DEF Agree
<1>10. ASSUME NEW cap \in Capacities, changeConfiguration(cap) PROVE Agree'
  <2>1. c' = c /\ key' = key
    BY Zenon, <1>10 DEF changeConfiguration
  <2>2. Typed'
    BY Zenon, <1>0, <1>10 DEF Typed, changeConfiguration
  <2> QED BY Zenon, <1>2, <2>1, <2>2
<1>11. CASE UNCHANGED vars
  BY Zenon, <1>0, <1>11 DEF vars, Agree, Typed
<1> QED BY Zenon, <1>1, <1>3, <1>4, <1>5, <1>6, <1>7, <1>8, <1>9, <1>10, <1>11 DEF Next

\* Structures that agree are consistent.
LEMMA AgreeIsConsistent == Agree => Consistent
<1> SUFFICES ASSUME Agree PROVE Consistent
  OBVIOUS
<1>0. Typed /\ Coherent(key, c)
  BY Zenon DEF Agree
<1>1. /\ c \in Records /\ c.cache \in Seq(Objects) /\ c.unused_items \in Seq(Objects)
      /\ Range(c.cache) \subseteq Objects
  <2>1. c \in Records /\ c.cache \in Seq(Objects) /\ c.unused_items \in Seq(Objects)
    BY <1>0 DEF Coherent, Records
  <2>2. Range(c.cache) \subseteq Objects
    BY <2>1, RangeIs
  <2> QED BY Zenon, <2>1, <2>2
<1>2. c.current_size \in Nat /\ c.unused_size \in Nat
  <2>1. /\ Keyed(key, c.cache) /\ c.current_size = Total(key, c.cache)
        /\ Keyed(key, c.unused_items) /\ c.unused_size = Total(key, c.unused_items)
    BY Zenon, <1>0 DEF Coherent
  <2>2. Total(key, c.cache) \in Nat /\ Total(key, c.unused_items) \in Nat
    BY Zenon, <1>1, <2>1, SizesAre
  <2> QED BY Zenon, <2>1, <2>2
<1>3. c \in Structures
  BY <1>1, <1>2 DEF Records, Structures
<1>4. TypeOK
  BY Zenon, <1>0, <1>3 DEF Typed, TypeOK
<1>6. \A k \in Keys : c.lookup[k] # None => c.lookup[k] \in Range(c.cache) /\ key[c.lookup[k]] = k
  BY Zenon, <1>0 DEF Coherent
<1>7. \A i \in DOMAIN c.cache : c.lookup[key[c.cache[i]]] = c.cache[i]
  <2>1. \A i \in DOMAIN c.cache : c.cache[i] \in Range(c.cache)
    BY Zenon, <1>1 DEF Range
  <2>2. \A o \in Range(c.cache) : c.lookup[key[o]] = o
    BY Zenon, <1>0 DEF Coherent
  <2> QED BY Zenon, <2>1, <2>2
<1>8. \A w \in Owners : c.owner_tables[w] = {o \in Range(c.cache) : w \in c.owners[o]}
  BY Zenon, <1>0 DEF Coherent
<1>9. /\ Range(c.cache) \cap Range(c.unused_items) = {}
      /\ c.current_size = Total(key, c.cache) /\ c.unused_size = Total(key, c.unused_items)
  BY Zenon, <1>0 DEF Coherent
<1> QED BY Zenon, <1>4, <1>6, <1>7, <1>8, <1>9 DEF Consistent

-----------------------------------------------------------------------------
(***************************************************************************)
(* Nothing is lost, when no owner is dropped with blocks that are in use.  *)
(***************************************************************************)

\* A block that is queued for a flush, or held by a thread, is in the list; a
\* thread's block is the one it has asked for.
Queued == \A o \in flushing : o \in Range(c.cache)
Held == \A t \in Threads : \A h \in holds[t] : h[1] \in Range(c.cache) /\ key[h[1]] = h[2]

Kept == Agree /\ Queued /\ Held /\ UnflushedIsCached

\* What is queued or held is referenced.
LEMMA AreReferenced ==
  /\ \A o \in flushing : o \in Referenced
  /\ \A t \in Threads : \A h \in holds[t] : h[1] \in Referenced
BY DEF Referenced

\* What is referenced, and what has not been flushed, survives try_shrink.
LEMMA Survivors ==
  ASSUME Kept, NEW Q, NEW r, Shrunk(c, Q, r)
  PROVE  /\ \A x \in Range(c.cache) : x \in Referenced \/ x \in Q => x \in Range(r.state.cache)
         /\ \A j \in unflushed : j \notin {key[o] : o \in r.flushed} =>
              /\ r.state.lookup[j] = c.lookup[j] /\ c.lookup[j] # None
              /\ c.lookup[j] \in Range(r.state.cache)
              /\ c.lookup[j] \in dirty /\ c.lookup[j] \notin r.flushed
<1>1. /\ Coherent(key, r.state)
      /\ \A o \in Range(c.cache) \ Range(r.state.cache) :
           o \notin Referenced \cup Q /\ (o \in dirty => o \in r.flushed)
  BY Zenon DEF Shrunk
<1>2. \A x \in Range(c.cache) : x \in Referenced \/ x \in Q => x \in Range(r.state.cache)
  BY Zenon, <1>1
<1>3. ASSUME NEW j \in unflushed, j \notin {key[o] : o \in r.flushed}
      PROVE  /\ r.state.lookup[j] = c.lookup[j] /\ c.lookup[j] # None
             /\ c.lookup[j] \in Range(r.state.cache)
             /\ c.lookup[j] \in dirty /\ c.lookup[j] \notin r.flushed
  <2> DEFINE x == c.lookup[j]
  <2>1. x # None /\ x \in dirty /\ j \in Keys
    BY Zenon DEF Kept, UnflushedIsCached, Agree, Typed
  <2>2. x \in Range(c.cache) /\ key[x] = j
    BY Zenon, <2>1 DEF Kept, Agree, Coherent
  <2> HIDE DEF x
  <2>3. x \notin r.flushed
    BY Zenon, <1>3, <2>2
  <2>4. x \in Range(r.state.cache)
    BY Zenon, <1>1, <2>1, <2>2, <2>3
  <2>5. r.state.lookup[key[x]] = x
    BY Zenon, <1>1, <2>4 DEF Coherent
  <2> QED BY Zenon, <2>1, <2>2, <2>3, <2>4, <2>5 DEF x
<1> QED BY Zenon, <1>2, <1>3

\* A miss loses nothing.
LEMMA KeptMiss ==
  ASSUME Kept, NEW t \in Threads, NEW k \in Keys, NEW m, NEW Q, NEW r, Missed(t, k, m, Q, r)
  PROVE  Queued' /\ Held' /\ UnflushedIsCached'
<1>0. /\ Q \subseteq Range(c.cache) /\ Shrunk(c, Q, r) /\ c.lookup[k] = None
      /\ flushing' = flushing \cup Q
      /\ unflushed' = (unflushed \ {key[o] : o \in r.flushed})
                       \cup (IF m = "CREATE" /\ ~ r.invalid THEN {k} ELSE {})
  BY Zenon DEF Missed
<1>1. /\ \A x \in Range(c.cache) : x \in Referenced \/ x \in Q => x \in Range(r.state.cache)
      /\ \A j \in unflushed : j \notin {key[o] : o \in r.flushed} =>
           /\ r.state.lookup[j] = c.lookup[j] /\ c.lookup[j] # None
           /\ c.lookup[j] \in Range(r.state.cache)
           /\ c.lookup[j] \in dirty /\ c.lookup[j] \notin r.flushed
  BY Zenon, <1>0, Survivors
<1>2. \A x \in flushing \cup Q : x \in Range(r.state.cache)
  <2>1. \A x \in flushing : x \in Range(c.cache) /\ x \in Referenced
    BY Zenon, AreReferenced DEF Kept, Queued
  <2> QED BY Zenon, <1>0, <1>1, <2>1
<1>3. \A u \in Threads : \A h \in holds[u] : h[1] \in Range(r.state.cache) /\ key[h[1]] = h[2]
  <2>1. \A u \in Threads : \A h \in holds[u] :
          h[1] \in Range(c.cache) /\ h[1] \in Referenced /\ key[h[1]] = h[2]
    BY Zenon, AreReferenced DEF Kept, Held
  <2> QED BY Zenon, <1>1, <2>1
<1>4. holds \in [Threads -> SUBSET (Objects \X Keys)] /\ unflushed \subseteq Keys
  BY Zenon DEF Kept, Agree, Typed
<1>5. CASE r.invalid
  <2>1. c' = r.state /\ dirty' = dirty \ r.flushed /\ key' = key /\ holds' = holds
    BY Zenon, <1>5 DEF Missed
  <2>2. Queued'
    BY Zenon, <1>0, <1>2, <2>1 DEF Queued
  <2>3. Held'
    BY Zenon, <1>3, <2>1 DEF Held
  <2>4. \A j \in unflushed' : j \in unflushed /\ j \notin {key[o] : o \in r.flushed}
    BY Zenon, <1>0, <1>5
  <2>5. UnflushedIsCached'
    <3>1. ASSUME NEW j \in unflushed' PROVE c'.lookup[j] # None /\ c'.lookup[j] \in dirty'
      <4>1. /\ r.state.lookup[j] = c.lookup[j] /\ c.lookup[j] # None
            /\ c.lookup[j] \in dirty /\ c.lookup[j] \notin r.flushed
        BY Zenon, <1>1, <2>4
      <4> QED BY Zenon, <2>1, <4>1
    <3> QED BY Zenon, <3>1 DEF UnflushedIsCached
  <2> QED BY Zenon, <2>2, <2>3, <2>5
<1>6. CASE ~ r.invalid
  <2>0. \E o : Placed(r.state, o, r.flushed, t, k, m)
    BY Zenon, <1>6 DEF Missed
  <2>1. PICK o : Placed(r.state, o, r.flushed, t, k, m)
    BY Zenon, <2>0
  <2> DEFINE l == Range(r.state.cache)
  <2>2. /\ o \in Objects /\ o \notin l /\ Range(c'.cache) = l \cup {o}
        /\ c'.lookup = [r.state.lookup EXCEPT ![k] = o]
        /\ key'[o] = k /\ \A x \in l : key'[x] = key[x]
        /\ holds' = [holds EXCEPT ![t] = {<<o, k>>}]
        /\ \A x \in l : x \in dirty /\ x \notin r.flushed => x \in dirty'
        /\ m = "CREATE" => o \in dirty'
    BY Zenon, <2>1 DEF Placed, Keeps
  <2> HIDE DEF l
  <2>3. Queued'
    <3>1. \A x \in flushing' : x \in l
      BY Zenon, <1>0, <1>2 DEF l
    <3> QED BY Zenon, <2>2, <3>1 DEF Queued
  <2>4. Held'
    <3>1. ASSUME NEW u \in Threads, NEW h \in holds'[u]
          PROVE  h[1] \in Range(c'.cache) /\ key'[h[1]] = h[2]
      <4>1. CASE u = t
        <5>1. holds'[u] = {<<o, k>>}
          BY Zenon, <1>4, <2>2, <4>1
        <5>2. h = <<o, k>>
          BY Zenon, <5>1
        <5>3. h[1] = o /\ h[2] = k
          BY <5>2
        <5> QED BY Zenon, <2>2, <5>3
      <4>2. CASE u # t
        <5>1. holds'[u] = holds[u]
          BY Zenon, <1>4, <2>2, <4>2
        <5>2. h \in holds[u]
          BY Zenon, <5>1
        <5>3. h[1] \in l /\ key[h[1]] = h[2]
          BY Zenon, <1>3, <5>2 DEF l
        <5> QED BY Zenon, <2>2, <5>3
      <4> QED BY Zenon, <4>1, <4>2
    <3> QED BY Zenon, <3>1 DEF Held
  <2>5. UnflushedIsCached'
    <3>0. r.state.lookup \in [Keys -> Objects \cup {None}]
      <4>1. r.state \in Records
        BY Zenon, <1>0 DEF Shrunk, Coherent
      <4> QED BY <4>1 DEF Records
    <3>1. ASSUME NEW j \in unflushed' PROVE c'.lookup[j] # None /\ c'.lookup[j] \in dirty'
      <4>1. \/ j \in unflushed /\ j \notin {key[x] : x \in r.flushed}
            \/ m = "CREATE" /\ j = k
        BY Zenon, <1>0
      <4>2. CASE j \in unflushed /\ j \notin {key[x] : x \in r.flushed}
        <5>1. /\ r.state.lookup[j] = c.lookup[j] /\ c.lookup[j] # None /\ c.lookup[j] \in l
              /\ c.lookup[j] \in dirty /\ c.lookup[j] \notin r.flushed
          BY Zenon, <1>1, <4>2 DEF l
        <5>2. j # k /\ j \in Keys
          BY Zenon, <1>0, <1>4, <4>2, <5>1
        <5>3. c'.lookup[j] = r.state.lookup[j]
          BY Zenon, <2>2, <3>0, <5>2
        <5>4. c.lookup[j] \in dirty'
          BY Zenon, <2>2, <5>1
        <5> QED BY Zenon, <5>1, <5>3, <5>4
      <4>3. CASE m = "CREATE" /\ j = k
        <5>1. c'.lookup[j] = o
          BY Zenon, <2>2, <3>0, <4>3
        <5>2. o # None
          BY Zenon, <2>2, CacheAssumption
        <5> QED BY Zenon, <2>2, <4>3, <5>1, <5>2
      <4> QED BY Zenon, <4>1, <4>2, <4>3
    <3> QED BY Zenon, <3>1 DEF UnflushedIsCached
  <2> QED BY Zenon, <2>3, <2>4, <2>5
<1> QED BY Zenon, <1>5, <1>6

\* A flush of object o, which ends the key's being unflushed if o was dirty.
LEMMA KeptFlush ==
  ASSUME Kept, NEW o, c' = c, key' = key, dirty' = dirty \ {o},
         unflushed' = IF o \in dirty THEN unflushed \ {key[o]} ELSE unflushed
  PROVE  UnflushedIsCached'
<1>1. ASSUME NEW k \in unflushed' PROVE c'.lookup[k] # None /\ c'.lookup[k] \in dirty'
  <2>1. k \in unflushed /\ (o \in dirty => k # key[o])
    BY Zenon
  <2>2. c.lookup[k] # None /\ c.lookup[k] \in dirty /\ k \in Keys
    BY Zenon, <2>1 DEF Kept, UnflushedIsCached, Agree, Typed
  <2>3. key[c.lookup[k]] = k
    BY Zenon, <2>2 DEF Kept, Agree, Coherent
  <2>4. c.lookup[k] # o
    BY Zenon, <2>1, <2>2, <2>3
  <2> QED BY Zenon, <2>2, <2>4
<1> QED BY Zenon, <1>1 DEF UnflushedIsCached

\* Every step loses nothing.
LEMMA KeptStep ==
  ASSUME "used" \notin ForcedDrops, Kept, [Next]_vars
  PROVE  Kept'
<1>0. /\ Agree /\ Queued /\ Held /\ UnflushedIsCached /\ Typed /\ Coherent(key, c)
      /\ holds \in [Threads -> SUBSET (Objects \X Keys)]
  BY Zenon DEF Kept, Agree, Typed
<1>1. Agree'
  BY Zenon, <1>0, AgreeStep
<1> DEFINE Safe == Queued' /\ Held' /\ UnflushedIsCached'
<1>2. ASSUME NEW t \in Threads, NEW w \in Owners, NEW k \in Keys, NEW m, getDataKey(t, w, k, m)
      PROVE  Safe
  <2>0. Hit(t, w, k) \/ Miss(t, w, k, m)
    BY Zenon, <1>2 DEF getDataKey
  <2>1. CASE Hit(t, w, k)
    <3> DEFINE o == c.lookup[k]
    <3>1. /\ Range(c'.cache) = Range(c.cache) /\ o \in Range(c.cache) /\ key[o] = k
          /\ c'.lookup = [c.lookup EXCEPT ![k] = o]
      BY Zenon, <1>0, <2>1, HitIs
    <3>2. /\ holds' = [holds EXCEPT ![t] = {<<o, k>>}] /\ key' = key /\ dirty' = dirty
          /\ flushing' = flushing /\ unflushed' = unflushed
      BY Zenon, <2>1 DEF Hit
    <3>3. c.lookup \in [Keys -> Objects \cup {None}] /\ unflushed \subseteq Keys
      BY <1>0 DEF Coherent, Records, Typed
    <3>4. \A j \in Keys : c'.lookup[j] = c.lookup[j]
      BY Zenon, <3>1, <3>3
    <3>5. UnflushedIsCached'
      BY Zenon, <1>0, <3>2, <3>3, <3>4 DEF UnflushedIsCached
    <3>6. Queued'
      BY Zenon, <1>0, <3>1, <3>2 DEF Queued
    <3> HIDE DEF o
    <3>7. ASSUME NEW u \in Threads, NEW h \in holds'[u]
          PROVE  h[1] \in Range(c'.cache) /\ key'[h[1]] = h[2]
      <4>1. CASE u = t
        <5>1. holds'[u] = {<<o, k>>}
          BY Zenon, <1>0, <3>2, <4>1
        <5>2. h = <<o, k>>
          BY Zenon, <5>1
        <5>3. h[1] = o /\ h[2] = k
          BY <5>2
        <5> QED BY Zenon, <3>1, <3>2, <5>3
      <4>2. CASE u # t
        <5>1. holds'[u] = holds[u]
          BY Zenon, <1>0, <3>2, <4>2
        <5> QED BY Zenon, <1>0, <3>1, <3>2, <5>1 DEF Held
      <4> QED BY Zenon, <4>1, <4>2
    <3>8. Held'
      BY Zenon, <3>7 DEF Held
    <3> QED BY Zenon, <3>5, <3>6, <3>8
  <2>2. CASE Miss(t, w, k, m)
    <3>1. PICK Q, r : Missed(t, k, m, Q, r)
      BY Zenon, <1>0, <2>2, MissIs
    <3> QED BY Zenon, <3>1, KeptMiss
  <2> QED BY Zenon, <2>0, <2>1, <2>2
<1>3. ASSUME c' = c, key' = key, flushing' \subseteq flushing,
             \A u \in Threads : holds'[u] \subseteq holds[u]
      PROVE  Queued' /\ Held'
  BY Zenon, <1>0, <1>3 DEF Queued, Held
<1>4. ASSUME NEW t \in Threads, NEW w \in Owners, flush(t, w) PROVE Safe
  <2> DEFINE T == c.owner_tables[w]
  <2>1. /\ holds' = [holds EXCEPT ![t] = {<<o, key[o]>> : o \in T}]
        /\ c' = c /\ key' = key /\ dirty' = dirty /\ flushing' = flushing /\ unflushed' = unflushed
    BY Zenon, <1>4 DEF flush
  <2>2. \A o \in T : o \in Range(c.cache)
    <3>1. T = {o \in Range(c.cache) : w \in c.owners[o]}
      BY Zenon, <1>0 DEF Coherent
    <3> QED BY Zenon, <3>1
  <2> HIDE DEF T
  <2>3. ASSUME NEW u \in Threads, NEW h \in holds'[u]
        PROVE  h[1] \in Range(c'.cache) /\ key'[h[1]] = h[2]
    <3>1. CASE u = t
      <4>1. holds'[u] = {<<o, key[o]>> : o \in T}
        BY Zenon, <1>0, <2>1, <3>1
      <4>2. PICK o \in T : h = <<o, key[o]>>
        BY Zenon, <4>1
      <4>3. h[1] = o /\ h[2] = key[o]
        BY <4>2
      <4> QED BY Zenon, <2>1, <2>2, <4>3
    <3>2. CASE u # t
      <4>1. holds'[u] = holds[u]
        BY Zenon, <1>0, <2>1, <3>2
      <4> QED BY Zenon, <1>0, <2>1, <4>1 DEF Held
    <3> QED BY Zenon, <3>1, <3>2
  <2>4. Held'
    BY Zenon, <2>3 DEF Held
  <2>5. Queued' /\ UnflushedIsCached'
    BY Zenon, <1>0, <2>1 DEF Queued, UnflushedIsCached
  <2> QED BY Zenon, <2>4, <2>5
<1>5. ASSUME NEW t \in Threads, Write(t) PROVE Safe
  <2>1. PICK h \in holds[t] : dirty' = dirty \cup {h[1]} /\ unflushed' = unflushed \cup {h[2]}
    BY Zenon, <1>5 DEF Write
  <2>2. c' = c /\ key' = key /\ flushing' = flushing /\ holds' = holds
    BY Zenon, <1>5 DEF Write
  <2>3. Queued' /\ Held'
    BY Zenon, <1>0, <2>2 DEF Queued, Held
  <2>4. c.lookup[h[2]] = h[1]
    <3>1. h[1] \in Range(c.cache) /\ key[h[1]] = h[2]
      BY Zenon, <1>0 DEF Held
    <3>2. c.lookup[key[h[1]]] = h[1]
      BY Zenon, <1>0, <3>1 DEF Coherent
    <3> QED BY Zenon, <3>1, <3>2
  <2>5. h[1] # None
    <3>1. h[1] \in Objects
      BY <1>0
    <3> QED BY Zenon, <3>1, CacheAssumption
  <2>6. UnflushedIsCached'
    BY Zenon, <1>0, <2>1, <2>2, <2>4, <2>5 DEF UnflushedIsCached
  <2> QED BY Zenon, <2>3, <2>6
<1>6. ASSUME NEW t \in Threads, Release(t) PROVE Safe
  <2>1. /\ holds' = [holds EXCEPT ![t] = {}] /\ c' = c /\ key' = key /\ dirty' = dirty
        /\ flushing' = flushing /\ unflushed' = unflushed
    BY Zenon, <1>6 DEF Release
  <2>2. \A u \in Threads : holds'[u] \subseteq holds[u]
    BY Zenon, <1>0, <2>1
  <2>3. UnflushedIsCached'
    BY Zenon, <1>0, <2>1 DEF UnflushedIsCached
  <2> QED BY Zenon, <1>3, <2>1, <2>2, <2>3
<1>7. ASSUME NEW t \in Threads, FlushBlock(t) PROVE Safe
  <2> DEFINE o == Min(todo[t])
  <2>1. /\ c' = c /\ key' = key /\ flushing' = flushing
        /\ holds' = holds \/ holds' = [holds EXCEPT ![t] = {}]
        /\ \/ /\ dirty' = dirty \ {o}
              /\ unflushed' = IF o \in dirty THEN unflushed \ {key[o]} ELSE unflushed
           \/ dirty' = dirty /\ unflushed' = unflushed
    BY Zenon, <1>7 DEF FlushBlock
  <2> HIDE DEF o
  <2>2. \A u \in Threads : holds'[u] \subseteq holds[u]
    BY Zenon, <1>0, <2>1
  <2>3. UnflushedIsCached'
    <3>1. CASE /\ dirty' = dirty \ {o}
               /\ unflushed' = IF o \in dirty THEN unflushed \ {key[o]} ELSE unflushed
      BY Zenon, <2>1, <3>1, KeptFlush
    <3>2. CASE dirty' = dirty /\ unflushed' = unflushed
      BY Zenon, <1>0, <2>1, <3>2 DEF UnflushedIsCached
    <3> QED BY Zenon, <2>1, <3>1, <3>2
  <2> QED BY Zenon, <1>3, <2>1, <2>2, <2>3
<1>8. ASSUME NEW o \in Objects, doFlush(o) PROVE Safe
  <2>1. /\ c' = c /\ key' = key /\ flushing' = flushing \ {o} /\ holds' = holds
        /\ \/ /\ dirty' = dirty \ {o}
              /\ unflushed' = IF o \in dirty THEN unflushed \ {key[o]} ELSE unflushed
           \/ dirty' = dirty /\ unflushed' = unflushed
    BY Zenon, <1>8 DEF doFlush
  <2>2. UnflushedIsCached'
    <3>1. CASE /\ dirty' = dirty \ {o}
               /\ unflushed' = IF o \in dirty THEN unflushed \ {key[o]} ELSE unflushed
      BY Zenon, <2>1, <3>1, KeptFlush
    <3>2. CASE dirty' = dirty /\ unflushed' = unflushed
      BY Zenon, <1>0, <2>1, <3>2 DEF UnflushedIsCached
    <3> QED BY Zenon, <2>1, <3>1, <3>2
  <2>3. flushing' \subseteq flushing /\ \A u \in Threads : holds'[u] \subseteq holds[u]
    BY Zenon, <2>1
  <2> QED BY Zenon, <1>3, <2>1, <2>2, <2>3
<1>9. ASSUME NEW w \in Owners, drop(w) PROVE Safe
  <2>1. /\ c' = Disown(w) /\ key' = key /\ dirty' = dirty /\ flushing' = flushing
        /\ holds' = holds /\ unflushed' = unflushed
    BY Zenon, <1>9 DEF drop
  <2>2. c'.cache = c.cache /\ c'.lookup = c.lookup
    BY Zenon, <1>0, <2>1, DisownKeeps
  <2> QED BY Zenon, <1>0, <2>1, <2>2 DEF Queued, Held, UnflushedIsCached
<1>10. ASSUME NEW w \in Owners, DropForce(w) PROVE Safe
  <2> DEFINE T == c.owner_tables[w]
  <2>1. /\ (IF T \cap Referenced = {} THEN "unused" ELSE "used") \in ForcedDrops
        /\ \E items \in Orders(T) : c' = RemoveEach(Disown(w), items, T)
        /\ unflushed' = unflushed \ {key[o] : o \in T}
        /\ dirty' = dirty \ (T \ Referenced)
        /\ key' = key /\ holds' = holds /\ flushing' = flushing
    BY Zenon, <1>10 DEF DropForce
  <2>2. T \cap Referenced = {}
    BY Zenon, <2>1
  <2>3. /\ Coherent(key, c') /\ Range(c.cache) \ Range(c'.cache) \subseteq T
    <3>1. PICK items \in Orders(T) : c' = RemoveEach(Disown(w), items, T)
      BY Zenon, <2>1
    <3> QED BY Zenon, <1>0, <3>1, DropForceKeeps
  <2> HIDE DEF T
  <2>4. \A o \in Range(c.cache) : o \in Referenced => o \in Range(c'.cache)
    BY Zenon, <2>2, <2>3
  <2>5. Queued'
    BY Zenon, <1>0, <2>1, <2>4, AreReferenced DEF Queued
  <2>6. Held'
    BY Zenon, <1>0, <2>1, <2>4, AreReferenced DEF Held
  <2>7. ASSUME NEW k \in unflushed' PROVE c'.lookup[k] # None /\ c'.lookup[k] \in dirty'
    <3> DEFINE x == c.lookup[k]
    <3>1. k \in unflushed /\ k \notin {key[o] : o \in T} /\ k \in Keys
      BY Zenon, <1>0, <2>1 DEF Typed
    <3>2. x # None /\ x \in dirty
      BY Zenon, <1>0, <3>1 DEF UnflushedIsCached
    <3>3. x \in Range(c.cache) /\ key[x] = k
      BY Zenon, <1>0, <3>1, <3>2 DEF Coherent
    <3> HIDE DEF x
    <3>4. x \notin T
      BY Zenon, <3>1, <3>3
    <3>5. x \in Range(c'.cache)
      BY Zenon, <2>3, <3>3, <3>4
    <3>6. c'.lookup[key[x]] = x
      BY Zenon, <2>3, <3>5 DEF Coherent
    <3> QED BY Zenon, <2>1, <3>2, <3>3, <3>4, <3>6
  <2>8. UnflushedIsCached'
    BY Zenon, <2>7 DEF UnflushedIsCached
  <2> QED BY Zenon, <2>5, <2>6, <2>8
<1>11. ASSUME Age \/ (\E cap \in Capacities : changeConfiguration(cap)) \/ UNCHANGED vars PROVE Safe
  <2>1. /\ c' = c /\ key' = key /\ dirty' = dirty /\ flushing' = flushing
        /\ holds' = holds /\ unflushed' = unflushed
    BY Zenon, <1>11 DEF Age, changeConfiguration, vars
  <2> QED BY Zenon, <1>0, <2>1 DEF Queued, Held, UnflushedIsCached
<1> HIDE DEF Safe
<1>12. Safe
  BY Zenon, <1>2, <1>4, <1>5, <1>6, <1>7, <1>8, <1>9, <1>10, <1>11 DEF Next
<1> QED BY Zenon, <1>1, <1>12 DEF Kept, Safe

-----------------------------------------------------------------------------
\* The list, the pool, the map of keys, the owner tables and the two sizes of the
\* cache agree in every state, whatever owners are dropped and whatever is in use.
THEOREM ConsistentHolds == Spec => []Consistent
<1>1. Init => Agree
  BY AgreeInit
<1>2. Agree /\ [Next]_vars => Agree'
  BY AgreeStep
<1>3. Agree => Consistent
  BY AgreeIsConsistent
<1> QED BY <1>1, <1>2, <1>3, PTL DEF Spec

\* Nothing is lost, at the start and by any step.
LEMMA KeptHolds ==
  ASSUME "used" \notin ForcedDrops
  PROVE  Spec => []Kept
<1>1. Init => Kept
  <2> SUFFICES ASSUME Init PROVE Kept
    OBVIOUS
  <2>1. flushing = {} /\ unflushed = {} /\ \A t \in Threads : holds[t] = {}
    BY Zenon DEF Init
  <2> QED BY Zenon, <2>1, AgreeInit DEF Kept, Queued, Held, UnflushedIsCached
<1>2. Kept /\ [Next]_vars => Kept'
  BY KeptStep
<1> QED BY <1>1, <1>2, PTL DEF Spec

\* As long as a thread holds a block, getDataKey gives the object to no other key,
\* if no owner is dropped with blocks that are in use.
THEOREM HeldIsMineHolds ==
  ASSUME "used" \notin ForcedDrops
  PROVE  Spec => []HeldIsMine
<1>1. Kept => HeldIsMine
  BY Zenon DEF Kept, Held, HeldIsMine
<1> QED BY <1>1, KeptHolds, PTL

\* A key with writes, or a creation, that have not been flushed has a dirty block
\* in the cache: neither try_shrink nor drop loses them.
THEOREM UnflushedIsCachedHolds ==
  ASSUME "used" \notin ForcedDrops
  PROVE  Spec => []UnflushedIsCached
<1>1. Kept => UnflushedIsCached
  BY Zenon DEF Kept
<1> QED BY <1>1, KeptHolds, PTL
=============================================================================
