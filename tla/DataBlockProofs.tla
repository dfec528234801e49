--------------------------- MODULE DataBlockProofs --------------------------
(***************************************************************************)
(* Proofs about DataBlock, for every capacity, and any number of versions  *)
(* of the key and of updates between flushes.                              *)
(***************************************************************************)
EXTENDS DataBlock, Loops, TLAPS

-----------------------------------------------------------------------------
(***************************************************************************)
(* Versions identify values.                                               *)
(***************************************************************************)

\* Versions are not used twice, and the one the block knows identifies what it has
\* obtained: version numbers that agree mean that values do.
Identified ==
  /\ versions \in Nat /\ stored.version \in 0..versions /\ version \in 0..versions
  /\ stored.version = 0 => stored.value = <<>>
  /\ version = 0 => base = <<>>
  /\ version > 0 /\ version = stored.version => base = stored.value

\* A step that leaves the key alone and gets nothing from it.
LEMMA SameKey ==
  ASSUME Identified, UNCHANGED <<stored, versions, version, base>>
  PROVE  Identified'
BY DEF Identified

\* A step that obtains the value of the key.
LEMMA ObtainsKey ==
  ASSUME Identified, NEW throws, getRemoteValue(throws), UNCHANGED <<stored, versions>>
  PROVE  Identified' /\ base' = stored'.value
<1>1. base' = stored.value /\ version' = stored.version
  BY DEF getRemoteValue, Found, Gone
<1> QED BY <1>1 DEF Identified

\* A put by anybody uses a version that no block knows.
LEMMA StoresKey ==
  ASSUME Identified, NEW v, NEW by, Store(v, by), UNCHANGED <<version, base>>
  PROVE  Identified'
BY DEF Identified, Store

\* Every step keeps versions and values together.
LEMMA IdentifiedStep ==
  ASSUME Identified, [Next]_vars
  PROVE  Identified'
<1>1. CASE read
  <2>1. UNCHANGED <<stored, versions>>
    BY <1>1 DEF read
  <2>2. CASE Refresh
    BY <2>1, <2>2, SameKey DEF Refresh
  <2>3. ASSUME NEW throws, getRemoteValue(throws) PROVE Identified'
    BY <2>1, <2>3, ObtainsKey
  <2> QED BY <1>1, <2>2, <2>3 DEF read
<1>2. CASE flush \/ Expire \/ UNCHANGED vars
  BY <1>2, SameKey DEF flush, Expire, vars, blockVars
<1>3. CASE FlushGet
  BY <1>3, ObtainsKey DEF FlushGet
<1>4. CASE FlushStored
  BY <1>4 DEF FlushStored, Store, Identified
<1>5. CASE FlushMismatch
  BY <1>5, SameKey DEF FlushMismatch
<1>6. CASE FlushFailed
  BY <1>6, SameKey, StoresKey DEF FlushFailed
<1>7. ASSUME NEW offset, NEW length, NEW b, write(offset, length, b) PROVE Identified'
  BY <1>7, SameKey DEF write
<1>8. ASSUME NEW offset, truncate(offset) PROVE Identified'
  BY <1>8, SameKey DEF truncate
<1>9. ASSUME NEW m, NEW s \in Existing \cup {Absent}, reassign(s, m) PROVE Identified'
  <2>1. s.version \in Nat /\ (s.version = 0 => s.value = <<>>)
    BY DEF Existing, Absent
  <2> QED BY <1>9, <2>1 DEF reassign, Identified
<1>10. CASE OtherPut
  BY <1>10, StoresKey DEF OtherPut, blockVars
<1>11. CASE OtherRemove
  BY <1>11 DEF OtherRemove, Identified, Absent, blockVars
<1> QED BY <1>1, <1>2, <1>3, <1>4, <1>5, <1>6, <1>7, <1>8, <1>9, <1>10, <1>11 DEF Next

\* It holds at first.
LEMMA IdentifiedInit ==
  ASSUME Init
  PROVE  Identified
<1>1. PICK s \in Existing \cup {Absent} : stored = s /\ versions = s.version
  BY DEF Init, Open
<1>2. s.version \in Nat /\ (s.version = 0 => s.value = <<>>)
  BY DEF Existing, Absent
<1> QED BY <1>1, <1>2 DEF Init, Identified

\* Whenever read or flush bring the block up to date, it is so with what is stored
\* at that time: a version that validateVersion confirms is never the version of
\* another value, whatever other clients put and remove and however flushes fail.
THEOREM ReadsCurrentHolds == Spec => ReadsCurrent
<1>1. Init => Identified
  BY IdentifiedInit
<1>2. Identified /\ [Next]_vars => Identified'
  BY IdentifiedStep
<1>3. Identified /\ [Next]_vars => [~ fresh /\ fresh' => base' = stored'.value]_vars
  <2> SUFFICES ASSUME Identified, [Next]_vars, ~ fresh, fresh' PROVE base' = stored'.value
    OBVIOUS
  <2>1. CASE read
    <3>1. UNCHANGED stored /\ UNCHANGED versions
      BY <2>1 DEF read
    <3>2. CASE Refresh /\ Valid
      <4>1. base' = base /\ version = stored.version
        BY <3>2 DEF Refresh, Valid
      <4> QED BY <3>1, <4>1 DEF Identified
    <3>3. ASSUME NEW throws, getRemoteValue(throws) PROVE base' = stored'.value
      BY <3>1, <3>3, ObtainsKey
    <3> QED BY <2>1, <3>2, <3>3 DEF read
  <2>2. CASE FlushGet
    BY <2>2, ObtainsKey DEF FlushGet
  <2>3. CASE FlushStored
    BY <2>3 DEF FlushStored, Store
  <2>4. ~ (flush \/ FlushMismatch \/ FlushFailed \/ Expire \/ OtherPut \/ OtherRemove \/ UNCHANGED vars)
    BY ZenonT(60) DEF flush, FlushMismatch, FlushFailed, Expire, OtherPut, OtherRemove, vars, blockVars
  <2>5. /\ \A offset, length, b : ~ write(offset, length, b)
        /\ \A offset : ~ truncate(offset)
        /\ \A s, m : ~ reassign(s, m)
    BY ZenonT(60) DEF write, truncate, reassign
  <2> QED BY <2>1, <2>2, <2>3, <2>4, <2>5 DEF Next
<1> QED BY <1>1, <1>2, <1>3, PTL DEF Spec, ReadsCurrent

-----------------------------------------------------------------------------
(***************************************************************************)
(* Strings.                                                                *)
(***************************************************************************)

\* Strings of any length; those that fit into a block are Strings, below.
Text == Seq(Byte)

\* The greater and the smaller of two numbers.
LEMMA MinMax ==
  ASSUME NEW x \in Int, NEW y \in Int
  PROVE  /\ Max({x, y}) = IF x >= y THEN x ELSE y
         /\ Min({x, y}) = IF x <= y THEN x ELSE y
<1>1. /\ Max({x, y}) \in {x, y} /\ Max({x, y}) >= x /\ Max({x, y}) >= y
  <2>1. \E m \in {x, y} : \A z \in {x, y} : m >= z
    OBVIOUS
  <2> QED BY <2>1 DEF Max
<1>2. /\ Min({x, y}) \in {x, y} /\ Min({x, y}) <= x /\ Min({x, y}) <= y
  <2>1. \E m \in {x, y} : \A z \in {x, y} : m <= z
    OBVIOUS
  <2> QED BY <2>1 DEF Min
<1> QED BY <1>1, <1>2

\* Resizing a string cuts it off or adds NULs.
LEMMA ResizeIs ==
  ASSUME NEW s \in Text, NEW n \in Nat
  PROVE  /\ Resize(s, n) \in Text /\ Len(Resize(s, n)) = n
         /\ \A i \in 1..n : Resize(s, n)[i] = IF i <= Len(s) THEN s[i] ELSE "NUL"
<1>1. \A i \in 1..n : (IF i <= Len(s) THEN s[i] ELSE "NUL") \in Byte
  BY DEF Text, Byte
<1> QED BY <1>1 DEF Resize, Text

\* A string of one byte, repeated.
LEMMA FillIs ==
  ASSUME NEW b \in Byte, NEW n \in Nat
  PROVE  /\ Fill(b, n) \in Text /\ Len(Fill(b, n)) = n
         /\ \A i \in 1..n : Fill(b, n)[i] = b
BY DEF Fill, Text

\* A part of a string ends where the string does.
LEMMA PartIs ==
  ASSUME NEW s \in Text, NEW offset \in Nat, NEW length \in Nat,
         NEW end \in Nat, offset + length <= Len(s) => end = offset + length,
         offset + length > Len(s) => end = Len(s)
  PROVE  /\ Part(s, offset, length) \in Text
         /\ Len(Part(s, offset, length)) = IF offset <= end THEN end - offset ELSE 0
         /\ \A i \in 1..Len(Part(s, offset, length)) : Part(s, offset, length)[i] = s[offset + i]
<1>1. Min({offset + length, Len(s)}) = end
  <2>1. offset + length \in Int /\ Len(s) \in Int
    BY DEF Text
  <2>2. Min({offset + length, Len(s)}) = IF offset + length <= Len(s) THEN offset + length ELSE Len(s)
    BY Zenon, <2>1, MinMax
  <2> QED BY <2>1, <2>2
<1>2. Part(s, offset, length) = SubSeq(s, offset + 1, end)
  BY ZenonT(60), <1>1 DEF Part
<1>3. \A i \in (offset + 1)..end : s[i] \in Byte
  BY DEF Text
<1> QED BY <1>2, <1>3 DEF Text

\* The concatenation of two strings, byte by byte.
LEMMA ConcatIs ==
  ASSUME NEW a \in Text, NEW b \in Text
  PROVE  /\ a \o b \in Text /\ Len(a \o b) = Len(a) + Len(b)
         /\ \A i \in 1..(Len(a) + Len(b)) : (a \o b)[i] = IF i <= Len(a) THEN a[i] ELSE b[i - Len(a)]
<1> DEFINE S == Byte
<1> HIDE DEF S
<1>1. a \in Seq(S) /\ b \in Seq(S)
  BY DEF Text, S
<1>2. /\ a \o b \in Seq(S) /\ Len(a \o b) = Len(a) + Len(b)
      /\ \A i \in 1..(Len(a) + Len(b)) : (a \o b)[i] = IF i <= Len(a) THEN a[i] ELSE b[i - Len(a)]
  BY <1>1
<1> QED BY <1>2 DEF Text, S

\* What std::string::replace makes of s: t instead of length bytes from offset on.
Replaced(r, s, offset, length, t) ==
  /\ r \in Text
  /\ Len(r) = offset + Len(t) + IF offset + length <= Len(s) THEN Len(s) - (offset + length) ELSE 0
  /\ \A i \in 1..Len(r) : /\ i <= offset => r[i] = s[i]
                          /\ i > offset /\ i <= offset + Len(t) => r[i] = t[i - offset]
                          /\ i > offset + Len(t) => r[i] = s[(i - Len(t)) + length]

\* What replace makes of a string.
LEMMA ReplaceIs ==
  ASSUME NEW s \in Text, NEW t \in Text, NEW offset \in Nat, NEW length \in Nat, offset <= Len(s)
  PROVE  Replaced(Replace(s, offset, length, t), s, offset, length, t)
<1> DEFINE p == Part(s, 0, offset)
           q == Part(s, offset + length, Len(s))
           r == (p \o t) \o q
<1>0. Len(s) \in Nat /\ Len(t) \in Nat /\ offset + length \in Nat
  BY DEF Text
<1>1. p \in Text /\ Len(p) = offset /\ \A i \in 1..Len(p) : p[i] = s[0 + i]
  <2>1. 0 + offset <= Len(s) /\ 0 \in Nat /\ offset - 0 = offset /\ 0 <= offset /\ 0 + offset = offset
    BY <1>0
  <2> QED BY <2>1, PartIs
<1>2. /\ q \in Text
      /\ Len(q) = IF offset + length <= Len(s) THEN Len(s) - (offset + length) ELSE 0
      /\ \A i \in 1..Len(q) : q[i] = s[(offset + length) + i]
  BY <1>0, PartIs
<1>3. Replace(s, offset, length, t) = r
  BY DEF Replace
<1> HIDE DEF p, q
<1>4. /\ p \o t \in Text /\ Len(p \o t) = offset + Len(t)
      /\ \A i \in 1..(offset + Len(t)) : (p \o t)[i] = IF i <= offset THEN p[i] ELSE t[i - offset]
  BY Zenon, <1>1, ConcatIs
<1>5. /\ r \in Text /\ Len(r) = (offset + Len(t)) + Len(q)
      /\ \A i \in 1..Len(r) : r[i] = IF i <= offset + Len(t) THEN (p \o t)[i] ELSE q[i - (offset + Len(t))]
  <2> DEFINE l == p \o t
  <2>1. l \in Text /\ Len(l) = offset + Len(t)
    BY Zenon, <1>4
  <2> HIDE DEF l
  <2>2. /\ l \o q \in Text /\ Len(l \o q) = Len(l) + Len(q)
        /\ \A i \in 1..(Len(l) + Len(q)) : (l \o q)[i] = IF i <= Len(l) THEN l[i] ELSE q[i - Len(l)]
    BY Zenon, <1>2, <2>1, ConcatIs
  <2> QED BY Zenon, <2>1, <2>2 DEF l
<1> HIDE DEF r
<1>6. Len(q) \in Nat
  BY <1>2 DEF Text
<1>7. ASSUME NEW i \in 1..Len(r)
      PROVE  /\ i <= offset => r[i] = s[i]
             /\ i > offset /\ i <= offset + Len(t) => r[i] = t[i - offset]
             /\ i > offset + Len(t) => r[i] = s[(i - Len(t)) + length]
  <2>1. CASE i <= offset
    <3>1. i \in 1..(offset + Len(t)) /\ i <= offset + Len(t) /\ 0 + i = i /\ i \in 1..Len(p)
      BY <1>0, <1>1, <2>1
    <3>2. r[i] = s[i]
      BY <1>1, <1>4, <1>5, <2>1, <3>1
    <3> QED BY <1>0, <2>1, <3>2
  <2>2. CASE i > offset /\ i <= offset + Len(t)
    <3>1. i \in 1..(offset + Len(t))
      BY <1>0, <2>2
    <3>2. r[i] = t[i - offset]
      BY <1>0, <1>4, <1>5, <2>2, <3>1
    <3> QED BY <1>0, <2>2, <3>2
  <2>3. CASE i > offset + Len(t)
    <3>1. i - (offset + Len(t)) \in 1..Len(q) /\ (offset + length) + (i - (offset + Len(t))) = (i - Len(t)) + length
      BY <1>0, <1>5, <1>6, <2>3
    <3>2. r[i] = q[i - (offset + Len(t))]
      BY <1>0, <1>5, <2>3
    <3>3. r[i] = s[(i - Len(t)) + length]
      BY <1>2, <3>1, <3>2
    <3> QED BY <1>0, <2>3, <3>3
  <2> QED BY <1>0, <1>5, <2>1, <2>2, <2>3
<1>8. Len(r) = offset + Len(t) + IF offset + length <= Len(s) THEN Len(s) - (offset + length) ELSE 0
  BY <1>2, <1>5
<1> QED BY Zenon, <1>3, <1>5, <1>7, <1>8 DEF Replaced

-----------------------------------------------------------------------------
(***************************************************************************)
(* Updates, and the values they are applied to.                            *)
(***************************************************************************)

\* The updates a block may be given.
Patches == {p \in [truncate : BOOLEAN, offset : Nat, data : Text] :
              p.offset + Len(p.data) <= Capacity /\ (p.truncate <=> Len(p.data) = 0)}

\* Byte i is written by update p, and is beyond the end of truncation p.
Covers(p, i) == ~ p.truncate /\ p.offset < i /\ i <= p.offset + Len(p.data)
Cuts(p, i) == p.truncate /\ i > p.offset

\* The value v with update p applied, byte by byte.
IsPatched(r, v, p) ==
  /\ r \in Text
  /\ p.truncate => Len(r) = p.offset
  /\ ~ p.truncate /\ Len(v) <= p.offset + Len(p.data) => Len(r) = p.offset + Len(p.data)
  /\ ~ p.truncate /\ Len(v) >= p.offset + Len(p.data) => Len(r) = Len(v)
  /\ \A i \in 1..Len(r) : /\ Covers(p, i) => r[i] = p.data[i - p.offset]
                          /\ ~ Covers(p, i) /\ i <= Len(v) => r[i] = v[i]
                          /\ ~ Covers(p, i) /\ i > Len(v) => r[i] = "NUL"

\* What an update makes of a value.
LEMMA PatchIs ==
  ASSUME NEW v \in Text, NEW p \in Patches
  PROVE  IsPatched(Patch(v, p), v, p)
<1> DEFINE d == p.data
           o == p.offset
           l == Len(d)
           m == IF Len(v) >= o + l THEN Len(v) ELSE o + l
           w == Resize(v, m)
           r == Patch(v, p)
<1>1. /\ o \in Nat /\ d \in Text /\ l \in Nat /\ Len(v) \in Nat /\ m \in Nat /\ o <= m /\ o + l <= m
      /\ p.truncate \in BOOLEAN
  BY DEF Patches, Text
<1>2. CASE p.truncate
  <2>1. r = Resize(v, o)
    BY <1>2 DEF Patch
  <2>2. \A i : ~ Covers(p, i)
    BY <1>2 DEF Covers
  <2>3. /\ Resize(v, o) \in Text /\ Len(Resize(v, o)) = o
        /\ \A i \in 1..o : Resize(v, o)[i] = IF i <= Len(v) THEN v[i] ELSE "NUL"
    BY Zenon, <1>1, ResizeIs
  <2> HIDE DEF r, w, m, o, d
  <2> QED BY <1>1, <1>2, <2>1, <2>2, <2>3 DEF IsPatched, r, o
<1>3. CASE ~ p.truncate
  <2>1. r = Replace(w, o, l, d)
    <3>1. Max({Len(v), o + l}) = m
      BY <1>1, MinMax
    <3> QED BY Zenon, <1>3, <3>1 DEF Patch
  <2>2. /\ w \in Text /\ Len(w) = m
        /\ \A i \in 1..m : w[i] = IF i <= Len(v) THEN v[i] ELSE "NUL"
    BY Zenon, <1>1, ResizeIs
  <2>3. Replaced(r, w, o, l, d)
    <3> HIDE DEF w, o, l, d, r, m
    <3>1. o <= Len(w)
      BY Zenon, <1>1, <2>2
    <3> QED BY Zenon, <1>1, <2>1, <2>2, <3>1, ReplaceIs
  <2>4. r \in Text /\ Len(r) = m
    <3> HIDE DEF w, o, d, r, m
    <3> QED BY <1>1, <2>2, <2>3 DEF Replaced
  <2>5. ASSUME NEW i \in 1..Len(r)
        PROVE  /\ Covers(p, i) => r[i] = d[i - o]
               /\ ~ Covers(p, i) => r[i] = w[i]
    <3>1. Covers(p, i) <=> o < i /\ i <= o + l
      BY Zenon, <1>3 DEF Covers
    <3> HIDE DEF w, o, d, r, m
    <3>2. /\ i <= o => r[i] = w[i]
          /\ i > o /\ i <= o + Len(d) => r[i] = d[i - o]
          /\ i > o + Len(d) => r[i] = w[(i - Len(d)) + l]
      BY Zenon, <2>3 DEF Replaced
    <3>3. (i - Len(d)) + l = i
      BY <1>1
    <3> QED BY <1>1, <3>1, <3>2, <3>3
  <2>6. /\ Len(v) <= o + l => m = o + l
        /\ Len(v) >= o + l => m = Len(v)
    BY <1>1
  <2>7. \A i \in 1..Len(r) : /\ ~ Covers(p, i) /\ i <= Len(v) => r[i] = v[i]
                             /\ ~ Covers(p, i) /\ i > Len(v) => r[i] = "NUL"
    <3> HIDE DEF w, r, m
    <3>1. \A i \in 1..Len(r) : i \in 1..m /\ (i > Len(v) => ~ (i <= Len(v)))
      BY <1>1, <2>4
    <3> QED BY Zenon, <2>2, <2>5, <3>1
  <2> HIDE DEF w, r, m
  <2> QED BY Zenon, <1>3, <2>4, <2>5, <2>6, <2>7 DEF IsPatched, r
<1> QED BY Zenon, <1>2, <1>3 DEF r

\* f is a value v at each turn of a loop that applies updates to it.
Application(f, v, ps) ==
  /\ f \in [0..Len(ps) -> Text] /\ f[0] = v
  /\ \A n \in 1..Len(ps) : f[n] = Patch(f[n - 1], ps[n])

\* Applying the updates one after the other is a loop over values.
LEMMA PatchingIs ==
  ASSUME NEW v \in Text, NEW ps \in Seq(Patches)
  PROVE  Application(Patching(v, ps), v, ps)
<1> DEFINE N == Len(ps)
           F == [n \in 1..N |-> [x \in Text |-> Patch(x, ps[n])]]
           f == Patching(v, ps)
<1>0. N \in Nat /\ \A n \in 1..N : ps[n] \in Patches
  OBVIOUS
<1>1. \A n \in 1..N, x \in Text : Patch(x, ps[n]) \in Text
  BY Zenon, <1>0, PatchIs DEF IsPatched
<1>2. \A n \in 1..N, x \in Text : F[n][x] = Patch(x, ps[n])
  BY Zenon
<1>3. F \in [1..N -> [Text -> Text]]
  BY Zenon, <1>1
<1> HIDE DEF F, N
<1>4. PICK g \in [0..N -> Text] : g[0] = v /\ \A n \in 1..N : g[n] = F[n][g[n - 1]]
  <2>1. Runs(N, Text, v, F) # {}
    BY Zenon, <1>0, <1>3, Turns
  <2> QED BY Zenon, <2>1 DEF Runs
<1>5. ASSUME NEW n \in 1..N PROVE g[n] = Patch(g[n - 1], ps[n])
  <2>1. n - 1 \in 0..N
    BY <1>0
  <2>2. g[n - 1] \in Text
    BY Zenon, <1>4, <2>1
  <2> QED BY Zenon, <1>2, <1>4, <2>2
<1> DEFINE Is(h) == h = [n \in 0..N |-> IF n = 0 THEN v ELSE Patch(h[n - 1], ps[n])]
<1>6. Is(g)
  <2>1. \A n \in 0..N : n = 0 \/ n \in 1..N
    BY <1>0
  <2>2. \A n \in 0..N : g[n] = IF n = 0 THEN v ELSE Patch(g[n - 1], ps[n])
    BY Zenon, <1>4, <1>5, <2>1
  <2> QED BY Zenon, <1>4, <2>2
<1>7. f = CHOOSE h : Is(h)
  BY Zenon DEF Patching, N
<1>8. Is(f)
  <2> HIDE DEF Is, f
  <2> QED BY Zenon, <1>6, <1>7
<1>9. /\ f = [n \in 0..N |-> f[n]] /\ f[0] = v
      /\ \A n \in 1..N : f[n] = Patch(f[n - 1], ps[n])
  <2>1. f = [n \in 0..N |-> IF n = 0 THEN v ELSE Patch(f[n - 1], ps[n])]
    BY Zenon, <1>8
  <2> HIDE DEF f
  <2>2. f = [n \in 0..N |-> f[n]]
        /\ \A n \in 0..N : f[n] = IF n = 0 THEN v ELSE Patch(f[n - 1], ps[n])
    BY Zenon, <2>1
  <2>3. 0 \in 0..N /\ \A n \in 1..N : n \in 0..N /\ n # 0
    BY <1>0
  <2> QED BY Zenon, <2>2, <2>3
<1> HIDE DEF f
<1> DEFINE B == {n \in 0..N : f[n] = g[n]}
<1>10. \A n \in 0..N : n \in B
  <2>1. 0 \in B
    <3>1. 0 \in 0..N
      BY <1>0
    <3> QED BY Zenon, <1>4, <1>9, <3>1
  <2>2. ASSUME NEW n \in 1..N, n - 1 \in B PROVE n \in B
    <3>1. f[n] = Patch(f[n - 1], ps[n]) /\ g[n] = Patch(g[n - 1], ps[n]) /\ f[n - 1] = g[n - 1]
      BY Zenon, <1>5, <1>9, <2>2
    <3>2. n \in 0..N
      BY <1>0
    <3> QED BY Zenon, <3>1, <3>2
  <2> HIDE DEF B
  <2> QED BY Zenon, <1>0, <2>1, <2>2, CountingUp
<1>11. f = g
  BY Zenon, <1>4, <1>9, <1>10
<1> QED BY Zenon, <1>4, <1>5, <1>11 DEF N, f, Application

\* A sequence with an element appended.
LEMMA AppendIs ==
  ASSUME NEW S, NEW s \in Seq(S), NEW e \in S
  PROVE  /\ Append(s, e) \in Seq(S) /\ Len(Append(s, e)) = Len(s) + 1 /\ Len(s) \in Nat
         /\ Append(s, e)[Len(s) + 1] = e
         /\ \A n \in 1..Len(s) : Append(s, e)[n] = s[n]
OBVIOUS

\* One more update is applied after the others.
LEMMA PatchingAppend ==
  ASSUME NEW v \in Text, NEW ps \in Seq(Patches), NEW p \in Patches
  PROVE  Patching(v, Append(ps, p))[Len(Append(ps, p))] = Patch(Patching(v, ps)[Len(ps)], p)
<1> DEFINE N == Len(ps)
           qs == Append(ps, p)
           f == Patching(v, ps)
           g == Patching(v, qs)
           B == {n \in 0..N : f[n] = g[n]}
<1>1. /\ qs \in Seq(Patches) /\ Len(qs) = N + 1 /\ N \in Nat
      /\ qs[N + 1] = p /\ \A n \in 1..N : qs[n] = ps[n]
  BY AppendIs
<1> HIDE DEF qs, N
<1>2. Application(f, v, ps) /\ Application(g, v, qs)
  BY Zenon, <1>1, PatchingIs
<1> HIDE DEF f, g
<1>3. \A n \in 0..N : n \in B
  <2>1. 0 \in B
    <3>1. 0 \in 0..N
      BY <1>1
    <3> QED BY Zenon, <1>2, <3>1 DEF Application
  <2>2. ASSUME NEW n \in 1..N, n - 1 \in B PROVE n \in B
    <3>1. n \in 0..N /\ n \in 1..(N + 1)
      BY <1>1
    <3>2. f[n] = Patch(f[n - 1], ps[n]) /\ f[n - 1] = g[n - 1]
      BY Zenon, <1>2, <2>2 DEF Application, N
    <3>3. g[n] = Patch(g[n - 1], qs[n]) /\ qs[n] = ps[n]
      BY Zenon, <1>1, <1>2, <3>1 DEF Application
    <3> QED BY Zenon, <3>1, <3>2, <3>3
  <2> HIDE DEF B
  <2> QED BY Zenon, <1>1, <2>1, <2>2, CountingUp
<1>4. N \in 0..N /\ N + 1 \in 1..(N + 1) /\ (N + 1) - 1 = N
  BY <1>1
<1>5. g[N + 1] = Patch(g[(N + 1) - 1], qs[N + 1])
  BY Zenon, <1>1, <1>2, <1>4 DEF Application
<1>6. g[N] = f[N]
  BY Zenon, <1>3, <1>4
<1> QED BY Zenon, <1>1, <1>4, <1>5, <1>6 DEF f, g, qs, N

-----------------------------------------------------------------------------
\* Of the first n updates, one has written byte i and none after it has cut it off.
KeptBy(ps, n, i) ==
  \E m \in 1..n : Covers(ps[m], i) /\ \A k \in 1..n : k > m => ~ Cuts(ps[k], i)

\* The last of n updates has written a byte, or the others have and it was not cut.
LEMMA KeptTurn ==
  ASSUME NEW ps, NEW n \in Nat \ {0}, NEW i, KeptBy(ps, n, i)
  PROVE  Covers(ps[n], i) \/ (KeptBy(ps, n - 1, i) /\ ~ Cuts(ps[n], i))
<1>1. PICK m \in 1..n : Covers(ps[m], i) /\ \A k \in 1..n : k > m => ~ Cuts(ps[k], i)
  BY DEF KeptBy
<1>2. CASE m = n
  BY Zenon, <1>1, <1>2
<1>3. CASE m # n
  <2>1. m \in 1..(n - 1) /\ n > m /\ n \in 1..n /\ \A k \in 1..(n - 1) : k \in 1..n
    BY <1>3
  <2> QED BY Zenon, <1>1, <2>1 DEF KeptBy
<1> QED BY Zenon, <1>2, <1>3

\* Nothing is kept of no updates.
LEMMA KeptNone ==
  ASSUME NEW ps, NEW i
  PROVE  ~ KeptBy(ps, 0, i)
BY DEF KeptBy

\* Updates that agree up to n keep the same bytes.
LEMMA KeptSame ==
  ASSUME NEW ps, NEW qs, NEW n, \A m \in 1..n : ps[m] = qs[m], NEW i, KeptBy(qs, n, i)
  PROVE  KeptBy(ps, n, i)
BY Zenon DEF KeptBy

\* A byte of a value is the same in another, and in both of them.
Same(v, w, i) == i <= Len(v) /\ i <= Len(w) /\ v[i] = w[i]

\* What updates have written does not depend on the value they are applied to.
LEMMA PatchingKept ==
  ASSUME NEW v \in Text, NEW w \in Text, NEW ps \in Seq(Patches), NEW i \in Nat \ {0},
         KeptBy(ps, Len(ps), i)
  PROVE  Same(Patching(v, ps)[Len(ps)], Patching(w, ps)[Len(ps)], i)
<1> DEFINE N == Len(ps)
           f == Patching(v, ps)
           g == Patching(w, ps)
           B == {n \in 0..N : KeptBy(ps, n, i) => Same(f[n], g[n], i)}
<1>1. N \in Nat /\ N \in 0..N /\ 0 \in 0..N /\ \A n \in 1..N : ps[n] \in Patches
  OBVIOUS
<1>2. Application(f, v, ps) /\ Application(g, w, ps)
  BY Zenon, PatchingIs
<1> HIDE DEF f, g, N
<1>3. 0 \in B
  BY Zenon, <1>1, KeptNone
<1>4. ASSUME NEW n \in 1..N, n - 1 \in B PROVE n \in B
  <2> SUFFICES ASSUME KeptBy(ps, n, i) PROVE Same(f[n], g[n], i)
    BY <1>1
  <2> DEFINE p == ps[n]
             x == f[n - 1]
             y == g[n - 1]
  <2>1. n - 1 \in 0..N /\ n \in Nat \ {0}
    BY <1>1
  <2>2. x \in Text /\ y \in Text /\ p \in Patches
    BY Zenon, <1>1, <1>2, <2>1 DEF Application, N
  <2>3. f[n] = Patch(x, p) /\ g[n] = Patch(y, p)
    BY Zenon, <1>2 DEF Application, N
  <2>4. Covers(p, i) \/ (KeptBy(ps, n - 1, i) /\ ~ Cuts(p, i))
    BY Zenon, <2>1, KeptTurn
  <2>5. KeptBy(ps, n - 1, i) => Same(x, y, i)
    BY Zenon, <1>4
  <2> HIDE DEF p, x, y
  <2>6. IsPatched(f[n], x, p) /\ IsPatched(g[n], y, p)
    BY Zenon, <2>2, <2>3, PatchIs
  <2>7. /\ f[n] \in Text /\ g[n] \in Text /\ p.offset \in Nat /\ Len(p.data) \in Nat
        /\ Len(x) \in Nat /\ Len(y) \in Nat /\ p.truncate \in BOOLEAN
        /\ Len(f[n]) \in Nat /\ Len(g[n]) \in Nat
    BY SMTT(60), <2>2, <2>6 DEF IsPatched, Patches, Text
  <2>a. /\ p.truncate => Len(f[n]) = p.offset /\ Len(g[n]) = p.offset
        /\ ~ p.truncate /\ Len(x) <= p.offset + Len(p.data) => Len(f[n]) = p.offset + Len(p.data)
        /\ ~ p.truncate /\ Len(x) >= p.offset + Len(p.data) => Len(f[n]) = Len(x)
        /\ ~ p.truncate /\ Len(y) <= p.offset + Len(p.data) => Len(g[n]) = p.offset + Len(p.data)
        /\ ~ p.truncate /\ Len(y) >= p.offset + Len(p.data) => Len(g[n]) = Len(y)
    BY Zenon, <2>6 DEF IsPatched
  <2>8. CASE Covers(p, i)
    <3>1. ~ p.truncate /\ i <= p.offset + Len(p.data)
      BY <2>8 DEF Covers
    <3>2. i <= Len(f[n]) /\ i <= Len(g[n])
      BY SMTT(60), <2>7, <2>a, <3>1
    <3>3. i \in 1..Len(f[n]) /\ i \in 1..Len(g[n])
      BY <2>7, <3>2
    <3> QED BY Zenon, <2>6, <2>8, <3>2, <3>3 DEF IsPatched, Same
  <2>9. CASE ~ Covers(p, i)
    <3>1. Same(x, y, i) /\ ~ Cuts(p, i)
      BY Zenon, <2>4, <2>5, <2>9
    <3>2. i <= Len(x) /\ i <= Len(y) /\ x[i] = y[i] /\ (p.truncate => i <= p.offset)
      BY <2>7, <3>1 DEF Same, Cuts
    <3>3. i <= Len(f[n]) /\ i <= Len(g[n])
      BY SMTT(60), <2>7, <2>a, <3>2
    <3>4. i \in 1..Len(f[n]) /\ i \in 1..Len(g[n])
      BY <2>7, <3>3
    <3> QED BY Zenon, <2>6, <2>9, <3>2, <3>3, <3>4 DEF IsPatched, Same
  <2> QED BY Zenon, <2>8, <2>9
<1>5. N \in B
  <2> HIDE DEF B
  <2>1. \A n \in 0..N : n \in B
    BY Zenon, <1>1, <1>3, <1>4, CountingUp
  <2> QED BY Zenon, <1>1, <2>1
<1> QED BY Zenon, <1>5 DEF N, f, g

-----------------------------------------------------------------------------
(***************************************************************************)
(* getRemoteValue merges the updates into the value read.                  *)
(***************************************************************************)

\* What the loop of getRemoteValue works on.
Merges == {m \in [value : Text, size : Nat, thrown : BOOLEAN] :
             /\ Len(local_value) <= Len(m.value) /\ Len(m.value) <= Capacity
             /\ m.size <= Capacity}

\* The outcome of merging update p into m.
IsMerged(r, m, p) ==
  /\ r \in Merges
  /\ m.thrown => r = m
  /\ ~ m.thrown /\ p.truncate => r.value = m.value /\ r.size = p.offset /\ ~ r.thrown
  /\ ~ m.thrown /\ ~ p.truncate => r.size >= p.offset + Len(p.data) /\ r.size >= m.size
                                   /\ r.size \in {p.offset + Len(p.data), m.size}
  /\ ~ m.thrown /\ ~ p.truncate => (r.thrown <=> p.offset > Len(local_value))
  /\ ~ m.thrown /\ ~ p.truncate /\ ~ r.thrown =>
       \A i \in 1..Len(local_value) : /\ Covers(p, i) => r.value[i] = local_value[i]
                                      /\ ~ Covers(p, i) => r.value[i] = m.value[i]
  /\ ~ m.thrown /\ ~ p.truncate /\ p.offset + Len(p.data) <= Len(local_value) =>
       /\ Len(r.value) = Len(m.value)
       /\ \A i \in 1..Len(r.value) : ~ Covers(p, i) => r.value[i] = m.value[i]

\* The part of the local value that update p has written, or what is left of it.
LEMMA ReplacedPart ==
  ASSUME NEW L \in Text, NEW s \in Text, NEW p \in Patches, ~ p.truncate,
         p.offset <= Len(L), Len(L) <= Len(s)
  PROVE  LET r == Replace(s, p.offset, Len(p.data), Part(L, p.offset, Len(p.data)))
         IN  /\ r \in Text /\ Len(L) <= Len(r) /\ Len(r) <= Len(s)
             /\ \A i \in 1..Len(L) : /\ Covers(p, i) => r[i] = L[i]
                                     /\ ~ Covers(p, i) => r[i] = s[i]
             /\ p.offset + Len(p.data) <= Len(L) =>
                  /\ Len(r) = Len(s)
                  /\ \A i \in 1..Len(r) : ~ Covers(p, i) => r[i] = s[i]
<1> DEFINE o == p.offset
           l == Len(p.data)
           e == IF o + l <= Len(L) THEN o + l ELSE Len(L)
           t == Part(L, o, l)
           r == Replace(s, o, l, t)
<1>1. /\ o \in Nat /\ l \in Nat /\ Len(L) \in Nat /\ Len(s) \in Nat /\ e \in Nat
      /\ o <= e /\ e <= o + l /\ e <= Len(L) /\ (e < Len(L) => e = o + l)
      /\ (o + l <= Len(L) => e = o + l)
  BY DEF Patches, Text
<1>2. \A i : Covers(p, i) <=> o < i /\ i <= o + l
  BY Zenon DEF Covers
<1>3. t \in Text /\ Len(t) = e - o /\ \A i \in 1..Len(t) : t[i] = L[o + i]
  <2>1. /\ o + l <= Len(L) => e = o + l
        /\ o + l > Len(L) => e = Len(L)
    BY <1>1
  <2> HIDE DEF o, l, e
  <2> QED BY <1>1, <2>1, PartIs
<1>4. Replaced(r, s, o, l, t)
  <2> HIDE DEF o, l, e, t
  <2>1. o <= Len(s)
    BY <1>1
  <2> QED BY Zenon, <1>1, <1>3, <2>1, ReplaceIs
<1> HIDE DEF o, l, e, t, r
<1>5. r \in Text /\ Len(r) = o + Len(t) + IF o + l <= Len(s) THEN Len(s) - (o + l) ELSE 0
  BY Zenon, <1>4 DEF Replaced
<1>6. Len(r) \in Nat /\ Len(L) <= Len(r) /\ Len(r) <= Len(s) /\ (o + l <= Len(L) => Len(r) = Len(s))
  BY <1>1, <1>3, <1>5
<1>7. ASSUME NEW i \in 1..Len(r)
      PROVE  /\ i <= o => r[i] = s[i]
             /\ i > o /\ i <= e => r[i] = L[i]
             /\ i > o + l /\ e = o + l => r[i] = s[i]
  <2>1. /\ i <= o => r[i] = s[i]
        /\ i > o /\ i <= o + Len(t) => r[i] = t[i - o]
        /\ i > o + Len(t) => r[i] = s[(i - Len(t)) + l]
    BY Zenon, <1>4 DEF Replaced
  <2>2. CASE i > o /\ i <= e
    <3>1. i - o \in 1..Len(t) /\ o + (i - o) = i /\ i <= o + Len(t)
      BY <1>1, <1>3, <2>2
    <3>2. t[i - o] = L[i]
      BY Zenon, <1>3, <3>1
    <3> QED BY SMTT(60), <1>1, <2>1, <2>2, <3>1, <3>2
  <2>3. CASE i > o + l /\ e = o + l
    <3>1. i > o + Len(t) /\ (i - Len(t)) + l = i
      BY <1>1, <1>3, <2>3
    <3> QED BY <1>1, <2>1, <2>3, <3>1
  <2> QED BY <1>1, <2>1, <2>2, <2>3
<1>8. ASSUME NEW i \in 1..Len(L)
      PROVE  /\ Covers(p, i) => r[i] = L[i]
             /\ ~ Covers(p, i) => r[i] = s[i]
  <2>1. i \in 1..Len(r)
    BY <1>1, <1>6
  <2>2. /\ i <= o => r[i] = s[i]
        /\ i > o /\ i <= e => r[i] = L[i]
        /\ i > o + l /\ e = o + l => r[i] = s[i]
    BY Zenon, <1>7, <2>1
  <2>3. Covers(p, i) <=> o < i /\ i <= o + l
    BY Zenon, <1>2
  <2> QED BY <1>1, <2>2, <2>3
<1>9. ASSUME o + l <= Len(L), NEW i \in 1..Len(r), ~ Covers(p, i) PROVE r[i] = s[i]
  <2>2. /\ i <= o => r[i] = s[i]
        /\ i > o + l /\ e = o + l => r[i] = s[i]
    BY Zenon, <1>7
  <2>3. Covers(p, i) <=> o < i /\ i <= o + l
    BY Zenon, <1>2
  <2> QED BY <1>1, <1>6, <1>9, <2>2, <2>3
<1> QED BY Zenon, <1>5, <1>6, <1>8, <1>9 DEF r, t, o, l

\* What the loop of getRemoteValue does with one update.
LEMMA MergeIs ==
  ASSUME NEW m \in Merges, NEW p \in Patches, ~ p.truncate => local_value \in Text,
         NEW u, u = <<p.offset, Len(p.data)>>
  PROVE  IsMerged(Merge(m, u), m, p)
<1> DEFINE o == p.offset
           l == Len(p.data)
           z == IF o + l >= m.size THEN o + l ELSE m.size
           x == Replace(m.value, o, l, Part(local_value, o, l))
           r == Merge(m, u)
<1>1. /\ o \in Nat /\ l \in Nat /\ (p.truncate <=> l = 0) /\ o + l <= Capacity /\ u[1] = o /\ u[2] = l
      /\ m.size \in Nat /\ m.size <= Capacity /\ m.value \in Text /\ m.thrown \in BOOLEAN
      /\ p.truncate \in BOOLEAN /\ Capacity \in Nat
      /\ Len(local_value) <= Len(m.value) /\ Len(m.value) <= Capacity
  BY BlockAssumption DEF Patches, Merges, Text
<1>2. Max({u[1] + u[2], m.size}) = z
  BY SMTT(60), <1>1, MinMax
<1>3. /\ z \in Nat /\ z <= Capacity /\ z >= o + l /\ z >= m.size /\ z \in {o + l, m.size}
  BY SMTT(60), <1>1
<1>m. /\ m = [value |-> m.value, size |-> m.size, thrown |-> m.thrown]
  BY DEF Merges
<1>4. CASE m.thrown
  <2>1. r = m
    BY Zenon, <1>4 DEF Merge
  <2> HIDE DEF r
  <2> QED BY Zenon, <1>4, <2>1 DEF IsMerged, r
<1>5. CASE ~ m.thrown /\ p.truncate
  <2>1. r = [m EXCEPT !.size = o]
    BY <1>1, <1>5 DEF Merge
  <2>2. r = [value |-> m.value, size |-> o, thrown |-> m.thrown]
    BY <1>m, <2>1
  <2>3. r.value = m.value /\ r.size = o /\ r.thrown = m.thrown
    BY <2>2
  <2>4. r \in Merges
    BY SMTT(60), <1>1, <2>2 DEF Merges
  <2> HIDE DEF r
  <2> QED BY Zenon, <1>5, <2>3, <2>4 DEF IsMerged, r, o
<1>6. CASE ~ m.thrown /\ ~ p.truncate /\ o > Len(local_value)
  <2>2. r = [value |-> m.value, size |-> z, thrown |-> TRUE]
    <3>1. ~ m.thrown /\ ~ (u[2] = 0) /\ u[1] > Len(local_value)
      BY <1>1, <1>6
    <3>2. u[1] > Len(local_value) <=> TRUE
      BY Zenon, <3>1
    <3> HIDE DEF z, o, l
    <3> QED BY ZenonT(60), <1>2, <3>1, <3>2 DEF Merge
  <2> HIDE DEF z, r
  <2>3. r.value = m.value /\ r.size = z /\ r.thrown
    BY <2>2
  <2>4. r \in Merges
    BY <1>1, <1>3, <2>2 DEF Merges
  <2>5. o + l <= Len(local_value) => FALSE
    <3>1. Len(local_value) \in Nat
      BY <1>6 DEF Text
    <3> QED BY <1>1, <1>6, <3>1
  <2> QED BY Zenon, <1>3, <1>6, <2>3, <2>4, <2>5 DEF IsMerged, r, o, l
<1>7. CASE ~ m.thrown /\ ~ p.truncate /\ ~ (o > Len(local_value))
  <2>0. local_value \in Text /\ Len(local_value) \in Nat
    BY <1>7 DEF Text
  <2>1. r = [value |-> x, size |-> z, thrown |-> FALSE]
    <3>1. ~ m.thrown /\ ~ (u[2] = 0) /\ ~ (u[1] > Len(local_value)) /\ u[1] = o /\ u[2] = l
      BY <1>1, <1>7
    <3>2. Max({u[1] + u[2], m.size}) = z /\ Replace(m.value, u[1], u[2], Part(local_value, u[1], u[2])) = x
      BY Zenon, <1>2, <3>1
    <3>3. r = [size |-> Max({u[1] + u[2], m.size}), thrown |-> u[1] > Len(local_value),
               value |-> IF u[1] > Len(local_value) THEN m.value
                         ELSE Replace(m.value, u[1], u[2], Part(local_value, u[1], u[2]))]
      BY Zenon, <3>1 DEF Merge
    <3>4. (u[1] > Len(local_value)) = FALSE
      BY <2>0, <3>1, <1>1
    <3> HIDE DEF z, o, l, x, r
    <3>5. r = [size |-> z, thrown |-> FALSE, value |-> x]
      BY Zenon, <3>1, <3>2, <3>3, <3>4
    <3> QED BY <3>5
  <2>2. /\ x \in Text /\ Len(local_value) <= Len(x) /\ Len(x) <= Len(m.value)
        /\ \A i \in 1..Len(local_value) : /\ Covers(p, i) => x[i] = local_value[i]
                                          /\ ~ Covers(p, i) => x[i] = m.value[i]
        /\ o + l <= Len(local_value) =>
             /\ Len(x) = Len(m.value)
             /\ \A i \in 1..Len(x) : ~ Covers(p, i) => x[i] = m.value[i]
    <3>1. o <= Len(local_value)
      BY <1>1, <1>7, <2>0
    <3> QED BY Zenon, <1>1, <1>7, <2>0, <3>1, ReplacedPart
  <2> HIDE DEF z, r, x
  <2>4. r.value = x /\ r.size = z /\ r.thrown = FALSE
    BY <2>1
  <2>5. r \in Merges
    <3>1. Len(x) <= Capacity
      BY <1>1, <2>2 DEF Text
    <3> QED BY <1>3, <2>1, <2>2, <3>1 DEF Merges
  <2>6. p.offset > Len(local_value) <=> FALSE
    BY <1>7
  <2> QED BY Zenon, <1>3, <1>7, <2>2, <2>4, <2>5, <2>6 DEF IsMerged, r, o, l
<1> QED BY Zenon, <1>1, <1>4, <1>5, <1>6, <1>7

\* updates and patches describe the same updates, and one that writes has left a
\* local value.
Logged ==
  /\ patches \in Seq(Patches) /\ updates \in Seq(Nat \X Nat) /\ Len(updates) = Len(patches)
  /\ \A n \in 1..Len(patches) : updates[n] = <<patches[n].offset, Len(patches[n].data)>>

Written == \A n \in 1..Len(patches) : ~ patches[n].truncate => local_value \in Text

\* f is what a loop that merges the updates works on at each of its turns.
Fusion(f, start) ==
  /\ f \in [0..Len(patches) -> Merges] /\ f[0] = start
  /\ \A n \in 1..Len(patches) : IsMerged(f[n], f[n - 1], patches[n])

\* Merging the updates one after the other is a loop over such outcomes.
LEMMA MergingIs ==
  ASSUME Logged, Written, NEW start \in Merges
  PROVE  Fusion(Merging(start), start)
<1> DEFINE N == Len(patches)
           F == [n \in 1..N |-> [x \in Merges |-> Merge(x, updates[n])]]
           f == Merging(start)
<1>0. N \in Nat /\ Len(updates) = N /\ \A n \in 1..N : patches[n] \in Patches
  BY DEF Logged
<1>1. \A n \in 1..N, x \in Merges : IsMerged(Merge(x, updates[n]), x, patches[n])
  <2> TAKE n \in 1..N, x \in Merges
  <2>1. patches[n] \in Patches /\ (~ patches[n].truncate => local_value \in Text)
    BY Zenon, <1>0 DEF Written
  <2>2. updates[n] = <<patches[n].offset, Len(patches[n].data)>>
    BY Zenon DEF Logged
  <2> QED BY Zenon, <2>1, <2>2, MergeIs
<1>a. \A n \in 1..N, x \in Merges : Merge(x, updates[n]) \in Merges
  BY Zenon, <1>1 DEF IsMerged
<1>2. \A n \in 1..N, x \in Merges : F[n][x] = Merge(x, updates[n])
  BY Zenon
<1>3. F \in [1..N -> [Merges -> Merges]]
  BY Zenon, <1>a
<1> HIDE DEF F, N
<1>4. PICK g \in [0..N -> Merges] : g[0] = start /\ \A n \in 1..N : g[n] = F[n][g[n - 1]]
  <2>1. Runs(N, Merges, start, F) # {}
    BY Zenon, <1>0, <1>3, Turns
  <2> QED BY Zenon, <2>1 DEF Runs
<1>5. ASSUME NEW n \in 1..N PROVE g[n] = Merge(g[n - 1], updates[n]) /\ g[n - 1] \in Merges
  <2>1. n - 1 \in 0..N
    BY <1>0
  <2>2. g[n - 1] \in Merges
    BY Zenon, <1>4, <2>1
  <2> QED BY Zenon, <1>2, <1>4, <2>2
<1> DEFINE Is(h) == h = [n \in 0..N |-> IF n = 0 THEN start ELSE Merge(h[n - 1], updates[n])]
<1>6. Is(g)
  <2>1. \A n \in 0..N : n = 0 \/ n \in 1..N
    BY <1>0
  <2>2. \A n \in 0..N : g[n] = IF n = 0 THEN start ELSE Merge(g[n - 1], updates[n])
    BY Zenon, <1>4, <1>5, <2>1
  <2> QED BY Zenon, <1>4, <2>2
<1>7. f = CHOOSE h : Is(h)
  BY Zenon, <1>0 DEF Merging
<1>8. Is(f)
  <2> HIDE DEF Is, f
  <2> QED BY Zenon, <1>6, <1>7
<1>9. /\ f = [n \in 0..N |-> f[n]] /\ f[0] = start
      /\ \A n \in 1..N : f[n] = Merge(f[n - 1], updates[n])
  <2>1. f = [n \in 0..N |-> IF n = 0 THEN start ELSE Merge(f[n - 1], updates[n])]
    BY Zenon, <1>8
  <2> HIDE DEF f
  <2>2. f = [n \in 0..N |-> f[n]]
        /\ \A n \in 0..N : f[n] = IF n = 0 THEN start ELSE Merge(f[n - 1], updates[n])
    BY Zenon, <2>1
  <2>3. 0 \in 0..N /\ \A n \in 1..N : n \in 0..N /\ n # 0
    BY <1>0
  <2> QED BY Zenon, <2>2, <2>3
<1> HIDE DEF f
<1> DEFINE B == {n \in 0..N : f[n] = g[n]}
<1>10. \A n \in 0..N : n \in B
  <2>1. 0 \in B
    <3>1. 0 \in 0..N
      BY <1>0
    <3> QED BY Zenon, <1>4, <1>9, <3>1
  <2>2. ASSUME NEW n \in 1..N, n - 1 \in B PROVE n \in B
    <3>1. f[n] = Merge(f[n - 1], updates[n]) /\ g[n] = Merge(g[n - 1], updates[n]) /\ f[n - 1] = g[n - 1]
      BY Zenon, <1>5, <1>9, <2>2
    <3>2. n \in 0..N
      BY <1>0
    <3> QED BY Zenon, <3>1, <3>2
  <2> HIDE DEF B
  <2> QED BY Zenon, <1>0, <2>1, <2>2, CountingUp
<1>11. f = g
  BY Zenon, <1>4, <1>9, <1>10
<1>12. \A n \in 1..N : IsMerged(f[n], f[n - 1], patches[n])
  BY Zenon, <1>1, <1>5, <1>11
<1> QED BY Zenon, <1>4, <1>11, <1>12 DEF N, f, Fusion

\* What merging makes of a byte: it is in memory still.
Retains(r, i) == i <= r.size /\ (~ r.thrown => r.value[i] = local_value[i])

\* A byte that updates have written and not cut off is in what is merged.
LEMMA MergedKept ==
  ASSUME Logged, Written, NEW start \in Merges, ~ start.thrown, Len(local_value) \in Nat,
         NEW i \in 1..Len(local_value), KeptBy(patches, Len(patches), i)
  PROVE  Retains(Merged(start), i)
<1> DEFINE N == Len(patches)
           f == Merging(start)
           G(n) == /\ f[n].thrown => f[n].size > Len(local_value)
                   /\ KeptBy(patches, n, i) /\ ~ f[n].thrown =>
                        i <= f[n].size /\ f[n].value[i] = local_value[i]
           B == {n \in 0..N : G(n)}
<1>0. /\ N \in Nat /\ N \in 0..N /\ 0 \in 0..N /\ Len(updates) = N
      /\ \A n \in 1..N : patches[n] \in Patches
  BY DEF Logged
<1>1. Fusion(f, start)
  BY Zenon, MergingIs
<1> HIDE DEF f, N
<1>2. 0 \in B
  <2>1. f[0] = start /\ ~ KeptBy(patches, 0, i)
    BY Zenon, <1>1, KeptNone DEF Fusion
  <2> QED BY Zenon, <1>0, <2>1
<1>3. ASSUME NEW n \in 1..N, n - 1 \in B PROVE n \in B
  <2> DEFINE p == patches[n]
             m == f[n - 1]
             r == f[n]
  <2>1. n - 1 \in 0..N /\ n \in 0..N /\ n \in Nat \ {0}
    BY <1>0
  <2>2. m \in Merges /\ r \in Merges /\ p \in Patches /\ IsMerged(r, m, p)
    BY Zenon, <1>0, <1>1, <2>1 DEF Fusion, N
  <2>3. KeptBy(patches, n, i) => Covers(p, i) \/ (KeptBy(patches, n - 1, i) /\ ~ Cuts(p, i))
    BY Zenon, <2>1, KeptTurn
  <2>4. G(n - 1)
    BY Zenon, <1>3
  <2> SUFFICES G(n)
    BY Zenon, <2>1
  <2>5. /\ m.thrown => m.size > Len(local_value)
        /\ KeptBy(patches, n - 1, i) /\ ~ m.thrown => i <= m.size /\ m.value[i] = local_value[i]
    BY Zenon, <2>4
  <2> HIDE DEF p, m, r, G
  <2>6. /\ p.offset \in Nat /\ Len(p.data) \in Nat /\ p.truncate \in BOOLEAN
        /\ m.size \in Nat /\ r.size \in Nat /\ m.thrown \in BOOLEAN /\ r.thrown \in BOOLEAN
        /\ (p.truncate <=> Len(p.data) = 0)
    BY <2>2 DEF Patches, Merges, Text
  <2>7. CASE m.thrown
    <3>1. r = m
      BY Zenon, <2>2, <2>7 DEF IsMerged
    <3> QED BY Zenon, <2>5, <2>7, <3>1 DEF G, r, m
  <2>8. CASE ~ m.thrown /\ p.truncate
    <3>1. r.value = m.value /\ r.size = p.offset /\ ~ r.thrown
      BY Zenon, <2>2, <2>8 DEF IsMerged
    <3>2. ~ Covers(p, i)
      BY Zenon, <2>8 DEF Covers
    <3>3. ~ Cuts(p, i) => i <= p.offset
      BY <2>6, <2>8 DEF Cuts
    <3> QED BY Zenon, <2>3, <2>5, <2>8, <3>1, <3>2, <3>3 DEF G, r
  <2>9. CASE ~ m.thrown /\ ~ p.truncate
    <3>1. /\ r.size >= p.offset + Len(p.data) /\ r.size >= m.size
          /\ (r.thrown <=> p.offset > Len(local_value))
      BY Zenon, <2>2, <2>9 DEF IsMerged
    <3>2. ~ r.thrown => /\ Covers(p, i) => r.value[i] = local_value[i]
                        /\ ~ Covers(p, i) => r.value[i] = m.value[i]
      BY Zenon, <2>2, <2>9 DEF IsMerged
    <3>3. r.thrown => r.size > Len(local_value)
      BY <2>6, <3>1
    <3>4. /\ Covers(p, i) => i <= r.size
          /\ i <= m.size => i <= r.size
      BY <2>6, <3>1 DEF Covers
    <3> QED BY Zenon, <2>3, <2>5, <2>9, <3>2, <3>3, <3>4 DEF G, r
  <2> QED BY Zenon, <2>7, <2>8, <2>9
<1>4. N \in B
  <2> HIDE DEF B
  <2>1. \A n \in 0..N : n \in B
    BY Zenon, <1>0, <1>2, <1>3, CountingUp
  <2> QED BY Zenon, <1>0, <2>1
<1> DEFINE r == f[N]
<1>5. /\ r.thrown => r.size > Len(local_value)
      /\ ~ r.thrown => i <= r.size /\ r.value[i] = local_value[i]
  BY Zenon, <1>4 DEF N
<1>6. r \in Merges
  BY Zenon, <1>0, <1>1 DEF Fusion, N
<1>7. Merged(start) = r
  BY Zenon, <1>0 DEF Merged, f, N
<1> HIDE DEF r
<1>8. i <= r.size
  <2>1. r.size \in Nat /\ r.thrown \in BOOLEAN
    BY <1>6 DEF Merges
  <2> QED BY <1>5, <2>1
<1> QED BY Zenon, <1>5, <1>7, <1>8 DEF Retains

\* The converse of KeptTurn.
LEMMA KeptAlso ==
  ASSUME NEW ps, NEW n \in Nat \ {0}, NEW i,
         Covers(ps[n], i) \/ (KeptBy(ps, n - 1, i) /\ ~ Cuts(ps[n], i))
  PROVE  KeptBy(ps, n, i)
<1>1. CASE Covers(ps[n], i)
  <2>1. n \in 1..n /\ \A k \in 1..n : ~ (k > n)
    OBVIOUS
  <2> QED BY Zenon, <1>1, <2>1 DEF KeptBy
<1>2. CASE KeptBy(ps, n - 1, i) /\ ~ Cuts(ps[n], i)
  <2>1. PICK m \in 1..(n - 1) : Covers(ps[m], i) /\ \A k \in 1..(n - 1) : k > m => ~ Cuts(ps[k], i)
    BY Zenon, <1>2 DEF KeptBy
  <2>2. m \in 1..n /\ \A k \in 1..n : k \in 1..(n - 1) \/ k = n
    OBVIOUS
  <2> QED BY Zenon, <1>2, <2>1, <2>2 DEF KeptBy
<1> QED BY Zenon, <1>1, <1>2

\* No update is a truncation, and the local value has all that was written.
Whole ==
  \A n \in 1..Len(patches) : /\ ~ patches[n].truncate
                             /\ patches[n].offset + Len(patches[n].data) <= Len(local_value)

\* r is what merging makes of a stored value that the updates turn into v, as far as
\* byte i is not one of theirs.
Agrees(r, v, n, i) ==
  /\ ~ r.thrown /\ r.size = Len(v) /\ Len(r.value) = Capacity
  /\ ~ KeptBy(patches, n, i) => /\ i <= Len(v) => r.value[i] = v[i]
                                /\ i > Len(v) => r.value[i] = "NUL"

\* The other bytes are those of the stored value with the updates applied.
LEMMA MergedAgrees ==
  ASSUME Logged, Written, Whole, NEW v \in Text, Len(v) <= Capacity, Len(local_value) \in Nat,
         NEW start \in Merges, start.value = Resize(v, Capacity), start.size = Len(v), ~ start.thrown,
         NEW i \in 1..Capacity
  PROVE  Agrees(Merged(start), Patched(v), Len(patches), i)
<1> DEFINE N == Len(patches)
           f == Merging(start)
           g == Patching(v, patches)
           B == {n \in 0..N : Agrees(f[n], g[n], n, i)}
<1>0. /\ N \in Nat /\ N \in 0..N /\ 0 \in 0..N /\ Len(updates) = N
      /\ patches \in Seq(Patches) /\ \A n \in 1..N : patches[n] \in Patches
  BY DEF Logged
<1>1. Fusion(f, start) /\ Application(g, v, patches)
  BY Zenon, <1>0, MergingIs, PatchingIs
<1>c. Capacity \in Nat /\ Len(v) \in Nat
  BY BlockAssumption DEF Text
<1> HIDE DEF f, g, N
<1>2. 0 \in B
  <2>1. f[0] = start /\ g[0] = v
    BY Zenon, <1>1 DEF Fusion, Application
  <2>2. /\ Len(Resize(v, Capacity)) = Capacity
        /\ \A j \in 1..Capacity : Resize(v, Capacity)[j] = IF j <= Len(v) THEN v[j] ELSE "NUL"
    BY Zenon, <1>c, ResizeIs
  <2>3. i > Len(v) => ~ (i <= Len(v))
    BY <1>c
  <2>4. Agrees(start, v, 0, i)
    BY Zenon, <2>2, <2>3 DEF Agrees
  <2> QED BY Zenon, <1>0, <2>1, <2>4
<1>3. ASSUME NEW n \in 1..N, n - 1 \in B PROVE n \in B
  <2> DEFINE p == patches[n]
             m == f[n - 1]
             r == f[n]
             x == g[n - 1]
             y == g[n]
  <2>1. n - 1 \in 0..N /\ n \in 0..N /\ n \in Nat \ {0}
    BY <1>0
  <2>2. m \in Merges /\ r \in Merges /\ p \in Patches /\ IsMerged(r, m, p)
    BY Zenon, <1>0, <1>1, <2>1 DEF Fusion, N
  <2>3. x \in Text /\ y \in Text /\ y = Patch(x, p)
    BY Zenon, <1>1, <2>1 DEF Application, N
  <2>4. IsPatched(y, x, p)
    BY Zenon, <2>2, <2>3, PatchIs
  <2>5. ~ p.truncate /\ p.offset + Len(p.data) <= Len(local_value)
    BY Zenon DEF Whole, N
  <2>6. ~ KeptBy(patches, n, i) => ~ Covers(p, i) /\ ~ KeptBy(patches, n - 1, i)
    <3>1. ~ Cuts(p, i)
      BY Zenon, <2>5 DEF Cuts
    <3> QED BY Zenon, <2>1, <3>1, KeptAlso
  <2>7. Agrees(m, x, n - 1, i)
    BY Zenon, <1>3
  <2> SUFFICES Agrees(r, y, n, i)
    BY Zenon, <2>1
  <2> HIDE DEF p, m, r, x, y
  <2>8. /\ p.offset \in Nat /\ Len(p.data) \in Nat /\ p.truncate \in BOOLEAN
        /\ m.size \in Nat /\ r.size \in Nat /\ m.thrown \in BOOLEAN /\ r.thrown \in BOOLEAN
        /\ Len(x) \in Nat /\ Len(y) \in Nat /\ (p.truncate <=> Len(p.data) = 0)
    BY SMTT(60), <2>2, <2>3 DEF Patches, Merges, Text
  <2>9. /\ ~ m.thrown /\ m.size = Len(x) /\ Len(m.value) = Capacity
        /\ ~ KeptBy(patches, n - 1, i) => /\ i <= Len(x) => m.value[i] = x[i]
                                          /\ i > Len(x) => m.value[i] = "NUL"
    BY Zenon, <2>7 DEF Agrees
  <2>10. /\ r.size >= p.offset + Len(p.data) /\ r.size >= m.size
         /\ r.size \in {p.offset + Len(p.data), m.size}
         /\ (r.thrown <=> p.offset > Len(local_value))
         /\ Len(r.value) = Len(m.value)
         /\ \A j \in 1..Len(r.value) : ~ Covers(p, j) => r.value[j] = m.value[j]
    BY Zenon, <2>2, <2>5, <2>9 DEF IsMerged
  <2>11. /\ Len(x) <= p.offset + Len(p.data) => Len(y) = p.offset + Len(p.data)
         /\ Len(x) >= p.offset + Len(p.data) => Len(y) = Len(x)
         /\ \A j \in 1..Len(y) : /\ ~ Covers(p, j) /\ j <= Len(x) => y[j] = x[j]
                                 /\ ~ Covers(p, j) /\ j > Len(x) => y[j] = "NUL"
    BY Zenon, <2>4, <2>5 DEF IsPatched
  <2>12. ~ r.thrown
    BY SMTT(60), <2>5, <2>8, <2>10
  <2>13. r.size = Len(y) /\ Len(x) <= Len(y)
    <3>1. /\ r.size >= p.offset + Len(p.data) /\ r.size >= Len(x)
          /\ r.size \in {p.offset + Len(p.data), Len(x)}
          /\ Len(x) <= p.offset + Len(p.data) => Len(y) = p.offset + Len(p.data)
          /\ Len(x) >= p.offset + Len(p.data) => Len(y) = Len(x)
      BY Zenon, <2>9, <2>10, <2>11
    <3> QED BY ZenonT(60), <2>8, <3>1
  <2>14. Len(r.value) = Capacity
    BY Zenon, <2>9, <2>10
  <2>15. ASSUME ~ KeptBy(patches, n, i)
         PROVE  /\ i <= Len(y) => r.value[i] = y[i]
                /\ i > Len(y) => r.value[i] = "NUL"
    <3>1. /\ ~ Covers(p, i)
          /\ i <= Len(x) => m.value[i] = x[i]
          /\ i > Len(x) => m.value[i] = "NUL"
      BY Zenon, <2>6, <2>9, <2>15
    <3>2. r.value[i] = m.value[i]
      BY Zenon, <2>10, <2>14, <3>1
    <3>3. i <= Len(y) => i \in 1..Len(y)
      BY <2>8
    <3>4. i <= Len(y) => /\ i <= Len(x) => y[i] = x[i]
                         /\ i > Len(x) => y[i] = "NUL"
      BY Zenon, <2>11, <3>1, <3>3
    <3>5. (i <= Len(x) \/ i > Len(x)) /\ (i > Len(y) => i > Len(x))
      BY SMTT(60), <2>8, <2>13
    <3> QED BY Zenon, <3>1, <3>2, <3>4, <3>5
  <2> QED BY Zenon, <2>12, <2>13, <2>14, <2>15 DEF Agrees
<1>4. N \in B
  <2> HIDE DEF B
  <2>1. \A n \in 0..N : n \in B
    BY Zenon, <1>0, <1>2, <1>3, CountingUp
  <2> QED BY Zenon, <1>0, <2>1
<1>5. Merged(start) = f[N] /\ Patched(v) = g[N]
  BY Zenon, <1>0 DEF Merged, Patched, f, g, N
<1> QED BY Zenon, <1>4, <1>5 DEF N

-----------------------------------------------------------------------------
(***************************************************************************)
(* The invariant: what has been written is in memory.                      *)
(***************************************************************************)

\* The strings that fit into a block.
Strings == {s \in Text : Len(s) <= Capacity}

\* A string in memory, or none.
Pointer == Strings \cup {Null}

\* A pointer that is not null points to a string.
LEMMA NullIsNoText ==
  /\ Null \notin Text /\ Len(Null) = 1 /\ Null \notin Strings
<1>1. "null" \notin Byte
  BY BlockAssumption DEF Byte
<1>2. ASSUME Null \in Text PROVE FALSE
  <2>1. Null[1] = "null" /\ Len(Null) = 1
    BY DEF Null
  <2>2. Null[1] \in Byte
    BY <1>2, <2>1 DEF Text
  <2> QED BY Zenon, <1>1, <2>1, <2>2
<1>3. Len(Null) = 1
  BY DEF Null
<1> QED BY Zenon, <1>2, <1>3 DEF Strings

\* Strings of the same bytes are the same.
LEMMA TextEqual ==
  ASSUME NEW s \in Text, NEW t \in Text, Len(s) = Len(t), \A i \in 1..Len(s) : s[i] = t[i]
  PROVE  s = t
BY DEF Text

\* Byte i of the value v is in memory, as l with the size z.
InMemory(l, z, v, i) == l # Null /\ i <= z /\ i <= Len(l) /\ l[i] = v[i]

\* What the variables may hold.
Typed ==
  /\ stored.value \in Strings /\ base \in Strings
  /\ value_size \in Nat /\ value_size <= Capacity
  /\ local_value \in Pointer /\ remote_value \in Pointer

\* All that has been written and not been cut off is in memory.
AllKept ==
  \A i \in 1..Capacity :
    KeptBy(patches, Len(patches), i) => InMemory(local_value, value_size, Patched(base), i)

BlockInv == Typed /\ Logged /\ Written /\ AllKept

\* What is in memory fits into a block.
LEMMA StringsAre ==
  /\ Capacity \in Nat /\ Capacity >= 1 /\ <<>> \in Strings
  /\ \A s \in Pointer : Len(s) \in Nat /\ Len(s) <= Capacity
  /\ \A s \in Pointer : s # Null => s \in Strings /\ s \in Text
<1>1. Capacity \in Nat /\ Capacity >= 1
  BY BlockAssumption
<1>2. <<>> \in Strings
  BY <1>1 DEF Strings, Text
<1>3. \A s \in Strings : s \in Text /\ Len(s) \in Nat /\ Len(s) <= Capacity
  BY <1>1 DEF Strings, Text
<1>4. Len(Null) \in Nat /\ Len(Null) <= Capacity
  BY <1>1, NullIsNoText
<1> QED BY Zenon, <1>1, <1>2, <1>3, <1>4 DEF Pointer

\* Nothing is changed by no updates.
LEMMA NoPatches ==
  ASSUME NEW v \in Text
  PROVE  Patching(v, <<>>)[Len(<<>>)] = v
<1>1. <<>> \in Seq(Patches) /\ Len(<<>>) = 0
  OBVIOUS
<1> QED BY Zenon, <1>1, PatchingIs DEF Application

\* There are as many updates as the history says.
LEMMA EmptyLog ==
  ASSUME Logged
  PROVE  updates = <<>> <=> patches = <<>>
BY DEF Logged

\* What getRemoteValue starts to merge from.
LEMMA StartIs ==
  ASSUME Typed, NEW v \in Text, NEW z \in Nat, z <= Capacity
  PROVE  [value |-> Resize(v, Capacity), size |-> z, thrown |-> FALSE] \in Merges
<1>1. Resize(v, Capacity) \in Text /\ Len(Resize(v, Capacity)) = Capacity
  BY Zenon, StringsAre, ResizeIs
<1>2. Len(local_value) <= Capacity /\ Capacity <= Capacity
  <2>1. Len(local_value) <= Capacity
    BY Zenon, StringsAre DEF Typed
  <2> QED BY <2>1, StringsAre
<1> HIDE DEF Merges
<1> QED BY <1>1, <1>2 DEF Merges

\* Merging gets a proper value, and keeps what has been written, whatever the new
\* base is.
LEMMA GotMerged ==
  ASSUME BlockInv, NEW start \in Merges, ~ start.thrown, NEW b \in Text
  PROVE  LET r == Merged(start)
             v == Patching(b, patches)[Len(patches)]
         IN  /\ r \in Merges
             /\ \A i \in 1..Capacity : KeptBy(patches, Len(patches), i) =>
                  /\ InMemory(local_value, r.size, v, i)
                  /\ ~ r.thrown => InMemory(r.value, r.size, v, i)
<1> DEFINE r == Merged(start)
           v == Patching(b, patches)[Len(patches)]
<1>0. Typed /\ Logged /\ Written /\ AllKept
  BY Zenon DEF BlockInv
<1>1. r \in Merges
  <2>1. Fusion(Merging(start), start)
    BY Zenon, <1>0, MergingIs
  <2>2. Len(updates) = Len(patches) /\ Len(patches) \in 0..Len(patches)
    BY <1>0 DEF Logged
  <2> QED BY Zenon, <2>1, <2>2 DEF Merged, Fusion
<1>2. ASSUME NEW i \in 1..Capacity, KeptBy(patches, Len(patches), i)
      PROVE  /\ InMemory(local_value, r.size, v, i)
             /\ ~ r.thrown => InMemory(r.value, r.size, v, i)
  <2>1. InMemory(local_value, value_size, Patched(base), i)
    BY Zenon, <1>0, <1>2 DEF AllKept
  <2>2. local_value # Null /\ i <= Len(local_value) /\ local_value[i] = Patched(base)[i]
    BY Zenon, <2>1 DEF InMemory
  <2>3. Len(local_value) \in Nat /\ Capacity \in Nat
    BY Zenon, <1>0, StringsAre DEF Typed
  <2>4. i \in 1..Len(local_value) /\ i \in Nat \ {0}
    BY <2>2, <2>3
  <2>5. Retains(r, i)
    BY Zenon, <1>0, <1>2, <2>3, <2>4, MergedKept
  <2>6. Same(Patched(base), v, i)
    <3>1. base \in Text /\ patches \in Seq(Patches)
      BY Zenon, <1>0 DEF Typed, Strings, Logged
    <3> QED BY Zenon, <1>2, <2>4, <3>1, PatchingKept DEF Patched
  <2>7. local_value[i] = v[i] /\ i <= r.size
    BY Zenon, <2>2, <2>5, <2>6 DEF Same, Retains
  <2>8. ~ r.thrown => r.value[i] = v[i]
    BY Zenon, <2>5, <2>7 DEF Retains
  <2> HIDE DEF r, v
  <2>9. r.value \in Text /\ Len(local_value) <= Len(r.value) /\ Len(r.value) \in Nat
    BY <1>1 DEF Merges, Text
  <2>10. i <= Len(r.value)
    BY <2>3, <2>4, <2>9
  <2>11. r.value # Null
    BY Zenon, <2>9, NullIsNoText
  <2> QED BY Zenon, <2>2, <2>7, <2>8, <2>10, <2>11 DEF InMemory
<1> QED BY Zenon, <1>1, <1>2

\* The memory after merging from start.
Outcome(start) ==
  LET r == Merged(start)
  IN  /\ value_size' = r.size
      /\ \/ r.thrown /\ local_value' = local_value /\ remote_value' \in Pointer
         \/ ~ r.thrown /\ local_value' = r.value /\ remote_value' = Null

\* getRemoteValue with updates merges them, unless there is nothing to merge into.
LEMMA GetMerges ==
  ASSUME Typed, updates # <<>>, NEW throws, Found(throws) \/ (Gone(throws) /\ remote_value # Null)
  PROVE  \E start \in Merges : ~ start.thrown /\ Outcome(start)
<1>0. stored.value \in Strings /\ value_size \in Nat /\ value_size <= Capacity /\ remote_value \in Pointer
  BY Zenon DEF Typed
<1>1. CASE Found(throws)
  <2> DEFINE s == [value |-> Resize(stored.value, Capacity), size |-> Len(stored.value), thrown |-> FALSE]
  <2>1. stored.value \in Text /\ Len(stored.value) \in Nat /\ Len(stored.value) <= Capacity
        /\ stored.value \in Pointer
    BY Zenon, <1>0, StringsAre DEF Strings, Pointer
  <2>2. s \in Merges /\ ~ s.thrown
    <3>1. s \in Merges
      BY Zenon, <2>1, StartIs
    <3>2. s.thrown = FALSE
      OBVIOUS
    <3> QED BY Zenon, <3>1, <3>2
  <2>3. Outcome(s)
    <3>1. /\ value_size' = Merged(s).size
          /\ IF Merged(s).thrown THEN remote_value' = stored.value /\ local_value' = local_value
                                 ELSE remote_value' = Null /\ local_value' = Merged(s).value
      BY Zenon, <1>1 DEF Found
    <3> HIDE DEF s
    <3> QED BY Zenon, <2>1, <3>1 DEF Outcome
  <2> QED BY Zenon, <2>2, <2>3
<1>2. CASE Gone(throws) /\ remote_value # Null
  <2> DEFINE s == [value |-> Resize(remote_value, Capacity), size |-> value_size, thrown |-> FALSE]
  <2>1. remote_value \in Text
    BY Zenon, <1>0, <1>2, StringsAre
  <2>2. s \in Merges /\ ~ s.thrown
    <3>1. s \in Merges
      BY Zenon, <1>0, <2>1, StartIs
    <3>2. s.thrown = FALSE
      OBVIOUS
    <3> QED BY Zenon, <3>1, <3>2
  <2>3. Outcome(s)
    <3>1. /\ value_size' = Merged(s).size
          /\ IF Merged(s).thrown THEN remote_value' = remote_value /\ local_value' = local_value
                                 ELSE remote_value' = Null /\ local_value' = Merged(s).value
      BY Zenon, <1>2 DEF Gone
    <3> HIDE DEF s
    <3> QED BY Zenon, <1>0, <3>1 DEF Outcome
  <2> QED BY Zenon, <2>2, <2>3
<1> QED BY Zenon, <1>1, <1>2

\* What getRemoteValue leaves alone.
LEMMA GetLeaves ==
  ASSUME NEW throws, getRemoteValue(throws)
  PROVE  /\ Found(throws) \/ Gone(throws)
         /\ updates' = updates /\ patches' = patches /\ base' = stored.value
BY Zenon DEF getRemoteValue

\* Getting the value keeps what has been written.
LEMMA GetKeeps ==
  ASSUME BlockInv, NEW throws, getRemoteValue(throws), stored' = stored
  PROVE  BlockInv'
<1> DEFINE v == Patching(stored.value, patches)[Len(patches)]
<1>0. Typed /\ Logged /\ Written /\ AllKept
  BY Zenon DEF BlockInv
<1>1. /\ Found(throws) \/ Gone(throws)
      /\ updates' = updates /\ patches' = patches /\ base' = stored.value
  BY Zenon, GetLeaves
<1>2. Patched(base)' = v
  BY Zenon, <1>1 DEF Patched
<1>3. Logged'
  BY Zenon, <1>0, <1>1 DEF Logged
<1>4. stored.value \in Strings /\ stored.value \in Text /\ stored.value \in Pointer /\ Null \in Pointer
      /\ Len(stored.value) \in Nat /\ Len(stored.value) <= Capacity
  BY Zenon, <1>0, StringsAre DEF Typed, Strings, Pointer
<1> DEFINE Good == value_size' \in Nat /\ value_size' <= Capacity
                   /\ local_value' \in Pointer /\ remote_value' \in Pointer
           Held == \A i \in 1..Capacity : KeptBy(patches, Len(patches), i) =>
                     InMemory(local_value', value_size', v, i)
<1>5. SUFFICES Good /\ Held /\ Written'
  <2>1. Good => Typed'
    BY Zenon, <1>1, <1>4 DEF Typed
  <2>2. Held => AllKept'
    <3> HIDE DEF v
    <3> QED BY Zenon, <1>1, <1>2 DEF AllKept
  <2> HIDE DEF Good, Held
  <2> QED BY Zenon, <1>3, <1>5, <2>1, <2>2 DEF BlockInv
<1>6. CASE updates = <<>>
  <2>1. patches = <<>>
    BY Zenon, <1>0, <1>6, EmptyLog
  <2>2. Len(patches) = 0 /\ 1..Len(patches) = {}
    BY <2>1
  <2>3. Written' /\ Held
    BY Zenon, <1>1, <2>2, KeptNone DEF Written
  <2>4. Good
    <3>1. /\ local_value' = Null
          /\ \/ remote_value' = stored.value /\ value_size' = Len(stored.value)
             \/ remote_value' = remote_value /\ value_size' = value_size
      BY Zenon, <1>1, <1>6 DEF Found, Gone
    <3> QED BY Zenon, <1>0, <1>4, <3>1 DEF Typed
  <2> QED BY Zenon, <2>3, <2>4
<1>7. CASE updates # <<>> /\ (Found(throws) \/ (Gone(throws) /\ remote_value # Null))
  <2>1. PICK start \in Merges : ~ start.thrown /\ Outcome(start)
    BY Zenon, <1>0, <1>7, GetMerges
  <2> DEFINE r == Merged(start)
  <2>2. /\ r \in Merges
        /\ \A i \in 1..Capacity : KeptBy(patches, Len(patches), i) =>
             /\ InMemory(local_value, r.size, v, i)
             /\ ~ r.thrown => InMemory(r.value, r.size, v, i)
    BY Zenon, <1>4, <2>1, GotMerged
  <2>3. /\ value_size' = r.size
        /\ \/ r.thrown /\ local_value' = local_value /\ remote_value' \in Pointer
           \/ ~ r.thrown /\ local_value' = r.value /\ remote_value' = Null
    BY Zenon, <2>1 DEF Outcome
  <2> HIDE DEF r, v
  <2>4. r.value \in Text /\ r.value \in Pointer /\ r.size \in Nat /\ r.size <= Capacity
    BY <2>2 DEF Merges, Pointer, Strings
  <2>5. Held
    BY Zenon, <2>2, <2>3
  <2>6. Good
    BY Zenon, <1>0, <1>4, <2>3, <2>4 DEF Typed
  <2>7. Written'
    BY Zenon, <1>0, <1>1, <2>3, <2>4 DEF Written
  <2> HIDE DEF Good, Held
  <2> QED BY Zenon, <2>5, <2>6, <2>7
<1>8. CASE updates # <<>> /\ Gone(throws) /\ remote_value = Null
  <2>1. local_value' = local_value /\ remote_value' = remote_value /\ value_size' = value_size
    BY Zenon, <1>8 DEF Gone
  <2>2. Good /\ Written'
    BY Zenon, <1>0, <1>1, <2>1 DEF Typed, Written
  <2>3. ASSUME NEW i \in 1..Capacity, KeptBy(patches, Len(patches), i)
        PROVE  InMemory(local_value', value_size', v, i)
    <3>1. InMemory(local_value, value_size, Patched(base), i)
      BY Zenon, <1>0, <2>3 DEF AllKept
    <3>2. Same(Patched(base), v, i)
      <4>1. base \in Text /\ patches \in Seq(Patches)
        BY Zenon, <1>0 DEF Typed, Strings, Logged
      <4>2. i \in Nat \ {0}
        BY StringsAre
      <4> QED BY Zenon, <1>4, <2>3, <4>1, <4>2, PatchingKept DEF Patched
    <3> HIDE DEF v
    <3> QED BY Zenon, <2>1, <3>1, <3>2 DEF InMemory, Same
  <2> HIDE DEF v
  <2> QED BY Zenon, <2>2, <2>3
<1> HIDE DEF Good, Held
<1> QED BY Zenon, <1>1, <1>6, <1>7, <1>8

-----------------------------------------------------------------------------
(***************************************************************************)
(* write and truncate.                                                     *)
(***************************************************************************)

\* One more update is logged.
LEMMA LogAppend ==
  ASSUME Logged, NEW p \in Patches, patches' = Append(patches, p),
         updates' = Append(updates, <<p.offset, Len(p.data)>>), base \in Text, base' = base
  PROVE  /\ Logged'
         /\ Len(patches') = Len(patches) + 1 /\ Len(patches) \in Nat /\ patches'[Len(patches) + 1] = p
         /\ \A n \in 1..Len(patches) : patches'[n] = patches[n]
         /\ Patched(base)' = Patch(Patched(base), p) /\ Patched(base) \in Text
         /\ \A i : KeptBy(patches', Len(patches'), i) =>
              Covers(p, i) \/ (KeptBy(patches, Len(patches), i) /\ ~ Cuts(p, i))
<1> DEFINE N == Len(patches)
           u == <<p.offset, Len(p.data)>>
<1>1. patches \in Seq(Patches) /\ updates \in Seq(Nat \X Nat) /\ Len(updates) = N
  BY Zenon DEF Logged
<1>2. u \in Nat \X Nat
  BY DEF Patches, Text
<1>3. /\ patches' \in Seq(Patches) /\ Len(patches') = N + 1 /\ N \in Nat
      /\ patches'[N + 1] = p /\ \A n \in 1..N : patches'[n] = patches[n]
  BY <1>1, AppendIs
<1>4. /\ updates' \in Seq(Nat \X Nat) /\ Len(updates') = N + 1
      /\ updates'[N + 1] = u /\ \A n \in 1..N : updates'[n] = updates[n]
  <2> HIDE DEF u
  <2> QED BY <1>1, <1>2, AppendIs DEF u
<1>5. Logged'
  <2>1. ASSUME NEW n \in 1..(N + 1)
        PROVE  updates'[n] = <<patches'[n].offset, Len(patches'[n].data)>>
    <3>1. CASE n = N + 1
      BY Zenon, <1>3, <1>4, <3>1
    <3>2. CASE n # N + 1
      <4>1. n \in 1..N
        BY <1>3, <3>2
      <4>2. updates[n] = <<patches[n].offset, Len(patches[n].data)>>
        BY Zenon, <4>1 DEF Logged
      <4> QED BY Zenon, <1>3, <1>4, <4>1, <4>2
    <3> QED BY Zenon, <3>1, <3>2
  <2> HIDE DEF N, u
  <2> QED BY Zenon, <1>3, <1>4, <2>1 DEF Logged
<1>6. Patched(base)' = Patch(Patched(base), p)
  BY Zenon, <1>1, PatchingAppend DEF Patched
<1>7. Patched(base) \in Text
  <2>1. N \in 0..N
    BY <1>3
  <2> QED BY Zenon, <1>1, <2>1, PatchingIs DEF Application, Patched
<1>8. ASSUME NEW i, KeptBy(patches', Len(patches'), i)
      PROVE  Covers(p, i) \/ (KeptBy(patches, N, i) /\ ~ Cuts(p, i))
  <2>1. KeptBy(patches', N + 1, i) /\ N + 1 \in Nat \ {0} /\ (N + 1) - 1 = N
    BY <1>3, <1>8
  <2>2. Covers(p, i) \/ (KeptBy(patches', N, i) /\ ~ Cuts(p, i))
    BY Zenon, <1>3, <2>1, KeptTurn
  <2>3. KeptBy(patches', N, i) => KeptBy(patches, N, i)
    <3>1. \A n \in 1..N : patches[n] = patches'[n]
      BY Zenon, <1>3
    <3> HIDE DEF N
    <3> QED BY Zenon, <3>1, KeptSame
  <2> QED BY Zenon, <2>2, <2>3
<1> QED BY Zenon, <1>3, <1>5, <1>6, <1>7, <1>8

\* The string that write starts from.
Start ==
  IF local_value # Null THEN local_value
  ELSE IF remote_value # Null THEN remote_value ELSE Fill("0", Capacity)

\* An argument of write.
Fits(offset, length, b) == offset \in Nat /\ length \in Nat \ {0} /\ offset + length <= Capacity /\ b \in Letters

\* The update that a write is.
Update(offset, length, b) == [truncate |-> FALSE, offset |-> offset, data |-> Fill(b, length)]

\* What a write is in the history.
LEMMA UpdateIs ==
  ASSUME NEW offset, NEW length, NEW b, Fits(offset, length, b)
  PROVE  LET p == Update(offset, length, b)
         IN  /\ p \in Patches /\ ~ p.truncate /\ p.offset = offset /\ Len(p.data) = length
             /\ \A i \in 1..length : p.data[i] = b
             /\ \A i : Covers(p, i) <=> offset < i /\ i <= offset + length
<1> DEFINE p == Update(offset, length, b)
           d == Fill(b, length)
<1>0. /\ offset \in Nat /\ length \in Nat /\ length # 0 /\ offset + length <= Capacity /\ b \in Byte
  BY DEF Fits, Byte
<1>1. d \in Text /\ Len(d) = length /\ \A i \in 1..length : d[i] = b
  BY Zenon, <1>0, FillIs
<1> HIDE DEF d
<1>2. p = [truncate |-> FALSE, offset |-> offset, data |-> d]
  BY Zenon DEF Update, d
<1>3. p.truncate = FALSE /\ p.offset = offset /\ p.data = d
  BY <1>2
<1>4. p \in Patches
  BY <1>0, <1>1, <1>2 DEF Patches
<1> HIDE DEF p
<1>5. ~ p.truncate
  BY Zenon, <1>3
<1>6. \A i : Covers(p, i) <=> offset < i /\ i <= offset + length
  BY Zenon, <1>1, <1>3 DEF Covers
<1> QED BY Zenon, <1>1, <1>3, <1>4, <1>5, <1>6 DEF p

\* What write leaves in memory.
WriteIn(offset, length, b) ==
  /\ local_value' \in Strings
  /\ value_size' \in Nat /\ value_size' <= Len(local_value')
  /\ value_size' \in {offset + length, value_size}
  /\ value_size' >= offset + length /\ value_size' >= value_size
  /\ \A i \in 1..Len(local_value') : offset < i /\ i <= offset + length => local_value'[i] = b
  /\ \A i \in 1..Len(Start) :
       i <= Len(local_value') /\ (~ (offset < i /\ i <= offset + length) => local_value'[i] = Start[i])

\* write leaves just that in memory.
LEMMA WriteIs ==
  ASSUME Typed, NEW offset, NEW length, NEW b, Fits(offset, length, b), write(offset, length, b)
  PROVE  WriteIn(offset, length, b)
<1> DEFINE size == IF offset + length >= value_size THEN offset + length ELSE value_size
           value == IF size > Len(Start) THEN Resize(Start, Capacity) ELSE Start
           d == Fill(b, length)
           l == local_value'
<1>0. /\ offset \in Nat /\ length \in Nat /\ length # 0 /\ offset + length <= Capacity /\ b \in Byte
      /\ value_size \in Nat /\ value_size <= Capacity /\ Capacity \in Nat
  BY StringsAre DEF Fits, Byte, Typed
<1>1. Start \in Text /\ Len(Start) \in Nat /\ Len(Start) <= Capacity
  <2>1. Fill("0", Capacity) \in Text /\ Len(Fill("0", Capacity)) = Capacity
    <3>1. "0" \in Byte
      BY DEF Byte
    <3> QED BY Zenon, <1>0, <3>1, FillIs
  <2>2. Len(Fill("0", Capacity)) <= Capacity
    BY <1>0, <2>1
  <2> QED BY Zenon, <1>0, <2>1, <2>2, StringsAre DEF Start, Typed
<1>2. size \in Nat /\ size <= Capacity /\ size >= offset + length /\ size >= value_size
      /\ size \in {offset + length, value_size}
  BY <1>0
<1>3. Max({offset + length, value_size}) = size
  BY <1>0, MinMax
<1>4. value_size' = size /\ l = Replace(value, offset, length, d)
  <2> HIDE DEF size, d
  <2> QED BY Zenon, <1>3 DEF write, Start, d
<1>5. d \in Text /\ Len(d) = length /\ \A i \in 1..length : d[i] = b
  BY Zenon, <1>0, FillIs
<1> HIDE DEF size, d, l
<1>6. /\ value \in Text /\ Len(value) \in Nat /\ Len(value) <= Capacity /\ size <= Len(value)
      /\ Len(Start) <= Len(value) /\ \A i \in 1..Len(Start) : value[i] = Start[i]
  <2>1. CASE size > Len(Start)
    <3>1. value = Resize(Start, Capacity)
      BY Zenon, <2>1
    <3>2. /\ Resize(Start, Capacity) \in Text /\ Len(Resize(Start, Capacity)) = Capacity
          /\ \A i \in 1..Capacity : Resize(Start, Capacity)[i] = IF i <= Len(Start) THEN Start[i] ELSE "NUL"
      BY Zenon, <1>0, <1>1, ResizeIs
    <3> HIDE DEF value
    <3>3. \A i \in 1..Len(Start) : i \in 1..Capacity /\ i <= Len(Start)
      BY <1>0, <1>1
    <3>4. \A i \in 1..Len(Start) : value[i] = Start[i]
      BY Zenon, <3>1, <3>2, <3>3
    <3> QED BY SMTT(60), <1>0, <1>1, <1>2, <3>1, <3>2, <3>4
  <2>2. CASE ~ (size > Len(Start))
    <3>1. value = Start
      BY Zenon, <2>2
    <3>2. size <= Len(Start) /\ Len(Start) <= Len(Start)
      BY <1>1, <1>2, <2>2
    <3> QED BY Zenon, <1>1, <3>1, <3>2
  <2> QED BY Zenon, <2>1, <2>2
<1> HIDE DEF value
<1>7. Replaced(l, value, offset, length, d)
  <2>1. offset <= Len(value)
    BY <1>0, <1>2, <1>6
  <2> QED BY Zenon, <1>0, <1>4, <1>5, <1>6, <2>1, ReplaceIs
<1>8. l \in Text /\ Len(l) = Len(value)
  <2>1. l \in Text /\ Len(l) = offset + Len(d) + IF offset + length <= Len(value) THEN Len(value) - (offset + length) ELSE 0
    BY Zenon, <1>7 DEF Replaced
  <2>2. offset + length <= Len(value) /\ Len(d) = length /\ Len(value) \in Nat
    BY <1>0, <1>2, <1>5, <1>6
  <2>3. Len(l) = offset + length + (Len(value) - (offset + length))
    BY Zenon, <2>1, <2>2
  <2> QED BY <1>0, <2>1, <2>2, <2>3
<1>9. ASSUME NEW i \in 1..Len(l)
      PROVE  /\ offset < i /\ i <= offset + length => l[i] = b
             /\ ~ (offset < i /\ i <= offset + length) => l[i] = value[i]
  <2>1. /\ i <= offset => l[i] = value[i]
        /\ i > offset /\ i <= offset + Len(d) => l[i] = d[i - offset]
        /\ i > offset + Len(d) => l[i] = value[(i - Len(d)) + length]
    BY Zenon, <1>7 DEF Replaced
  <2>2. i \in Nat /\ Len(d) = length
    BY <1>5, <1>6, <1>8
  <2>3. CASE offset < i /\ i <= offset + length
    <3>1. i - offset \in 1..length
      BY <1>0, <2>2, <2>3
    <3>2. d[i - offset] = b
      BY Zenon, <1>5, <3>1
    <3> QED BY ZenonT(60), <1>0, <2>1, <2>2, <2>3, <3>2
  <2>4. CASE ~ (offset < i /\ i <= offset + length)
    <3>1. (i - length) + length = i
      BY <1>0, <2>2
    <3> QED BY <1>0, <2>1, <2>2, <2>4, <3>1
  <2> QED BY Zenon, <2>3, <2>4
<1>10. \A i \in 1..Len(Start) : i \in 1..Len(l) /\ i <= Len(l)
  BY <1>1, <1>6, <1>8
<1>11. l \in Strings
  BY Zenon, <1>6, <1>8 DEF Strings
<1> QED BY Zenon, <1>2, <1>4, <1>6, <1>8, <1>9, <1>10, <1>11 DEF WriteIn, l

\* Steps that leave the memory and the log alone.
LEMMA SameBlock ==
  ASSUME BlockInv, stored'.value \in Strings,
         base' = base /\ value_size' = value_size /\ local_value' = local_value,
         remote_value' = remote_value /\ updates' = updates /\ patches' = patches
  PROVE  BlockInv'
<1>1. Typed'
  BY Zenon DEF BlockInv, Typed
<1>2. Logged' /\ Written'
  BY Zenon DEF BlockInv, Logged, Written
<1>3. AllKept'
  <2>1. Patched(base)' = Patched(base)
    BY Zenon DEF Patched
  <2> QED BY Zenon, <2>1 DEF BlockInv, AllKept
<1> QED BY Zenon, <1>1, <1>2, <1>3 DEF BlockInv

\* A write is kept, and so is what was.
LEMMA WriteKeeps ==
  ASSUME BlockInv, NEW offset, NEW length, NEW b, Fits(offset, length, b), write(offset, length, b)
  PROVE  BlockInv'
<1> DEFINE p == Update(offset, length, b)
           v == Patched(base)
<1>0. Typed /\ Logged /\ Written /\ AllKept
  BY Zenon DEF BlockInv
<1>1. /\ stored' = stored /\ base' = base /\ patches' = Append(patches, p)
      /\ updates' = Append(updates, <<offset, length>>)
      /\ remote_value' \in {Null, remote_value}
  BY Zenon DEF write, Update, Remember
<1>2. WriteIn(offset, length, b)
  BY Zenon, <1>0, WriteIs
<1>3. /\ p \in Patches /\ ~ p.truncate /\ p.offset = offset /\ Len(p.data) = length
      /\ \A i \in 1..length : p.data[i] = b
      /\ \A i : Covers(p, i) <=> offset < i /\ i <= offset + length
  BY Zenon, UpdateIs
<1> HIDE DEF p
<1>4. base \in Text
  BY Zenon, <1>0 DEF Typed, Strings
<1>5. /\ Logged'
      /\ Patched(base)' = Patch(v, p) /\ v \in Text
      /\ \A i : KeptBy(patches', Len(patches'), i) =>
           Covers(p, i) \/ (KeptBy(patches, Len(patches), i) /\ ~ Cuts(p, i))
  BY Zenon, <1>0, <1>1, <1>3, <1>4, LogAppend
<1>6. /\ local_value' \in Strings /\ local_value' \in Text /\ local_value' # Null
      /\ local_value' \in Pointer /\ Null \in Pointer
      /\ value_size' \in Nat /\ value_size' <= Len(local_value')
      /\ Len(local_value') \in Nat /\ Len(local_value') <= Capacity
  <2>1. local_value' \in Strings /\ value_size' \in Nat /\ value_size' <= Len(local_value')
    BY Zenon, <1>2 DEF WriteIn
  <2>2. local_value' \in Pointer /\ Null \in Pointer
    BY Zenon, <2>1 DEF Pointer
  <2> QED BY Zenon, <2>1, <2>2, NullIsNoText, StringsAre DEF Strings
<1>7. Typed'
  <2>1. value_size' <= Capacity
    BY <1>6, StringsAre
  <2> QED BY Zenon, <1>0, <1>1, <1>6, <2>1 DEF Typed
<1>8. Written'
  BY Zenon, <1>6 DEF Written
<1>9. ASSUME NEW i \in 1..Capacity, KeptBy(patches', Len(patches'), i)
      PROVE  InMemory(local_value', value_size', Patch(v, p), i)
  <2>0. i \in Nat /\ i >= 1 /\ offset \in Nat /\ length \in Nat /\ offset + length \in Nat
    BY StringsAre DEF Fits
  <2>1. IsPatched(Patch(v, p), v, p)
    BY Zenon, <1>3, <1>5, PatchIs
  <2> DEFINE w == Patch(v, p)
  <2> HIDE DEF w, v
  <2>2. /\ w \in Text
        /\ Len(v) <= offset + length => Len(w) = offset + length
        /\ Len(v) >= offset + length => Len(w) = Len(v)
        /\ \A j \in 1..Len(w) : /\ Covers(p, j) => w[j] = p.data[j - offset]
                                /\ ~ Covers(p, j) /\ j <= Len(v) => w[j] = v[j]
    BY Zenon, <1>3, <2>1 DEF IsPatched, w
  <2>3. Len(w) \in Nat /\ Len(v) \in Nat
    BY <1>5, <2>2 DEF Text
  <2>4. value_size' >= offset + length /\ value_size' >= value_size
    BY Zenon, <1>2 DEF WriteIn
  <2>5. CASE Covers(p, i)
    <3>1. offset < i /\ i <= offset + length
      BY Zenon, <1>3, <2>5
    <3>2. i <= value_size' /\ i <= Len(local_value') /\ i \in 1..Len(local_value')
      BY SMTT(60), <1>6, <2>0, <2>4, <3>1
    <3>3. i \in 1..Len(w) /\ i - offset \in 1..length
      BY SMTT(60), <2>0, <2>2, <2>3, <3>1
    <3>4. local_value'[i] = b
      BY Zenon, <1>2, <3>1, <3>2 DEF WriteIn
    <3>5. w[i] = b
      BY Zenon, <1>3, <2>2, <2>5, <3>3
    <3> QED BY Zenon, <1>6, <3>2, <3>4, <3>5 DEF InMemory, w
  <2>6. CASE ~ Covers(p, i)
    <3>1. KeptBy(patches, Len(patches), i)
      BY Zenon, <1>5, <1>9, <2>6
    <3>2. InMemory(local_value, value_size, v, i)
      BY Zenon, <1>0, <3>1 DEF AllKept, v
    <3>3. local_value # Null /\ i <= value_size /\ i <= Len(local_value) /\ local_value[i] = v[i]
      BY Zenon, <3>2 DEF InMemory
    <3>4. Start = local_value
      BY Zenon, <3>3 DEF Start
    <3>5. Len(local_value) \in Nat /\ value_size \in Nat
      BY Zenon, <1>0, StringsAre DEF Typed
    <3>6. i \in 1..Len(Start)
      BY <2>0, <3>3, <3>4, <3>5
    <3>7. ~ (offset < i /\ i <= offset + length)
      BY Zenon, <1>3, <2>6
    <3>8. i <= Len(local_value') /\ local_value'[i] = local_value[i]
      BY Zenon, <1>2, <3>4, <3>6, <3>7 DEF WriteIn
    <3>9. i <= Len(v)
      <4>1. i \in Nat \ {0} /\ patches \in Seq(Patches)
        BY <1>0, <2>0 DEF Logged
      <4>2. Same(v, v, i)
        BY Zenon, <1>4, <3>1, <4>1, PatchingKept DEF Patched, v
      <4> QED BY Zenon, <4>2 DEF Same
    <3>10. i \in 1..Len(w) /\ i <= value_size'
      BY SMTT(60), <1>6, <2>0, <2>2, <2>3, <2>4, <3>3, <3>5, <3>9
    <3>11. w[i] = v[i]
      BY Zenon, <2>2, <2>6, <3>9, <3>10
    <3> QED BY Zenon, <1>6, <3>3, <3>8, <3>10, <3>11 DEF InMemory, w
  <2> QED BY Zenon, <2>5, <2>6
<1>10. AllKept'
  <2> HIDE DEF v
  <2> QED BY Zenon, <1>5, <1>9 DEF AllKept
<1> QED BY Zenon, <1>5, <1>7, <1>8, <1>10 DEF BlockInv

\* A truncation keeps what it does not cut off.
LEMMA TruncateKeeps ==
  ASSUME BlockInv, NEW offset \in 0..Capacity, truncate(offset)
  PROVE  BlockInv'
<1> DEFINE p == [truncate |-> TRUE, offset |-> offset, data |-> <<>>]
           v == Patched(base)
<1>0. Typed /\ Logged /\ Written /\ AllKept
  BY Zenon DEF BlockInv
<1>1. /\ stored' = stored /\ base' = base /\ patches' = Append(patches, p)
      /\ updates' = Append(updates, <<offset, 0>>)
      /\ remote_value' = remote_value /\ local_value' = local_value /\ value_size' = offset
  BY Zenon DEF truncate, Remember
<1>2. /\ offset \in Nat /\ offset <= Capacity
  BY StringsAre
<1>3. p \in Patches /\ p.truncate /\ p.offset = offset /\ Len(p.data) = 0
  <2>1. <<>> \in Text /\ Len(<<>>) = 0
    BY DEF Text
  <2> QED BY <1>2, <2>1, StringsAre DEF Patches
<1> HIDE DEF p
<1>4. base \in Text
  BY Zenon, <1>0 DEF Typed, Strings
<1>5. /\ Logged'
      /\ Len(patches') = Len(patches) + 1 /\ Len(patches) \in Nat /\ patches'[Len(patches) + 1] = p
      /\ \A n \in 1..Len(patches) : patches'[n] = patches[n]
      /\ Patched(base)' = Patch(v, p) /\ v \in Text
      /\ \A i : KeptBy(patches', Len(patches'), i) =>
           Covers(p, i) \/ (KeptBy(patches, Len(patches), i) /\ ~ Cuts(p, i))
  BY Zenon, <1>0, <1>1, <1>3, <1>4, LogAppend
<1>7. Typed'
  BY Zenon, <1>0, <1>1, <1>2 DEF Typed
<1>8. Written'
  <2> SUFFICES ASSUME NEW n \in 1..Len(patches'), ~ patches'[n].truncate PROVE local_value' \in Text
    BY DEF Written
  <2>1. n \in 1..Len(patches) \/ n = Len(patches) + 1
    BY <1>5
  <2> QED BY Zenon, <1>0, <1>1, <1>3, <1>5, <2>1 DEF Written
<1>9. ASSUME NEW i \in 1..Capacity, KeptBy(patches', Len(patches'), i)
      PROVE  InMemory(local_value', value_size', Patch(v, p), i)
  <2>0. i \in Nat /\ i >= 1
    BY StringsAre
  <2>1. ~ Covers(p, i)
    BY Zenon, <1>3 DEF Covers
  <2>2. KeptBy(patches, Len(patches), i) /\ ~ Cuts(p, i)
    BY Zenon, <1>5, <1>9, <2>1
  <2>3. i <= offset
    <3>1. ~ (i > offset)
      BY Zenon, <1>3, <2>2 DEF Cuts
    <3> QED BY <1>2, <2>0, <3>1
  <2>4. InMemory(local_value, value_size, v, i)
    BY Zenon, <1>0, <2>2 DEF AllKept
  <2>5. i <= Len(v)
    <3>1. i \in Nat \ {0} /\ patches \in Seq(Patches)
      BY <1>0, <2>0 DEF Logged
    <3>2. Same(v, v, i)
      BY Zenon, <1>4, <2>2, <3>1, PatchingKept DEF Patched
    <3> QED BY Zenon, <3>2 DEF Same
  <2>6. IsPatched(Patch(v, p), v, p)
    BY Zenon, <1>3, <1>5, PatchIs
  <2> DEFINE w == Patch(v, p)
  <2> HIDE DEF w, v
  <2>7. Len(w) = offset /\ \A j \in 1..Len(w) : ~ Covers(p, j) /\ j <= Len(v) => w[j] = v[j]
    BY Zenon, <1>3, <2>6 DEF IsPatched, w
  <2>8. i \in 1..Len(w)
    BY <1>2, <2>0, <2>3, <2>7
  <2>9. w[i] = v[i]
    BY Zenon, <2>1, <2>5, <2>7, <2>8
  <2> QED BY Zenon, <1>1, <2>3, <2>4, <2>9 DEF InMemory, w
<1>10. AllKept'
  <2> HIDE DEF v
  <2> QED BY Zenon, <1>5, <1>9 DEF AllKept
<1> QED BY Zenon, <1>5, <1>7, <1>8, <1>10 DEF BlockInv

-----------------------------------------------------------------------------
(***************************************************************************)
(* flush, reassign and the steps of other clients.                         *)
(***************************************************************************)

\* An empty sequence has no positions.
LEMMA EmptyRange ==
  Len(<<>>) = 0 /\ 1..Len(<<>>) = {}
OBVIOUS

\* A block without updates keeps all there is to keep.
LEMMA NothingKept ==
  ASSUME Typed', updates' = <<>>, patches' = <<>>
  PROVE  BlockInv'
<1>1. Len(patches') = 0 /\ 1..Len(patches') = {} /\ Len(updates') = Len(patches')
  BY Zenon, EmptyRange
<1>2. patches' \in Seq(Patches) /\ updates' \in Seq(Nat \X Nat)
  OBVIOUS
<1>3. Logged' /\ Written'
  BY Zenon, <1>1, <1>2 DEF Logged, Written
<1>4. AllKept'
  BY Zenon, <1>1, KeptNone DEF AllKept
<1> QED BY Zenon, <1>3, <1>4 DEF BlockInv

\* What flush puts.
LEMMA PutIs ==
  ASSUME Typed
  PROVE  /\ Put \in Strings /\ Put \in Pointer /\ Put \in Text /\ Put # Null
         /\ local_value # Null =>
              /\ Len(Put) = value_size
              /\ \A i \in 1..value_size : i <= Len(local_value) => Put[i] = local_value[i]
         /\ local_value = Null => Put = IF remote_value # Null THEN remote_value ELSE <<>>
<1>0. /\ value_size \in Nat /\ value_size <= Capacity
      /\ local_value \in Pointer /\ remote_value \in Pointer
  BY Zenon DEF Typed
<1>1. CASE local_value # Null
  <2>1. local_value \in Text
    BY Zenon, <1>0, <1>1, StringsAre
  <2>2. /\ Resize(local_value, value_size) \in Text
        /\ Len(Resize(local_value, value_size)) = value_size
        /\ \A i \in 1..value_size : Resize(local_value, value_size)[i] =
             IF i <= Len(local_value) THEN local_value[i] ELSE "NUL"
    BY Zenon, <1>0, <2>1, ResizeIs
  <2>3. Put = Resize(local_value, value_size)
    BY Zenon, <1>1 DEF Put
  <2> QED BY Zenon, <1>0, <1>1, <2>2, <2>3, NullIsNoText DEF Strings, Pointer
<1>2. CASE local_value = Null
  <2>1. Put = IF remote_value # Null THEN remote_value ELSE <<>>
    BY Zenon, <1>2 DEF Put
  <2> QED BY Zenon, <1>0, <1>2, <2>1, StringsAre, NullIsNoText DEF Strings, Pointer
<1> QED BY Zenon, <1>1, <1>2

\* Resizing the value for a put loses nothing that has been written.
LEMMA PreparedKeeps ==
  ASSUME BlockInv, Prepared, stored'.value \in Strings,
         base' = base /\ value_size' = value_size /\ updates' = updates /\ patches' = patches
  PROVE  BlockInv'
<1> DEFINE v == Patched(base)
<1>0. Typed /\ Logged /\ Written /\ AllKept
  BY Zenon DEF BlockInv
<1>1. /\ Put \in Pointer /\ Put \in Text /\ Put # Null
      /\ local_value # Null =>
           /\ Len(Put) = value_size
           /\ \A i \in 1..value_size : i <= Len(local_value) => Put[i] = local_value[i]
  BY Zenon, <1>0, PutIs
<1>2. \/ local_value # Null /\ local_value' = Put /\ remote_value' = remote_value
      \/ local_value = Null /\ remote_value' = Put /\ local_value' = local_value
  BY Zenon DEF Prepared
<1>3. Typed'
  BY Zenon, <1>0, <1>1, <1>2 DEF Typed
<1>4. Logged'
  BY Zenon, <1>0 DEF Logged
<1>5. Written'
  BY Zenon, <1>0, <1>1, <1>2 DEF Written
<1>6. ASSUME NEW i \in 1..Capacity, KeptBy(patches, Len(patches), i)
      PROVE  InMemory(local_value', value_size, v, i)
  <2>1. InMemory(local_value, value_size, v, i)
    BY Zenon, <1>0, <1>6 DEF AllKept
  <2>2. local_value # Null /\ i <= value_size /\ i <= Len(local_value) /\ local_value[i] = v[i]
    BY Zenon, <2>1 DEF InMemory
  <2>3. i \in 1..value_size
    <3>1. value_size \in Nat /\ Capacity \in Nat
      BY Zenon, <1>0, StringsAre DEF Typed
    <3> QED BY <2>2, <3>1
  <2> HIDE DEF v
  <2> QED BY Zenon, <1>1, <1>2, <2>2, <2>3 DEF InMemory
<1>7. AllKept'
  <2>1. Patched(base)' = v
    BY Zenon DEF Patched
  <2> HIDE DEF v
  <2> QED BY Zenon, <1>6, <2>1 DEF AllKept
<1> QED BY Zenon, <1>3, <1>4, <1>5, <1>7 DEF BlockInv

\* What other clients store, and what a block is opened with, are strings.
LEMMA OthersStore ==
  /\ Absent.value \in Strings
  /\ \A s \in Existing \cup {Absent} : s.value \in Strings
  /\ \A b \in Letters, n \in 1..Capacity : Fill(b, n) \in Strings
  /\ Fill("0", Capacity) \in Strings
<1>1. ASSUME NEW b \in Byte, NEW n \in 0..Capacity PROVE Fill(b, n) \in Strings
  <2>1. n \in Nat /\ n <= Capacity
    BY StringsAre
  <2>2. Fill(b, n) \in Text /\ Len(Fill(b, n)) = n
    BY Zenon, <2>1, FillIs
  <2> QED BY Zenon, <2>1, <2>2 DEF Strings
<1>2. \A n \in 1..Capacity : n \in 0..Capacity
  BY StringsAre
<1>3. Capacity \in 0..Capacity
  BY StringsAre
<1>4. \A b \in Letters : b \in Byte
  BY Zenon DEF Byte
<1>5. "0" \in Byte
  BY DEF Byte
<1>6. \A b \in Letters, n \in 1..Capacity : Fill(b, n) \in Strings
  BY Zenon, <1>1, <1>2, <1>4
<1>7. Absent.value \in Strings
  <2>1. Absent.value = <<>>
    BY DEF Absent
  <2> QED BY Zenon, <2>1, StringsAre
<1>8. ASSUME NEW s \in Existing PROVE s.value \in Strings
  <2>1. PICK b \in Letters, n \in 1..Capacity :
          s = [version |-> 1, value |-> Fill(b, n), by |-> "other"]
    BY DEF Existing
  <2>2. s.value = Fill(b, n)
    BY <2>1
  <2> QED BY Zenon, <1>6, <2>2
<1> QED BY Zenon, <1>1, <1>3, <1>5, <1>6, <1>7, <1>8

\* A value stored is the value put.
LEMMA StoreIs ==
  ASSUME NEW v, NEW by, Store(v, by)
  PROVE  stored'.value = v /\ stored'.by = by /\ stored'.version = versions + 1 /\ versions' = versions + 1
BY DEF Store

\* Every step keeps what has been written.
LEMMA BlockStep ==
  ASSUME BlockInv, [Next]_vars
  PROVE  BlockInv'
<1>0. Typed /\ stored.value \in Strings /\ Put \in Strings
  BY Zenon, PutIs DEF BlockInv, Typed
<1>1. CASE read
  <2>1. stored' = stored
    BY Zenon, <1>1 DEF read
  <2>2. CASE Refresh
    BY Zenon, <1>0, <2>1, <2>2, SameBlock DEF Refresh
  <2>3. ASSUME NEW throws, getRemoteValue(throws) PROVE BlockInv'
    BY Zenon, <2>1, <2>3, GetKeeps
  <2> QED BY Zenon, <1>1, <2>2, <2>3 DEF read
<1>2. CASE flush \/ Expire \/ UNCHANGED vars
  <2>1. /\ stored' = stored /\ base' = base /\ value_size' = value_size /\ local_value' = local_value
        /\ remote_value' = remote_value /\ updates' = updates /\ patches' = patches
    BY <1>2 DEF flush, Expire, vars, blockVars
  <2> QED BY Zenon, <1>0, <2>1, SameBlock
<1>3. CASE FlushGet
  <2>1. PICK throws : getRemoteValue(throws)
    BY Zenon, <1>3 DEF FlushGet
  <2>2. stored' = stored
    BY <1>3 DEF FlushGet
  <2> QED BY Zenon, <2>1, <2>2, GetKeeps
<1>4. CASE FlushStored
  <2>1. /\ Prepared /\ stored'.value = Put /\ base' = Put /\ value_size' = value_size
        /\ updates' = <<>> /\ patches' = <<>>
    BY Zenon, <1>4, StoreIs DEF FlushStored
  <2>2. /\ local_value' \in {Put, local_value} /\ remote_value' \in {Put, remote_value}
    BY Zenon, <2>1 DEF Prepared
  <2>3. Put \in Pointer
    BY Zenon, <1>0 DEF Pointer
  <2>4. Typed'
    BY Zenon, <1>0, <2>1, <2>2, <2>3 DEF Typed
  <2> QED BY Zenon, <2>1, <2>4, NothingKept
<1>5. CASE FlushMismatch
  <2>1. /\ Prepared /\ stored' = stored /\ base' = base
        /\ value_size' = value_size /\ updates' = updates /\ patches' = patches
    BY <1>5 DEF FlushMismatch
  <2> QED BY Zenon, <1>0, <2>1, PreparedKeeps
<1>6. CASE FlushFailed
  <2>1. /\ Prepared /\ base' = base
        /\ value_size' = value_size /\ updates' = updates /\ patches' = patches
        /\ stored' = stored \/ Store(Put, "block")
    BY <1>6 DEF FlushFailed
  <2> QED BY Zenon, <1>0, <2>1, PreparedKeeps, StoreIs
<1>7. ASSUME NEW offset \in 0..Capacity, NEW length \in 1..Capacity, NEW b \in Letters,
             offset + length <= Capacity, write(offset, length, b)
      PROVE  BlockInv'
  <2>1. Fits(offset, length, b)
    BY <1>7, StringsAre DEF Fits
  <2> QED BY Zenon, <1>7, <2>1, WriteKeeps
<1>8. ASSUME NEW offset \in 0..Capacity, truncate(offset) PROVE BlockInv'
  BY Zenon, <1>8, TruncateKeeps
<1>9. ASSUME NEW m, NEW s \in Existing \cup {Absent}, reassign(s, m) PROVE BlockInv'
  <2>1. /\ stored' = s /\ value_size' = 0 /\ updates' = <<>> /\ patches' = <<>> /\ base' = <<>>
        /\ local_value' \in {Fill("0", Capacity), Null} /\ remote_value' = remote_value
    BY Zenon, <1>9 DEF reassign
  <2>2. s.value \in Strings /\ <<>> \in Strings /\ Fill("0", Capacity) \in Pointer /\ Null \in Pointer
    BY Zenon, StringsAre, OthersStore DEF Pointer
  <2>3. 0 \in Nat /\ 0 <= Capacity
    BY StringsAre
  <2>4. Typed'
    BY Zenon, <1>0, <2>1, <2>2, <2>3 DEF Typed
  <2> QED BY Zenon, <2>1, <2>4, NothingKept
<1>10. CASE OtherPut
  <2>1. PICK b \in Letters, n \in 1..Capacity : Store(Fill(b, n), "other")
    BY Zenon, <1>10 DEF OtherPut
  <2>2. stored'.value \in Strings
    BY Zenon, <2>1, StoreIs, OthersStore
  <2>3. /\ base' = base /\ value_size' = value_size /\ local_value' = local_value
        /\ remote_value' = remote_value /\ updates' = updates /\ patches' = patches
    BY <1>10 DEF OtherPut, blockVars
  <2> QED BY Zenon, <2>2, <2>3, SameBlock
<1>11. CASE OtherRemove
  <2>1. /\ stored' = Absent /\ base' = base /\ value_size' = value_size /\ local_value' = local_value
        /\ remote_value' = remote_value /\ updates' = updates /\ patches' = patches
    BY <1>11 DEF OtherRemove, blockVars
  <2> QED BY Zenon, <2>1, OthersStore, SameBlock
<1> QED BY Zenon, <1>1, <1>2, <1>3, <1>4, <1>5, <1>6, <1>7, <1>8, <1>9, <1>10, <1>11 DEF Next

\* It holds at first.
LEMMA BlockInit ==
  ASSUME Init
  PROVE  BlockInv
<1>1. PICK s \in Existing \cup {Absent} : stored = s
  BY Zenon DEF Init, Open
<1>2. /\ remote_value = Null /\ local_value = Null /\ value_size = 0
      /\ updates = <<>> /\ patches = <<>> /\ base = <<>>
  BY Zenon DEF Init
<1>3. stored.value \in Strings /\ <<>> \in Strings /\ Null \in Pointer /\ 0 \in Nat /\ 0 <= Capacity
  BY <1>1, StringsAre, OthersStore DEF Pointer
<1>4. Typed
  BY Zenon, <1>2, <1>3 DEF Typed
<1>5. Len(patches) = 0 /\ 1..Len(patches) = {} /\ Len(updates) = Len(patches)
  BY Zenon, <1>2, EmptyRange
<1>6. patches \in Seq(Patches) /\ updates \in Seq(Nat \X Nat)
  BY <1>2
<1>7. Logged /\ Written
  BY Zenon, <1>5, <1>6 DEF Logged, Written
<1>8. AllKept
  BY Zenon, <1>5, KeptNone DEF AllKept
<1> QED BY Zenon, <1>4, <1>7, <1>8 DEF BlockInv

\* What write has put into the block and truncate has not cut off stays in memory
\* until it is flushed, whatever getRemoteValue reads and merges in between, whether
\* or not it throws, and however puts of flush fail.
THEOREM WritesKeptHolds == Spec => []WritesKept
<1>1. Init => BlockInv
  BY Zenon, BlockInit
<1>2. BlockInv /\ [Next]_vars => BlockInv'
  BY Zenon, BlockStep
<1>3. BlockInv => WritesKept
  <2> SUFFICES ASSUME BlockInv, NEW i \in 1..Capacity, Kept(i)
               PROVE  InMemory(local_value, value_size, Patched(base), i)
    BY Zenon DEF WritesKept, InMemory
  <2>1. DOMAIN patches = 1..Len(patches)
    BY DEF BlockInv, Logged
  <2>2. \A k \in 1..Len(patches) : i <= patches[k].offset => ~ (i > patches[k].offset)
    <3>1. \A k \in 1..Len(patches) : patches[k] \in Patches
      BY DEF BlockInv, Logged
    <3>2. \A k \in 1..Len(patches) : patches[k].offset \in Nat
      BY <3>1 DEF Patches
    <3> QED BY <3>2, StringsAre
  <2>3. KeptBy(patches, Len(patches), i)
    BY Zenon, <2>1, <2>2 DEF Kept, KeptBy, Covers, Cuts
  <2> QED BY Zenon, <2>3 DEF BlockInv, AllKept
<1> QED BY <1>1, <1>2, <1>3, PTL DEF Spec

-----------------------------------------------------------------------------
(***************************************************************************)
(* In regular use the memory is the value last obtained, updated.          *)
(***************************************************************************)

\* The memory l, of which z bytes count, holds the value v.
Shows(l, z, v) == z = Len(v) /\ z <= Len(l) /\ \A i \in 1..z : l[i] = v[i]

\* Nothing has been truncated since the last flush.
NoCut == \A n \in 1..Len(patches) : ~ patches[n].truncate

\* The memory is what the updates make of the value last obtained.
InSync ==
  /\ local_value # Null => remote_value = Null /\ Shows(local_value, value_size, Patched(base))
  /\ local_value = Null => /\ patches = <<>> /\ value_size = Len(base)
                           /\ remote_value = base \/ (remote_value = Null /\ base = <<>>)

\* It is so in regular use, in which the key is never removed.
Exact == regular => stored.version = versions /\ NoCut /\ InSync

\* Without truncations, all that has been written is in the local value.
LEMMA WholeHolds ==
  ASSUME BlockInv, NoCut
  PROVE  Whole
<1>0. Typed /\ Logged /\ AllKept
  BY Zenon DEF BlockInv
<1> SUFFICES ASSUME NEW n \in 1..Len(patches)
             PROVE  patches[n].offset + Len(patches[n].data) <= Len(local_value)
  BY Zenon DEF Whole, NoCut
<1> DEFINE p == patches[n]
           i == p.offset + Len(p.data)
<1>1. p \in Patches /\ ~ p.truncate
  BY <1>0 DEF Logged, NoCut
<1> HIDE DEF p
<1>2. /\ p.offset \in Nat /\ Len(p.data) \in Nat /\ Len(p.data) # 0 /\ i <= Capacity
  BY <1>1 DEF Patches, Text
<1>3. i \in 1..Capacity /\ p.offset < i /\ i <= p.offset + Len(p.data)
  BY <1>2, StringsAre
<1>4. Covers(p, i)
  BY Zenon, <1>1, <1>3 DEF Covers
<1>5. \A k \in 1..Len(patches) : ~ Cuts(patches[k], i)
  BY Zenon DEF NoCut, Cuts
<1>6. KeptBy(patches, Len(patches), i)
  BY Zenon, <1>4, <1>5 DEF KeptBy, p
<1>7. InMemory(local_value, value_size, Patched(base), i)
  BY Zenon, <1>0, <1>3, <1>6 DEF AllKept
<1> QED BY Zenon, <1>7 DEF InMemory, p

\* What is merged with a value found is that value with the updates applied.
LEMMA MergedShows ==
  ASSUME BlockInv, NoCut, NEW v \in Strings, NEW start,
         start = [value |-> Resize(v, Capacity), size |-> Len(v), thrown |-> FALSE]
  PROVE  LET r == Merged(start)
         IN  r.value \in Text /\ ~ r.thrown /\ Shows(r.value, r.size, Patched(v))
<1> DEFINE r == Merged(start)
           w == Patched(v)
<1>0. Typed /\ Logged /\ Written /\ Whole
  BY Zenon, WholeHolds DEF BlockInv
<1>1. v \in Text /\ Len(v) \in Nat /\ Len(v) <= Capacity /\ Len(local_value) \in Nat /\ Capacity \in Nat
      /\ Capacity >= 1
  BY Zenon, <1>0, StringsAre DEF Typed, Strings, Pointer
<1>2. start \in Merges
  BY Zenon, <1>0, <1>1, StartIs
<1>3. start.value = Resize(v, Capacity) /\ start.size = Len(v) /\ start.thrown = FALSE
  <2> DEFINE x == Resize(v, Capacity)
  <2> HIDE DEF x
  <2>1. start = [value |-> x, size |-> Len(v), thrown |-> FALSE]
    BY Zenon DEF x
  <2> QED BY SMTT(60), <2>1 DEF x
<1>4. ~ start.thrown
  BY Zenon, <1>3
<1>5. \A i \in 1..Capacity : Agrees(r, w, Len(patches), i)
  BY Zenon, <1>0, <1>1, <1>2, <1>3, <1>4, MergedAgrees
<1>6. /\ r \in Merges
      /\ \A i \in 1..Capacity : KeptBy(patches, Len(patches), i) =>
           (~ r.thrown => InMemory(r.value, r.size, w, i))
  BY Zenon, <1>1, <1>2, <1>4, GotMerged DEF Patched
<1> HIDE DEF r, w
<1>7. 1 \in 1..Capacity
  BY <1>1
<1>8. ~ r.thrown /\ r.size = Len(w) /\ Len(r.value) = Capacity
  BY Zenon, <1>5, <1>7 DEF Agrees
<1>9. r.value \in Text /\ r.size \in Nat /\ r.size <= Capacity
  BY <1>6 DEF Merges
<1>10. ASSUME NEW i \in 1..r.size PROVE r.value[i] = w[i]
  <2>1. i \in 1..Capacity /\ i <= Len(w)
    BY <1>1, <1>8, <1>9
  <2>2. CASE KeptBy(patches, Len(patches), i)
    BY Zenon, <1>6, <1>8, <2>1, <2>2 DEF InMemory
  <2>3. CASE ~ KeptBy(patches, Len(patches), i)
    BY Zenon, <1>5, <2>1, <2>3 DEF Agrees
  <2> QED BY Zenon, <2>2, <2>3
<1> QED BY Zenon, <1>8, <1>9, <1>10 DEF Shows, r, w

\* Getting the value brings the memory in agreement with it.
LEMMA GetExact ==
  ASSUME BlockInv, Identified, Exact, NEW throws, getRemoteValue(throws),
         stored' = stored, versions' = versions, regular' = regular
  PROVE  Exact'
<1> SUFFICES ASSUME regular PROVE stored'.version = versions' /\ NoCut' /\ InSync'
  BY Zenon DEF Exact
<1>0. Typed /\ Logged /\ stored.version = versions /\ NoCut /\ InSync
  BY Zenon DEF BlockInv, Exact
<1>1. /\ Found(throws) \/ Gone(throws)
      /\ updates' = updates /\ patches' = patches /\ base' = stored.value
  BY Zenon, GetLeaves
<1>2. stored'.version = versions' /\ NoCut'
  BY Zenon, <1>0, <1>1 DEF NoCut
<1>3. stored.value \in Strings
  BY Zenon, <1>0 DEF Typed
<1>4. CASE Found(throws) /\ updates = <<>>
  <2>1. remote_value' = stored.value /\ local_value' = Null /\ value_size' = Len(stored.value)
    BY Zenon, <1>4 DEF Found
  <2>2. patches' = <<>>
    BY Zenon, <1>0, <1>1, <1>4, EmptyLog
  <2> QED BY Zenon, <1>1, <1>2, <2>1, <2>2 DEF InSync
<1>5. CASE Found(throws) /\ updates # <<>>
  <2> DEFINE s == [value |-> Resize(stored.value, Capacity), size |-> Len(stored.value), thrown |-> FALSE]
  <2>1. /\ value_size' = Merged(s).size
        /\ IF Merged(s).thrown THEN remote_value' = stored.value /\ local_value' = local_value
                               ELSE remote_value' = Null /\ local_value' = Merged(s).value
    BY Zenon, <1>5 DEF Found
  <2>2. /\ Merged(s).value \in Text /\ ~ Merged(s).thrown
        /\ Shows(Merged(s).value, Merged(s).size, Patched(stored.value))
    BY Zenon, <1>0, <1>3, MergedShows
  <2>3. Patched(base)' = Patched(stored.value)
    BY Zenon, <1>1 DEF Patched
  <2> HIDE DEF s
  <2>4. local_value' # Null
    BY Zenon, <2>1, <2>2, NullIsNoText
  <2> QED BY Zenon, <1>2, <2>1, <2>2, <2>3, <2>4 DEF InSync
<1>6. CASE Gone(throws)
  <2>1. stored.version = 0
    BY Zenon, <1>6 DEF Gone
  <2>2. versions = 0 /\ version = 0
    BY <1>0, <2>1 DEF Identified
  <2>3. base = <<>> /\ stored.value = <<>> /\ base' = base
    BY Zenon, <1>1, <2>1, <2>2 DEF Identified
  <2>4. Patched(base)' = Patched(base)
    BY Zenon, <1>1, <2>3 DEF Patched
  <2>5. CASE updates = <<>>
    <3>1. local_value' = Null /\ remote_value' = remote_value /\ value_size' = value_size
      BY Zenon, <1>6, <2>5 DEF Gone
    <3>2. patches = <<>>
      BY Zenon, <1>0, <2>5, EmptyLog
    <3>3. base \in Text
      BY Zenon, <1>0 DEF Typed, Strings
    <3>4. Patched(base) = base
      BY Zenon, <3>2, <3>3, NoPatches DEF Patched
    <3>5. value_size = Len(base)
      BY Zenon, <1>0, <3>4 DEF InSync, Shows
    <3>6. remote_value = base \/ (remote_value = Null /\ base = <<>>)
      BY Zenon, <1>0, <2>3 DEF InSync
    <3> QED BY Zenon, <1>1, <1>2, <2>3, <3>1, <3>2, <3>5, <3>6 DEF InSync
  <2>6. CASE updates # <<>>
    <3>1. patches # <<>>
      BY Zenon, <1>0, <2>6, EmptyLog
    <3>2. local_value # Null /\ remote_value = Null
      BY Zenon, <1>0, <3>1 DEF InSync
    <3>3. local_value' = local_value /\ remote_value' = remote_value /\ value_size' = value_size
      BY Zenon, <1>6, <2>6, <3>2 DEF Gone
    <3> QED BY Zenon, <1>0, <1>2, <2>4, <3>2, <3>3 DEF InSync
  <2> QED BY Zenon, <2>5, <2>6
<1> QED BY Zenon, <1>1, <1>4, <1>5, <1>6

\* What a write starts from holds the value that is read.
LEMMA StartShows ==
  ASSUME Typed, InSync
  PROVE  /\ Shows(Start, value_size, Patched(base))
         /\ local_value # Null => remote_value = Null
<1>0. base \in Strings /\ base \in Text /\ base # Null /\ Len(base) \in Nat /\ Len(base) <= Capacity
  BY Zenon, StringsAre, NullIsNoText DEF Typed, Strings, Pointer
<1>1. CASE local_value # Null
  BY Zenon, <1>1 DEF InSync, Start
<1>2. CASE local_value = Null
  <2>1. /\ patches = <<>> /\ value_size = Len(base)
        /\ remote_value = base \/ (remote_value = Null /\ base = <<>>)
    BY Zenon, <1>2 DEF InSync
  <2>2. Patched(base) = base
    BY Zenon, <1>0, <2>1, NoPatches DEF Patched
  <2>3. CASE remote_value = base
    <3>1. Start = base
      BY Zenon, <1>0, <1>2, <2>3 DEF Start
    <3>2. value_size <= Len(base)
      BY <1>0, <2>1
    <3> QED BY Zenon, <1>2, <2>1, <2>2, <3>1, <3>2 DEF Shows
  <2>4. CASE remote_value = Null /\ base = <<>>
    <3>1. Start = Fill("0", Capacity)
      BY Zenon, <1>2, <2>4 DEF Start
    <3>2. Len(Start) \in Nat
      BY Zenon, <3>1, OthersStore, StringsAre DEF Pointer
    <3>3. value_size = 0 /\ Len(base) = 0
      BY Zenon, <2>1, <2>4, EmptyRange
    <3>4. 0 <= Len(Start) /\ 1..0 = {}
      BY <3>2
    <3> QED BY Zenon, <1>2, <2>2, <3>3, <3>4 DEF Shows
  <2> QED BY Zenon, <2>1, <2>3, <2>4
<1> QED BY Zenon, <1>1, <1>2

\* A write that leaves no hole does to the memory what it does to the value.
LEMMA WriteExact ==
  ASSUME BlockInv, Exact, NEW offset, NEW length, NEW b, Fits(offset, length, b),
         write(offset, length, b)
  PROVE  Exact'
<1> DEFINE p == Update(offset, length, b)
           v == Patched(base)
           w == Patch(v, p)
<1> SUFFICES ASSUME regular' PROVE stored'.version = versions' /\ NoCut' /\ InSync'
  BY Zenon DEF Exact
<1>1. /\ regular /\ offset <= Len(v)
      /\ stored' = stored /\ versions' = versions /\ base' = base /\ patches' = Append(patches, p)
      /\ updates' = Append(updates, <<offset, length>>)
      /\ remote_value' = IF local_value = Null THEN Null ELSE remote_value
  BY Zenon DEF write, Update, Remember
<1>2. /\ Typed /\ Logged /\ stored.version = versions /\ NoCut /\ InSync
  BY Zenon, <1>1 DEF Exact, BlockInv
<1>3. WriteIn(offset, length, b)
  BY Zenon, <1>2, WriteIs
<1>4. /\ p \in Patches /\ ~ p.truncate /\ p.offset = offset /\ Len(p.data) = length
      /\ \A i \in 1..length : p.data[i] = b
      /\ \A i : Covers(p, i) <=> offset < i /\ i <= offset + length
  BY Zenon, UpdateIs
<1> HIDE DEF p
<1>5. base \in Text
  BY Zenon, <1>2 DEF Typed, Strings
<1>6. /\ Len(patches') = Len(patches) + 1 /\ Len(patches) \in Nat /\ patches'[Len(patches) + 1] = p
      /\ \A n \in 1..Len(patches) : patches'[n] = patches[n]
      /\ Patched(base)' = w /\ v \in Text
  BY Zenon, <1>1, <1>2, <1>4, <1>5, LogAppend
<1>7. NoCut'
  <2>1. \A n \in 1..Len(patches') : n \in 1..Len(patches) \/ n = Len(patches) + 1
    BY <1>6
  <2> QED BY Zenon, <1>2, <1>4, <1>6, <2>1 DEF NoCut
<1>8. IsPatched(w, v, p)
  BY Zenon, <1>4, <1>6, PatchIs
<1>9. Shows(Start, value_size, v) /\ remote_value' = Null
  BY Zenon, <1>1, <1>2, StartShows
<1> HIDE DEF w, v
<1>10. /\ w \in Text
       /\ Len(v) <= offset + length => Len(w) = offset + length
       /\ Len(v) >= offset + length => Len(w) = Len(v)
       /\ \A j \in 1..Len(w) : /\ Covers(p, j) => w[j] = p.data[j - offset]
                               /\ ~ Covers(p, j) /\ j <= Len(v) => w[j] = v[j]
  BY Zenon, <1>4, <1>8 DEF IsPatched
<1>11. /\ value_size = Len(v) /\ value_size <= Len(Start)
       /\ \A i \in 1..value_size : Start[i] = v[i]
  BY Zenon, <1>9 DEF Shows
<1>12. /\ local_value' \in Strings /\ value_size' \in Nat /\ value_size' <= Len(local_value')
       /\ value_size' \in {offset + length, value_size}
       /\ value_size' >= offset + length /\ value_size' >= value_size
       /\ \A i \in 1..Len(local_value') : offset < i /\ i <= offset + length => local_value'[i] = b
       /\ \A i \in 1..Len(Start) :
            ~ (offset < i /\ i <= offset + length) => local_value'[i] = Start[i]
  BY Zenon, <1>3 DEF WriteIn
<1>13. /\ offset \in Nat /\ length \in Nat /\ Len(v) \in Nat /\ Len(w) \in Nat
       /\ Len(local_value') \in Nat /\ Len(Start) \in Nat
  <2>1. offset \in Nat /\ length \in Nat
    BY DEF Fits
  <2>2. Len(v) \in Nat /\ Len(w) \in Nat
    BY SMTT(60), <1>6, <1>10 DEF Text
  <2>3. Len(local_value') \in Nat
    BY <1>12 DEF Strings, Text
  <2>4. Start \in Pointer
    BY Zenon, <1>2, OthersStore DEF Start, Typed, Pointer
  <2> QED BY Zenon, <2>1, <2>2, <2>3, <2>4, StringsAre
<1>14. value_size' = Len(w)
  BY SMTT(60), <1>10, <1>11, <1>12, <1>13
<1>15. ASSUME NEW i \in 1..value_size' PROVE local_value'[i] = w[i]
  <2>0. i \in Nat /\ i \in 1..Len(w) /\ i \in 1..Len(local_value')
    BY <1>12, <1>13, <1>14
  <2>1. CASE offset < i /\ i <= offset + length
    <3>1. i - offset \in 1..length
      BY <1>13, <2>0, <2>1
    <3>2. w[i] = b
      BY Zenon, <1>4, <1>10, <2>0, <2>1, <3>1
    <3> QED BY Zenon, <1>12, <2>0, <2>1, <3>2
  <2>2. CASE ~ (offset < i /\ i <= offset + length)
    <3>1. i <= Len(v)
      BY SMTT(60), <1>1, <1>10, <1>13, <2>0, <2>2 DEF v
    <3>2. i \in 1..value_size /\ i \in 1..Len(Start)
      BY <1>11, <1>13, <2>0, <3>1
    <3>3. w[i] = v[i]
      BY Zenon, <1>4, <1>10, <2>0, <2>2, <3>1
    <3>4. local_value'[i] = Start[i] /\ Start[i] = v[i]
      BY Zenon, <1>11, <1>12, <2>2, <3>2
    <3> QED BY Zenon, <3>3, <3>4
  <2> QED BY Zenon, <2>1, <2>2
<1>16. local_value' # Null
  BY Zenon, <1>12, NullIsNoText
<1> QED BY Zenon, <1>1, <1>2, <1>6, <1>7, <1>9, <1>12, <1>14, <1>15, <1>16 DEF InSync, Shows

\* Resizing the value for a put changes nothing of it.
LEMMA PreparedSync ==
  ASSUME Typed, InSync, Prepared, base' = base /\ value_size' = value_size /\ patches' = patches
  PROVE  InSync'
<1>1. /\ Put # Null
      /\ local_value # Null =>
           /\ Len(Put) = value_size
           /\ \A i \in 1..value_size : i <= Len(local_value) => Put[i] = local_value[i]
      /\ local_value = Null => Put = IF remote_value # Null THEN remote_value ELSE <<>>
  BY Zenon, PutIs
<1>2. Patched(base)' = Patched(base)
  BY Zenon DEF Patched
<1>3. CASE local_value # Null
  <2>1. local_value' = Put /\ remote_value' = remote_value
    BY Zenon, <1>3 DEF Prepared
  <2>2. /\ remote_value = Null /\ value_size = Len(Patched(base)) /\ value_size <= Len(local_value)
        /\ \A i \in 1..value_size : local_value[i] = Patched(base)[i]
    BY Zenon, <1>3 DEF InSync, Shows
  <2>3. value_size <= value_size /\ \A i \in 1..value_size : i <= Len(local_value)
    <3>1. value_size \in Nat /\ Len(local_value) \in Nat
      BY Zenon, StringsAre DEF Typed
    <3> QED BY <2>2, <3>1
  <2>4. Shows(Put, value_size, Patched(base))
    BY Zenon, <1>1, <1>3, <2>2, <2>3 DEF Shows
  <2> QED BY Zenon, <1>1, <1>2, <2>1, <2>2, <2>4 DEF InSync
<1>4. CASE local_value = Null
  <2>1. remote_value' = Put /\ local_value' = local_value
    BY Zenon, <1>4 DEF Prepared
  <2>2. /\ patches = <<>> /\ value_size = Len(base)
        /\ remote_value = base \/ (remote_value = Null /\ base = <<>>)
    BY Zenon, <1>4 DEF InSync
  <2>3. base # Null
    BY Zenon, NullIsNoText DEF Typed
  <2>4. Put = base
    BY Zenon, <1>1, <1>4, <2>2, <2>3
  <2> QED BY Zenon, <1>4, <2>1, <2>2, <2>4 DEF InSync
<1> QED BY Zenon, <1>3, <1>4

\* flush puts the value with the updates applied.
LEMMA PutPatched ==
  ASSUME BlockInv, InSync
  PROVE  Put = Patched(base)
<1>0. Typed /\ Logged
  BY Zenon DEF BlockInv
<1>1. /\ Put \in Text
      /\ local_value # Null =>
           /\ Len(Put) = value_size
           /\ \A i \in 1..value_size : i <= Len(local_value) => Put[i] = local_value[i]
      /\ local_value = Null => Put = IF remote_value # Null THEN remote_value ELSE <<>>
  BY Zenon, <1>0, PutIs
<1>2. base \in Text /\ base # Null
  BY Zenon, <1>0, NullIsNoText DEF Typed, Strings
<1>3. CASE local_value # Null
  <2>1. /\ value_size = Len(Patched(base)) /\ value_size <= Len(local_value)
        /\ \A i \in 1..value_size : local_value[i] = Patched(base)[i]
    BY Zenon, <1>3 DEF InSync, Shows
  <2>2. \A i \in 1..value_size : i <= Len(local_value)
    <3>1. value_size \in Nat /\ Len(local_value) \in Nat
      BY Zenon, <1>0, StringsAre DEF Typed
    <3> QED BY <2>1, <3>1
  <2>3. Patched(base) \in Text
    <3>1. patches \in Seq(Patches) /\ Len(patches) \in 0..Len(patches)
      BY <1>0 DEF Logged
    <3> QED BY Zenon, <1>2, <3>1, PatchingIs DEF Application, Patched
  <2>4. Len(Put) = Len(Patched(base)) /\ \A i \in 1..Len(Put) : Put[i] = Patched(base)[i]
    BY Zenon, <1>1, <1>3, <2>1, <2>2
  <2> QED BY Zenon, <1>1, <2>3, <2>4, TextEqual
<1>4. CASE local_value = Null
  <2>1. patches = <<>> /\ (remote_value = base \/ (remote_value = Null /\ base = <<>>))
    BY Zenon, <1>4 DEF InSync
  <2>2. Patched(base) = base
    BY Zenon, <1>2, <2>1, NoPatches DEF Patched
  <2> QED BY Zenon, <1>1, <1>2, <1>4, <2>1, <2>2
<1> QED BY Zenon, <1>3, <1>4

\* The value put is the one in memory from then on.
LEMMA StoredExact ==
  ASSUME BlockInv, Exact, FlushStored
  PROVE  Exact'
<1> SUFFICES ASSUME regular PROVE stored'.version = versions' /\ NoCut' /\ InSync'
  BY Zenon DEF Exact, FlushStored
<1>0. Typed /\ InSync
  BY Zenon DEF BlockInv, Exact
<1>1. /\ Prepared /\ Store(Put, "block") /\ base' = Put /\ patches' = <<>> /\ value_size' = value_size
  BY Zenon DEF FlushStored
<1>2. stored'.version = versions'
  BY Zenon, <1>1, StoreIs
<1>3. NoCut'
  BY Zenon, <1>1, EmptyRange DEF NoCut
<1>4. /\ Put # Null /\ Put \in Text
      /\ local_value # Null => Len(Put) = value_size
      /\ local_value = Null => Put = IF remote_value # Null THEN remote_value ELSE <<>>
  BY Zenon, <1>0, PutIs
<1>5. Patched(base)' = Put
  BY Zenon, <1>1, <1>4, NoPatches DEF Patched
<1>6. CASE local_value # Null
  <2>1. local_value' = Put /\ remote_value' = Null
    BY Zenon, <1>0, <1>1, <1>6 DEF Prepared, InSync
  <2>2. Len(Put) <= Len(Put)
    BY <1>4 DEF Text
  <2>3. Shows(Put, value_size, Put)
    BY Zenon, <1>4, <1>6, <2>2 DEF Shows
  <2> QED BY Zenon, <1>1, <1>2, <1>3, <1>4, <1>5, <2>1, <2>3 DEF InSync
<1>7. CASE local_value = Null
  <2>1. local_value' = Null /\ remote_value' = Put
    BY Zenon, <1>1, <1>7 DEF Prepared
  <2>2. value_size = Len(base) /\ (remote_value = base \/ (remote_value = Null /\ base = <<>>))
    BY Zenon, <1>0, <1>7 DEF InSync
  <2>3. base # Null
    BY Zenon, <1>0, NullIsNoText DEF Typed
  <2>4. Put = base
    BY Zenon, <1>4, <1>7, <2>2, <2>3
  <2> QED BY Zenon, <1>1, <1>2, <1>3, <2>1, <2>2, <2>4 DEF InSync
<1> QED BY Zenon, <1>6, <1>7

\* Steps that leave the memory, the log and the base alone.
LEMMA SameExact ==
  ASSUME Exact, regular' = regular, stored'.version = versions' \/ (stored' = stored /\ versions' = versions),
         base' = base /\ value_size' = value_size /\ local_value' = local_value,
         remote_value' = remote_value /\ patches' = patches
  PROVE  Exact'
<1>1. Patched(base)' = Patched(base)
  BY Zenon DEF Patched
<1>2. InSync => InSync'
  BY Zenon, <1>1 DEF InSync
<1>3. NoCut => NoCut'
  BY Zenon DEF NoCut
<1> QED BY Zenon, <1>2, <1>3 DEF Exact

\* Every step keeps the memory in agreement with the value.
LEMMA ExactStep ==
  ASSUME BlockInv, Identified, Exact, [Next]_vars
  PROVE  Exact'
<1>0. Typed
  BY Zenon DEF BlockInv
<1>1. CASE read
  <2>1. stored' = stored /\ versions' = versions /\ regular' = regular
    BY Zenon, <1>1 DEF read
  <2>2. CASE Refresh
    BY Zenon, <2>1, <2>2, SameExact DEF Refresh
  <2>3. ASSUME NEW throws, getRemoteValue(throws) PROVE Exact'
    BY Zenon, <2>1, <2>3, GetExact
  <2> QED BY Zenon, <1>1, <2>2, <2>3 DEF read
<1>2. CASE flush \/ Expire \/ UNCHANGED vars
  <2>1. /\ stored' = stored /\ base' = base /\ value_size' = value_size /\ local_value' = local_value
        /\ remote_value' = remote_value /\ patches' = patches /\ versions' = versions
        /\ regular' = regular
    BY <1>2 DEF flush, Expire, vars, blockVars
  <2> QED BY Zenon, <2>1, SameExact
<1>3. CASE FlushGet
  <2>1. PICK throws : getRemoteValue(throws)
    BY Zenon, <1>3 DEF FlushGet
  <2>2. stored' = stored /\ versions' = versions /\ regular' = regular
    BY <1>3 DEF FlushGet
  <2> QED BY Zenon, <2>1, <2>2, GetExact
<1>4. CASE FlushStored
  BY Zenon, <1>4, StoredExact
<1>5. CASE FlushMismatch \/ FlushFailed
  <2>1. /\ Prepared /\ base' = base /\ value_size' = value_size /\ patches' = patches
        /\ regular' = regular
        /\ (stored' = stored /\ versions' = versions) \/ Store(Put, "block")
    BY <1>5 DEF FlushMismatch, FlushFailed
  <2>2. regular => stored'.version = versions'
    BY Zenon, <2>1, StoreIs DEF Exact
  <2>3. NoCut => NoCut'
    BY Zenon, <2>1 DEF NoCut
  <2>4. InSync => InSync'
    BY Zenon, <1>0, <2>1, PreparedSync
  <2> QED BY Zenon, <2>1, <2>2, <2>3, <2>4 DEF Exact
<1>6. ASSUME NEW offset \in 0..Capacity, NEW length \in 1..Capacity, NEW b \in Letters,
             offset + length <= Capacity, write(offset, length, b)
      PROVE  Exact'
  <2>1. Fits(offset, length, b)
    BY <1>6, StringsAre DEF Fits
  <2> QED BY Zenon, <1>6, <2>1, WriteExact
<1>7. ASSUME ~ regular' PROVE Exact'
  BY Zenon, <1>7 DEF Exact
<1>8. ASSUME NEW offset, truncate(offset) PROVE ~ regular'
  BY Zenon, <1>8 DEF truncate
<1>9. ASSUME NEW m, NEW s, reassign(s, m) PROVE ~ regular'
  BY Zenon, <1>9 DEF reassign
<1>10. CASE OtherPut
  <2>1. PICK b \in Letters, n \in 1..Capacity : Store(Fill(b, n), "other")
    BY Zenon, <1>10 DEF OtherPut
  <2>2. stored'.version = versions'
    BY Zenon, <2>1, StoreIs
  <2>3. /\ base' = base /\ value_size' = value_size /\ local_value' = local_value
        /\ remote_value' = remote_value /\ patches' = patches /\ regular' = regular
    BY <1>10 DEF OtherPut, blockVars
  <2> QED BY Zenon, <2>2, <2>3, SameExact
<1>11. CASE OtherRemove
  BY Zenon, <1>7, <1>11 DEF OtherRemove
<1> QED BY Zenon, <1>1, <1>2, <1>3, <1>4, <1>5, <1>6, <1>7, <1>8, <1>9, <1>10, <1>11 DEF Next

\* It holds at first.
LEMMA ExactInit ==
  ASSUME Init
  PROVE  Exact
<1>1. stored.version = versions
  BY Zenon DEF Init, Open
<1>2. patches = <<>> /\ local_value = Null /\ remote_value = Null /\ base = <<>> /\ value_size = 0
  BY Zenon DEF Init
<1>3. NoCut
  BY Zenon, <1>2, EmptyRange DEF NoCut
<1>4. InSync
  BY Zenon, <1>2, EmptyRange DEF InSync
<1> QED BY Zenon, <1>1, <1>3, <1>4 DEF Exact

\* All that the theorems need.
LEMMA SyncedHolds == Spec => [](BlockInv /\ Identified /\ Exact)
<1>1. Init => BlockInv /\ Identified /\ Exact
  BY Zenon, BlockInit, IdentifiedInit, ExactInit
<1>2. BlockInv /\ Identified /\ Exact /\ [Next]_vars => (BlockInv /\ Identified /\ Exact)'
  BY Zenon, BlockStep, IdentifiedStep, ExactStep
<1> QED BY <1>1, <1>2, PTL DEF Spec

\* What read copies is what memory holds, and NUL beyond it.
LEMMA ContentShows ==
  ASSUME Typed, InSync
  PROVE  Content = Resize(Patched(base), Capacity)
<1> DEFINE value == IF local_value # Null THEN local_value ELSE remote_value
           v == Patched(base)
<1>0. value_size \in Nat /\ value_size <= Capacity /\ Capacity \in Nat
  BY Zenon, StringsAre DEF Typed
<1>1. Shows(Start, value_size, v)
  BY Zenon, StartShows
<1>2. value_size = Len(v) /\ value_size <= Len(Start) /\ \A i \in 1..value_size : Start[i] = v[i]
  BY Zenon, <1>1 DEF Shows
<1> HIDE DEF v
<1>3. CASE value_size = 0
  <2>1. Content = [i \in 1..Capacity |-> "NUL"]
    BY Zenon, <1>3 DEF Content, Fill
  <2>2. \A i \in 1..Capacity : ~ (i <= Len(v))
    BY <1>0, <1>2, <1>3
  <2>3. Resize(v, Capacity) = [i \in 1..Capacity |-> "NUL"]
    BY Zenon, <2>2 DEF Resize
  <2> QED BY Zenon, <2>1, <2>3 DEF v
<1>4. CASE value_size # 0
  <2>1. value # Null /\ value = Start
    <3>1. CASE local_value # Null
      BY Zenon, <3>1 DEF Start
    <3>2. CASE local_value = Null
      <4>1. value_size = Len(base) /\ (remote_value = base \/ (remote_value = Null /\ base = <<>>))
        BY Zenon, <3>2 DEF InSync
      <4>2. base # <<>> /\ base # Null
        BY Zenon, <1>4, <4>1, EmptyRange, NullIsNoText DEF Typed
      <4>3. remote_value # Null
        BY Zenon, <4>1, <4>2
      <4> QED BY Zenon, <3>2, <4>3 DEF Start
    <3> QED BY Zenon, <3>1, <3>2
  <2> DEFINE f(i) == IF i <= value_size /\ i <= Len(value) THEN value[i]
                     ELSE IF value_size < Capacity THEN "NUL" ELSE "garbage"
             g(i) == IF i <= Len(v) THEN v[i] ELSE "NUL"
  <2>2. Content = [i \in 1..Capacity |-> f(i)]
    BY Zenon, <1>4, <2>1 DEF Content
  <2>3. Resize(v, Capacity) = [i \in 1..Capacity |-> g(i)]
    BY Zenon DEF Resize
  <2>4. ASSUME NEW i \in 1..Capacity PROVE f(i) = g(i)
    <3>0. Len(Start) \in Nat
      <4>1. Start \in Pointer
        BY Zenon, OthersStore DEF Start, Typed, Pointer
      <4> QED BY Zenon, <4>1, StringsAre
    <3>1. CASE i <= value_size
      <4>1. i \in 1..value_size /\ i <= Len(Start)
        BY <1>0, <1>2, <3>0, <3>1
      <4> QED BY Zenon, <1>2, <2>1, <3>1, <4>1
    <3>2. CASE ~ (i <= value_size)
      <4>1. value_size < Capacity
        BY <1>0, <3>2
      <4> QED BY Zenon, <1>2, <3>2, <4>1
    <3> QED BY Zenon, <3>1, <3>2
  <2> HIDE DEF f, g
  <2> QED BY Zenon, <2>2, <2>3, <2>4 DEF v
<1> QED BY Zenon, <1>3, <1>4

\* In regular use, read returns the stored value last obtained with all writes since
\* applied to it, and NUL beyond its end: what getRemoteValue merges, and what write
\* starts from, are the same as applying the writes to that value.
THEOREM ReadsPatchedHolds == Spec => []ReadsPatched
<1>1. BlockInv /\ Exact => ReadsPatched
  BY Zenon, ContentShows DEF BlockInv, Exact, ReadsPatched
<1> QED BY <1>1, SyncedHolds, PTL

\* In regular use, flush stores the value it replaces with the local writes applied,
\* whether the put is acknowledged or not: no update of another client is lost,
\* however its puts interleave with the steps of flush.
THEOREM FlushMergesHolds == Spec => FlushMerges
<1> DEFINE MergesAll == regular /\ versions' # versions /\ stored'.by = "block" =>
                         stored'.value = Patched(stored.value)
<1>1. BlockInv /\ Identified /\ Exact /\ [Next]_vars => [MergesAll]_vars
  <2> SUFFICES ASSUME BlockInv, Identified, Exact, [Next]_vars,
                      regular, versions' # versions, stored'.by = "block"
               PROVE  stored'.value = Patched(stored.value)
    BY Zenon
  <2>1. ASSUME Match, Store(Put, "block") PROVE stored'.value = Patched(stored.value)
    <3>1. stored'.value = Put
      BY Zenon, <2>1, StoreIs
    <3>2. Put = Patched(base)
      BY Zenon, PutPatched DEF Exact
    <3>3. base = stored.value
      BY <2>1 DEF Match, Identified
    <3> QED BY Zenon, <3>1, <3>2, <3>3
  <2>2. CASE FlushStored \/ FlushFailed
    BY Zenon, <2>1, <2>2 DEF FlushStored, FlushFailed
  <2>3. ~ (read \/ flush \/ FlushGet \/ FlushMismatch \/ Expire \/ OtherRemove \/ UNCHANGED vars)
    BY ZenonT(60) DEF read, flush, FlushGet, FlushMismatch, Expire, OtherRemove, vars
  <2>4. /\ \A offset, length, b : ~ write(offset, length, b)
        /\ \A offset : ~ truncate(offset)
    BY DEF write, truncate
  <2>5. ~ OtherPut
    <3>1. "other" # "block"
      OBVIOUS
    <3> QED BY Zenon, <3>1, StoreIs DEF OtherPut
  <2>6. \A m \in Mode, s \in Existing \cup {Absent} : ~ reassign(s, m)
    <3>1. \A s \in Existing \cup {Absent} : s.by = "other"
      BY DEF Existing, Absent
    <3>2. "other" # "block"
      OBVIOUS
    <3> QED BY Zenon, <3>1, <3>2 DEF reassign
  <2> QED BY Zenon, <2>2, <2>3, <2>4, <2>5, <2>6 DEF Next
<1> QED BY <1>1, SyncedHolds, PTL DEF Spec, FlushMerges
=============================================================================
