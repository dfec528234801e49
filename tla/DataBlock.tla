------------------------------ MODULE DataBlock -----------------------------
(***************************************************************************)
(* The in-memory copy of one data block of a file: reads, writes and       *)
(* truncations on it, and the flush that merges them into what is stored   *)
(* in the cluster, while other clients change the key.                     *)
(*                                                                         *)
(* Strings are sequences of bytes, of which NUL and the digit 0 matter.    *)
(* Every method runs under the mutex of the block, so only the steps of    *)
(* the cluster interleave with it.  The history variables base and patches *)
(* say what the content ought to be: the stored value last obtained, with  *)
(* the writes and truncations applied that have not been flushed.          *)
(***************************************************************************)
EXTENDS Integers, Sequences, FiniteSetsExt

CONSTANTS
  Capacity,    \* max_value_size of the cluster
  Letters,     \* bytes clients write
  Mode,        \* modes in which the block is opened: STANDARD, CREATE
  MaxUpdates,  \* bound on the number of updates between flushes
  MaxVersion   \* bound on the number of versions of the key

ASSUME BlockAssumption ==
  /\ Capacity \in Nat \ {0}
  /\ {"NUL", "0", "null"} \cap Letters = {}
  /\ Mode \subseteq {"STANDARD", "CREATE"} /\ Mode # {}
  /\ MaxUpdates \in Nat /\ MaxVersion \in Nat

Byte == Letters \cup {"NUL", "0"}
Value == UNION {[1..n -> Byte] : n \in 0..Capacity}

\* No string, no version: null pointers.  Version 0 is the version of an absent key.
Null == <<"null">>

VARIABLES
  stored,        \* the key in the cluster: version, value, who wrote it
  versions,      \* number of versions used so far
  mode,
  version,       \* the latest known version, 0 if there is none
  remote_value,
  local_value,
  value_size,
  updates,       \* <<offset, length>> of writes; length 0 is a truncation
  fresh,         \* the timestamp is less than expiration_time ago
  pc,            \* "idle", or where flush is: "get", "put"
  base,          \* the content of the key when it was last obtained (history)
  patches,       \* the updates since, with their data (history)
  regular        \* no hole, truncation, reassignment or removal yet (history)

blockVars == <<mode, version, remote_value, local_value, value_size, updates, fresh>>
vars == <<stored, versions, blockVars, pc, base, patches, regular>>

\* std::string operations.
Resize(s, n) == [i \in 1..n |-> IF i <= Len(s) THEN s[i] ELSE "NUL"]
Fill(b, n) == [i \in 1..n |-> b]
Part(s, offset, length) == SubSeq(s, offset + 1, Min({offset + length, Len(s)}))

Replace(s, offset, length, t) == Part(s, 0, offset) \o t \o Part(s, offset + length, Len(s))

\* What writes and truncations mean: holes read as NUL.
Patch(v, p) ==
  IF p.truncate THEN Resize(v, p.offset)
  ELSE Replace(Resize(v, Max({Len(v), p.offset + Len(p.data)})),
               p.offset, Len(p.data), p.data)

\* A value with the first n of the updates ps applied, for every n, and with all
\* that have not been flushed.
Patching(v, ps) ==
  LET after[n \in 0..Len(ps)] == IF n = 0 THEN v ELSE Patch(after[n - 1], ps[n])
  IN  after

Patched(v) == Patching(v, patches)[Len(patches)]

Absent == [version |-> 0, value |-> <<>>, by |-> "other"]
Existing == {[version |-> 1, value |-> Fill(b, n), by |-> "other"] :
               b \in Letters, n \in 1..Capacity}

\* A block opened in mode CREATE is of a key that does not exist.
Open(s, m) ==
  /\ stored = s /\ mode = m
  /\ versions = s.version
  /\ m = "CREATE" => s = Absent

Init ==
  /\ \E m \in Mode, s \in Existing \cup {Absent} : Open(s, m)
  /\ version = 0
  /\ remote_value = Null /\ local_value = Null
  /\ value_size = 0
  /\ updates = <<>>
  /\ fresh = (mode = "CREATE")
  /\ pc = "idle"
  /\ base = <<>> /\ patches = <<>> /\ regular = TRUE

-----------------------------------------------------------------------------
(***************************************************************************)
(* getRemoteValue.                                                         *)
(***************************************************************************)

\* Mutant: the size of the stored value is forgotten.
MergeSize(m, u) ==
  IF u[2] = 0 THEN [m EXCEPT !.size = u[1]]
  ELSE IF u[1] > Len(local_value) THEN [m EXCEPT !.thrown = TRUE]
  ELSE [m EXCEPT !.size = u[1] + u[2],
                 !.value = Replace(@, u[1], u[2], Part(local_value, u[1], u[2]))]

\* One update is merged into the value read; replace throws if the local value
\* ends before the update.
Merge(m, u) ==
  IF m.thrown THEN m
  ELSE IF u[2] = 0 THEN [m EXCEPT !.size = u[1]]
  ELSE [size |-> Max({u[1] + u[2], m.size}),
        thrown |-> u[1] > Len(local_value),
        value |-> IF u[1] > Len(local_value) THEN m.value
                  ELSE Replace(m.value, u[1], u[2], Part(local_value, u[1], u[2]))]

\* The loop over the updates, at each of its turns and at its end.
Merging(start) ==
  LET after[n \in 0..Len(updates)] == IF n = 0 THEN start ELSE Merge(after[n - 1], updates[n])
  IN  after

Merged(start) == Merging(start)[Len(updates)]

\* The key is found, and what it holds is merged with the local updates.
Found(throws) ==
  LET read == stored.value
      start == [value |-> Resize(read, Capacity), size |-> Len(read), thrown |-> FALSE]
      merged == Merged(start)
  IN  /\ stored.version > 0
      /\ throws = (updates # <<>> /\ merged.thrown)
      /\ version' = stored.version
      /\ IF updates = <<>>
           THEN remote_value' = read /\ local_value' = Null /\ value_size' = Len(read)
           ELSE /\ value_size' = merged.size
                /\ IF merged.thrown
                     THEN remote_value' = read /\ UNCHANGED local_value
                     ELSE remote_value' = Null /\ local_value' = merged.value

\* It is not there: only the version is reset.  A local value without updates
\* is dropped; one without a remote value to merge is left alone.
Gone(throws) ==
  LET start == [value |-> Resize(remote_value, Capacity), size |-> value_size, thrown |-> FALSE]
      merged == Merged(start)
  IN  /\ stored.version = 0
      /\ throws = (updates # <<>> /\ remote_value # Null /\ merged.thrown)
      /\ version' = 0
      /\ IF updates = <<>> THEN local_value' = Null /\ UNCHANGED <<remote_value, value_size>>
         ELSE IF remote_value = Null THEN UNCHANGED <<local_value, remote_value, value_size>>
         ELSE /\ value_size' = merged.size
              /\ IF merged.thrown
                   THEN UNCHANGED <<local_value, remote_value>>
                   ELSE remote_value' = Null /\ local_value' = merged.value

getRemoteValue(throws) ==
  /\ Found(throws) \/ Gone(throws)
  /\ fresh' = TRUE
  /\ base' = stored.value
  /\ UNCHANGED <<mode, updates, patches>>

-----------------------------------------------------------------------------
(***************************************************************************)
(* The methods.  read and size change the block only by bringing it up to  *)
(* date; what read returns is the operator Content.                        *)
(***************************************************************************)

Refresh == fresh' = TRUE /\ UNCHANGED <<mode, version, remote_value, local_value,
                                        value_size, updates, base, patches>>

\* Mutant: the version is not compared.
ValidAlways == version > 0

\* The version found in the cluster confirms what is in memory.
Valid == version = stored.version

\* validateVersion and, if necessary, getRemoteValue.  A block opened in mode
\* STANDARD is read at once the first time.
read ==
  /\ pc = "idle"
  /\ ~ fresh
  /\ IF Valid /\ (version > 0 \/ mode = "CREATE")
       THEN Refresh
       ELSE \E throws \in BOOLEAN : getRemoteValue(throws)
  /\ UNCHANGED <<stored, versions, pc, regular>>

\* Mutant: the update is not remembered.
RememberNot(offset, length) == UNCHANGED updates

Remember(offset, length) == updates' = Append(updates, <<offset, length>>)

write(offset, length, b) ==
  LET size == Max({offset + length, value_size})
      start == IF local_value # Null THEN local_value
               ELSE IF remote_value # Null THEN remote_value ELSE Fill("0", Capacity)
      value == IF size > Len(start) THEN Resize(start, Capacity) ELSE start
  IN  /\ pc = "idle"
      /\ Len(updates) < MaxUpdates
      /\ regular' = (regular /\ offset <= Len(Patched(base)))
      /\ value_size' = size
      /\ remote_value' = IF local_value = Null THEN Null ELSE remote_value
      /\ local_value' = Replace(value, offset, length, Fill(b, length))
      /\ Remember(offset, length)
      /\ patches' = Append(patches, [truncate |-> FALSE, offset |-> offset,
                                     data |-> Fill(b, length)])
      /\ UNCHANGED <<stored, versions, mode, version, fresh, pc, base>>

truncate(offset) ==
  /\ pc = "idle"
  /\ Len(updates) < MaxUpdates
  /\ value_size' = offset
  /\ Remember(offset, 0)
  /\ patches' = Append(patches, [truncate |-> TRUE, offset |-> offset, data |-> <<>>])
  /\ regular' = FALSE
  /\ UNCHANGED <<stored, versions, mode, version, remote_value, local_value, fresh, pc, base>>

\* flush holds the mutex from here until it is back to idle.
flush ==
  /\ pc = "idle"
  /\ pc' = IF version = 0 /\ mode = "STANDARD" THEN "get" ELSE "put"
  /\ UNCHANGED <<stored, versions, blockVars, base, patches, regular>>

\* The value is read for the first time, or again after a version mismatch.
FlushGet ==
  /\ pc = "get"
  /\ \E throws \in BOOLEAN : getRemoteValue(throws) /\ pc' = IF throws THEN "idle" ELSE "put"
  /\ UNCHANGED <<stored, versions, regular>>

\* The string that is put; the one in memory is resized for it.
Put ==
  IF local_value # Null THEN Resize(local_value, value_size)
  ELSE IF remote_value # Null THEN remote_value ELSE <<>>

Prepared ==
  IF local_value # Null THEN local_value' = Put /\ UNCHANGED remote_value
                        ELSE remote_value' = Put /\ UNCHANGED local_value

Store(v, by) ==
  /\ versions < MaxVersion
  /\ versions' = versions + 1
  /\ stored' = [version |-> versions + 1, value |-> v, by |-> by]

\* The cluster's answer to a put conditional on the known version.
Match == version = stored.version

FlushStored ==
  /\ pc = "put"
  /\ Match
  /\ Prepared
  /\ Store(Put, "block")
  /\ version' = versions + 1
  /\ updates' = <<>> /\ patches' = <<>> /\ base' = Put
  /\ fresh' = TRUE
  /\ pc' = "idle"
  /\ UNCHANGED <<mode, value_size, regular>>

FlushMismatch ==
  /\ pc = "put"
  /\ ~ Match
  /\ Prepared
  /\ pc' = "get"
  /\ UNCHANGED <<stored, versions, mode, version, value_size, updates, fresh, base,
                 patches, regular>>

\* The put fails with an I/O error and flush throws; the cluster may have
\* stored the value all the same.
FlushFailed ==
  /\ pc = "put"
  /\ Prepared
  /\ pc' = "idle"
  /\ \/ UNCHANGED <<stored, versions>>
     \/ Match /\ Store(Put, "block")
  /\ UNCHANGED <<mode, version, value_size, updates, fresh, base, patches, regular>>

\* reassign: the object is given another key, which nobody is using.
reassign(s, m) ==
  /\ pc = "idle"
  /\ regular' = FALSE
  /\ stored' = s
  /\ m = "CREATE" => s = Absent
  /\ s.version <= MaxVersion
  /\ mode' = m
  /\ value_size' = 0
  /\ version' = 0
  /\ updates' = <<>> /\ patches' = <<>> /\ base' = <<>>
  /\ fresh' = FALSE
  /\ local_value' = IF local_value # Null THEN Fill("0", Capacity) ELSE Null
  /\ versions' = s.version
  /\ UNCHANGED <<remote_value, pc>>

-----------------------------------------------------------------------------
\* Time passes; other clients put or remove the key.
Expire == pc = "idle" /\ fresh /\ fresh' = FALSE
          /\ UNCHANGED <<stored, versions, mode, version, remote_value, local_value,
                         value_size, updates, pc, base, patches, regular>>

OtherPut ==
  /\ \E b \in Letters, n \in 1..Capacity : Store(Fill(b, n), "other")
  /\ UNCHANGED <<blockVars, pc, base, patches, regular>>

OtherRemove ==
  /\ regular' = FALSE
  /\ stored.version > 0
  /\ stored' = Absent
  /\ UNCHANGED <<versions, blockVars, pc, base, patches>>

Next ==
  \/ read \/ flush \/ FlushGet \/ FlushStored \/ FlushMismatch \/ FlushFailed
  \/ \E offset \in 0..Capacity, length \in 1..Capacity, b \in Letters :
       offset + length <= Capacity /\ write(offset, length, b)
  \/ \E offset \in 0..Capacity : truncate(offset)
  \/ \E m \in Mode, s \in Existing \cup {Absent} : reassign(s, m)
  \/ Expire \/ OtherPut \/ OtherRemove

Spec == Init /\ [][Next]_vars

-----------------------------------------------------------------------------
\* What read copies to the buffer of its caller for the whole block: NUL beyond
\* the value size, nothing if the string is shorter, a crash if there is none.
Content ==
  LET value == IF local_value # Null THEN local_value ELSE remote_value
  IN  IF value_size = 0 THEN Fill("NUL", Capacity)
      ELSE IF value = Null THEN <<"crash">>
      ELSE [i \in 1..Capacity |->
              IF i <= value_size /\ i <= Len(value) THEN value[i]
              ELSE IF value_size < Capacity THEN "NUL" ELSE "garbage"]

\* In regular use, reading returns the stored value with the local updates
\* applied, "if nothing has been written to the requested memory region, 0s".
ReadsPatched ==
  regular /\ pc = "idle" /\ fresh => Content = Resize(Patched(base), Capacity)

\* "Reading is guaranteed up-to-date within expiration_time limits": whenever
\* the block is brought up to date it is so with what is stored at that time.
ReadsCurrent == [][~ fresh /\ fresh' => base' = stored'.value]_vars

\* "Flush flushes all changes to the backend", and only them: in regular use the
\* value stored is the one it replaces with the local updates applied.  No update of another
\* client is lost, however its puts interleave with the steps of flush.
FlushMerges ==
  [][regular /\ versions' # versions /\ stored'.by = "block" =>
       stored'.value = Patched(stored.value)]_vars

\* Bytes written and not cut off by a truncation since the last flush are in
\* memory, whatever has been read and merged in between.
Kept(i) == \E n \in DOMAIN patches :
  /\ ~ patches[n].truncate
  /\ patches[n].offset < i /\ i <= patches[n].offset + Len(patches[n].data)
  /\ \A k \in DOMAIN patches : k > n /\ patches[k].truncate => i <= patches[k].offset

WritesKept ==
  pc = "idle" => \A i \in 1..Capacity :
    Kept(i) => /\ local_value # Null /\ i <= value_size /\ i <= Len(local_value)
               /\ local_value[i] = Patched(base)[i]
=============================================================================
