------------------------------ MODULE DataCache -----------------------------
(***************************************************************************)
(* The LRU cache of data blocks shared by all open files.                  *)
(*                                                                         *)
(* A block object holds the data of one key at a time.  It is in the LRU   *)
(* list, in the pool of unused objects that are reassigned to new keys, or *)
(* in neither, being referenced by threads only.  Every operation runs     *)
(* under cache_mutex; what interleaves with it is what threads do with     *)
(* the references (shared_ptr) they have obtained.                         *)
(*                                                                         *)
(* The content of a block is reduced to its being dirty; unflushed records *)
(* the keys with writes, or a creation, that no flush has covered.         *)
(***************************************************************************)
EXTENDS Integers, Sequences, FiniteSetsExt

CONSTANTS
  Owners,       \* FileIo objects (of one file)
  Keys,         \* keys of the data blocks of the file
  Threads,      \* threads that use blocks
  Size,         \* Size[k]: capacity of a block of key k
  Capacities,   \* the capacities the cache may be configured with
  MaxObjects,   \* bound on the number of block objects
  ForcedDrops,  \* owners are dropped with blocks that are "used", "unused"
  None

Objects == 1..MaxObjects

ASSUME CacheAssumption ==
  /\ Size \in [Keys -> Nat \ {0}]
  /\ Capacities \subseteq Nat /\ Capacities # {}
  /\ MaxObjects \in Nat /\ ForcedDrops \subseteq {"used", "unused"}
  /\ None \notin Keys \cup Threads \cup Owners \cup Objects

VARIABLES
  capacity,   \* maximum size of the cache
  c,          \* the structures guarded by cache_mutex, see Structures
  key,        \* the key each block object is assigned to, or None
  dirty,      \* the block objects that are dirty
  expired,    \* the block objects not accessed for five seconds
  holds,      \* the references of each thread: <<object, key asked for>>
  todo,       \* the objects a flush of an owner has still to visit
  flushing,   \* the objects queued for a background flush
  unflushed,  \* the keys whose creation or writes have not been flushed
  invalid     \* an iterator that is not part of the list was dereferenced

vars == <<capacity, c, key, dirty, expired, holds, todo, flushing, unflushed, invalid>>

Structures ==
  [cache : Seq(Objects),                        \* LRU list, most recent first
   unused_items : Seq(Objects),
   owners : [Objects -> SUBSET Owners],
   lookup : [Keys -> Objects \cup {None}],
   owner_tables : [Owners -> SUBSET Objects],
   current_size : Nat,
   unused_size : Nat]

TypeOK ==
  /\ capacity \in Capacities
  /\ c \in Structures
  /\ key \in [Objects -> Keys \cup {None}]
  /\ dirty \subseteq Objects /\ expired \subseteq Objects /\ flushing \subseteq Objects
  /\ holds \in [Threads -> SUBSET (Objects \X Keys)]
  /\ todo \in [Threads -> SUBSET Objects]
  /\ unflushed \subseteq Keys
  /\ invalid \in BOOLEAN

Init ==
  /\ capacity \in Capacities
  /\ c = [cache |-> <<>>, unused_items |-> <<>>, owners |-> [o \in Objects |-> {}],
          lookup |-> [k \in Keys |-> None], owner_tables |-> [w \in Owners |-> {}],
          current_size |-> 0, unused_size |-> 0]
  /\ key = [o \in Objects |-> None]
  /\ dirty = {} /\ expired = {} /\ flushing = {} /\ unflushed = {}
  /\ holds = [t \in Threads |-> {}]
  /\ todo = [t \in Threads |-> {}]
  /\ invalid = FALSE

\* References outside of the cache: data.unique() is false.
Referenced == flushing \cup {h[1] : h \in UNION {holds[t] : t \in Threads}}

-----------------------------------------------------------------------------
\* std::list operations: erase, of the item that is o, and the items from the back.
Erase(l, o) ==
  LET i == CHOOSE j \in DOMAIN l : l[j] = o
  IN  IF o \in Range(l) THEN SubSeq(l, 1, i - 1) \o SubSeq(l, i + 1, Len(l)) ELSE l

FromBack(l) == [i \in 1..Len(l) |-> l[(Len(l) - i) + 1]]

\* The orders in which a std::set of addresses may be traversed.
Orders(S) == Bijection(1..Cardinality(S), S)

-----------------------------------------------------------------------------
(***************************************************************************)
(* remove_item and try_shrink.                                             *)
(***************************************************************************)

\* Mutant: the tables of the owners keep the item.
RemoveOwned(s, o) ==
  LET keep == 10 * s.unused_size <= capacity
  IN  [cache |-> Erase(s.cache, o),
       owner_tables |-> s.owner_tables,
       owners |-> [s.owners EXCEPT ![o] = {}],
       lookup |-> [s.lookup EXCEPT ![key[o]] = None],
       current_size |-> s.current_size - Size[key[o]],
       unused_items |-> IF keep THEN <<o>> \o s.unused_items ELSE s.unused_items,
       unused_size |-> IF keep THEN s.unused_size + Size[key[o]] ELSE s.unused_size]

\* The object goes to the pool of unused items unless the pool is large.  (Its
\* owners are cleared here; the code does so when it is taken from the pool.)
remove_item(s, o) ==
  LET keep == 10 * s.unused_size <= capacity
  IN  [cache |-> Erase(s.cache, o),
       owner_tables |-> [w \in Owners |-> IF w \in s.owners[o] THEN s.owner_tables[w] \ {o}
                                          ELSE s.owner_tables[w]],
       owners |-> [s.owners EXCEPT ![o] = {}],
       lookup |-> [s.lookup EXCEPT ![key[o]] = None],
       current_size |-> s.current_size - Size[key[o]],
       unused_items |-> IF keep THEN <<o>> \o s.unused_items ELSE s.unused_items,
       unused_size |-> IF keep THEN s.unused_size + Size[key[o]] ELSE s.unused_size]

\* The items a walk from the back visits: never the most recent one.
Walk(s) == 2..Len(s.cache)

\* How many items the first walk looks at: a tenth of them, rounded up.
Tenth(s) == (s.current_size \div Size[key[s.cache[Len(s.cache)]]] + 9) \div 10

\* Mutant: an expired block is dropped although it is dirty.
DisposableDirty(s, o) == (s.owners[o] = {} \/ o \in expired) /\ o \notin Referenced

Disposable(s, o) ==
  (s.owners[o] = {} \/ o \in expired) /\ o \notin dirty /\ o \notin Referenced

\* The first walk drops what is clean and orphaned or expired, and passes what
\* is dirty and expired to the thread pool, which may refuse it.
Visited(s) == {s.cache[i] : i \in {j \in Walk(s) : Len(s.cache) - j < Tenth(s)}}
Dropped(s) == {o \in Visited(s) : Disposable(s, o)}

\* The structures when a loop over the items of a sequence has removed those of
\* the set S, at each of its turns.
Removing(s, items, S) ==
  LET after[n \in 0..Len(items)] ==
        IF n = 0 THEN s
        ELSE IF items[n] \in S THEN remove_item(after[n - 1], items[n]) ELSE after[n - 1]
  IN  after

RemoveEach(s, items, S) == Removing(s, items, S)[Len(items)]

DropAll(s, S) == RemoveEach(s, FromBack(s.cache), S)

Over(s) == capacity < s.current_size

\* Mutant: a block that is in use may be removed.
CandidatesUsed(s, D) == {i \in Walk(s) : s.cache[i] \notin D}

\* The forced walks remove blocks nobody uses, clean ones first.
Candidates(s, D) == {i \in Walk(s) : s.cache[i] \notin Referenced \cup D}

\* A forced walk goes on from the item it has removed.  That item is no longer
\* in the list, so if the cache is still over capacity the walk is lost.
Forced(s, i) ==
  LET r == remove_item(s, s.cache[i]) IN [state |-> r, invalid |-> Over(r)]

\* The results of the forced walks: the structures, the blocks that the second
\* of them has flushed, and whether it has left the list.  A flush may fail.
Outcomes(s, D) ==
  IF ~ Over(s) THEN {[state |-> s, flushed |-> {}, invalid |-> FALSE]}
  ELSE IF Candidates(s, D \cup dirty) # {}
  THEN LET f == Forced(s, Max(Candidates(s, D \cup dirty)))
       IN  {[state |-> f.state, flushed |-> {}, invalid |-> f.invalid]}
  ELSE {[state |-> s, flushed |-> {}, invalid |-> FALSE]} \cup
       {[state |-> Forced(s, i).state, flushed |-> {s.cache[i]},
         invalid |-> Forced(s, i).invalid] : i \in Candidates(s, D)}

\* try_shrink for a set Q of blocks the thread pool accepts.
try_shrink(s, Q) == Outcomes(DropAll(s, Dropped(s)), Q)

-----------------------------------------------------------------------------
(***************************************************************************)
(* getDataKey.                                                             *)
(***************************************************************************)

MoveToFront(s, o, w, k) ==
  [s EXCEPT !.cache = <<o>> \o Erase(@, o),
            !.owners[o] = @ \cup {w},
            !.owner_tables[w] = @ \cup {o},
            !.lookup[k] = o]

Hit(t, w, k) ==
  LET o == c.lookup[k]
  IN  /\ o # None
      /\ c' = MoveToFront(c, o, w, k)
      /\ expired' = expired \ {o}
      /\ holds' = [holds EXCEPT ![t] = {<<o, k>>}]
      /\ UNCHANGED <<key, dirty, flushing, unflushed, invalid>>

\* A pooled object is taken, and reassigned, before a new one is made.  R is
\* the set of objects in use.
Free(s, R) == {o \in Objects \ R : o \notin Range(s.cache) /\ o \notin Range(s.unused_items)}

Insert(s, R, clean, t, w, k, m) ==
  LET pooled == s.unused_items # <<>>
      o == IF pooled THEN Head(s.unused_items) ELSE CHOOSE x \in Free(s, R) : TRUE
      p == IF pooled THEN [s EXCEPT !.unused_items = Tail(@),
                                    !.unused_size = @ - Size[key[o]]] ELSE s
  IN  /\ pooled \/ Free(s, R) # {}
      /\ c' = MoveToFront([p EXCEPT !.owners[o] = {}, !.current_size = @ + Size[k]], o, w, k)
      /\ key' = [x \in Objects |-> IF x = o THEN k ELSE IF x \in Free(s, R) THEN None ELSE key[x]]
      /\ dirty' = (dirty \ (clean \cup Free(s, R) \cup {o})) \cup (IF m = "CREATE" THEN {o} ELSE {})
      /\ expired' = (expired \cap Range(s.cache)) \ {o}
      /\ holds' = [holds EXCEPT ![t] = {<<o, k>>}]

Shrinks(Q) ==
  IF 10 * c.current_size > 7 * capacity
    THEN try_shrink(c, Q)
    ELSE {[state |-> c, flushed |-> {}, invalid |-> FALSE]}

Miss(t, w, k, m) ==
  /\ c.lookup[k] = None
  /\ \E Q \in SUBSET (IF 10 * c.current_size > 7 * capacity
                        THEN {o \in Visited(c) : o \in dirty \cap expired} ELSE {}) :
       /\ flushing' = flushing \cup Q
       /\ \E r \in Shrinks(Q) :
            /\ unflushed' = (unflushed \ {key[o] : o \in r.flushed})
                             \cup (IF m = "CREATE" /\ ~ r.invalid THEN {k} ELSE {})
            /\ invalid' = r.invalid
            /\ IF r.invalid
                 THEN /\ c' = r.state
                      /\ dirty' = dirty \ r.flushed
                      /\ UNCHANGED <<key, expired, holds>>
                 ELSE Insert(r.state, Referenced \cup Q, r.flushed, t, w, k, m)

getDataKey(t, w, k, m) ==
  /\ ~ invalid
  /\ holds[t] = {}
  /\ Hit(t, w, k) \/ Miss(t, w, k, m)
  /\ UNCHANGED <<capacity, todo>>

-----------------------------------------------------------------------------
(***************************************************************************)
(* What is done with blocks, and the other operations of the cache.        *)
(***************************************************************************)

\* DataBlock::write or truncate of the block a thread has obtained.
Write(t) ==
  /\ ~ invalid
  /\ todo[t] = {}
  /\ \E h \in holds[t] :
       /\ dirty' = dirty \cup {h[1]}
       /\ unflushed' = unflushed \cup {h[2]}
  /\ UNCHANGED <<capacity, c, key, expired, holds, todo, flushing, invalid>>

Release(t) ==
  /\ ~ invalid
  /\ holds[t] # {} /\ todo[t] = {}
  /\ holds' = [holds EXCEPT ![t] = {}]
  /\ UNCHANGED <<capacity, c, key, dirty, expired, todo, flushing, unflushed, invalid>>

\* flush: references to the blocks of the owner are collected under the mutex,
flush(t, w) ==
  /\ ~ invalid
  /\ holds[t] = {} /\ c.owner_tables[w] # {}
  /\ holds' = [holds EXCEPT ![t] = {<<o, key[o]>> : o \in c.owner_tables[w]}]
  /\ todo' = [todo EXCEPT ![t] = c.owner_tables[w]]
  /\ UNCHANGED <<capacity, c, key, dirty, expired, flushing, unflushed, invalid>>

\* and flushed one by one, in the order of their addresses, without it.  A flush
\* that fails ends it by throwing.
FlushBlock(t) ==
  /\ ~ invalid
  /\ todo[t] # {}
  /\ LET o == Min(todo[t])
     IN  \/ /\ todo' = [todo EXCEPT ![t] = @ \ {o}]
            /\ dirty' = dirty \ {o}
            /\ unflushed' = IF o \in dirty THEN unflushed \ {key[o]} ELSE unflushed
            /\ holds' = IF todo[t] = {o} THEN [holds EXCEPT ![t] = {}] ELSE holds
         \/ /\ o \in dirty
            /\ todo' = [todo EXCEPT ![t] = {}]
            /\ holds' = [holds EXCEPT ![t] = {}]
            /\ UNCHANGED <<dirty, unflushed>>
  /\ UNCHANGED <<capacity, c, key, expired, flushing, invalid>>

\* doFlush in a background thread.
doFlush(o) ==
  /\ ~ invalid
  /\ o \in flushing
  /\ flushing' = flushing \ {o}
  /\ \/ /\ dirty' = dirty \ {o}
        /\ unflushed' = IF o \in dirty THEN unflushed \ {key[o]} ELSE unflushed
     \/ o \in dirty /\ UNCHANGED <<dirty, unflushed>>
  /\ UNCHANGED <<capacity, c, key, expired, holds, todo, invalid>>

Disown(w) ==
  [c EXCEPT !.owners = [o \in Objects |-> @[o] \ {w}], !.owner_tables[w] = {}]

\* drop: the blocks stay in the cache without their owner,
drop(w) ==
  /\ ~ invalid
  /\ c.owner_tables[w] # {}
  /\ c' = Disown(w)
  /\ UNCHANGED <<capacity, key, dirty, expired, holds, todo, flushing, unflushed, invalid>>

\* or are removed with it, whether they are dirty or in use, or have other
\* owners.  The order is that of the addresses of the objects.
DropForce(w) ==
  /\ ~ invalid
  /\ c.owner_tables[w] # {}
  /\ (IF c.owner_tables[w] \cap Referenced = {} THEN "unused" ELSE "used") \in ForcedDrops
  /\ \E items \in Orders(c.owner_tables[w]) :
       c' = RemoveEach(Disown(w), items, c.owner_tables[w])
  /\ unflushed' = unflushed \ {key[o] : o \in c.owner_tables[w]}
  /\ dirty' = dirty \ (c.owner_tables[w] \ Referenced)
  /\ expired' = expired \ c.owner_tables[w]
  /\ UNCHANGED <<capacity, key, holds, todo, flushing, invalid>>

\* Time passes; blocks expire in the order of their last access.
Age ==
  /\ ~ invalid
  /\ \E i \in DOMAIN c.cache :
       /\ c.cache[i] \notin expired
       /\ \A j \in DOMAIN c.cache : j > i => c.cache[j] \in expired
       /\ expired' = expired \cup {c.cache[i]}
  /\ UNCHANGED <<capacity, c, key, dirty, holds, todo, flushing, unflushed, invalid>>

changeConfiguration(cap) ==
  /\ ~ invalid
  /\ capacity # cap
  /\ capacity' = cap
  /\ UNCHANGED <<c, key, dirty, expired, holds, todo, flushing, unflushed, invalid>>

-----------------------------------------------------------------------------
Next ==
  \/ \E t \in Threads, w \in Owners :
       \/ \E k \in Keys, m \in {"CREATE", "STANDARD"} : getDataKey(t, w, k, m)
       \/ flush(t, w)
  \/ \E t \in Threads : Write(t) \/ Release(t) \/ FlushBlock(t)
  \/ \E o \in Objects : doFlush(o)
  \/ Age
  \/ \E w \in Owners : drop(w) \/ DropForce(w)
  \/ \E cap \in Capacities : changeConfiguration(cap)

Spec == Init /\ [][Next]_vars

-----------------------------------------------------------------------------
\* The sums of the prefixes of a sequence of numbers.
Sums(q) == LET upto[n \in 0..Len(q)] == IF n = 0 THEN 0 ELSE upto[n - 1] + q[n] IN upto

\* The capacities of the items of a list, when at[o] is the key of object o.
Sizes(at, s) == [i \in 1..Len(s) |-> Size[at[s[i]]]]
Total(at, s) == Sums(Sizes(at, s))[Len(s)]

\* The structures are of their types and agree: an object is cached under its key exactly if it is in
\* the list, owners and owner tables mirror each other, list and pool share no
\* object, and the sizes are those of what they count.
Consistent ==
  /\ TypeOK
  /\ \A k \in Keys : c.lookup[k] # None =>
       c.lookup[k] \in Range(c.cache) /\ key[c.lookup[k]] = k
  /\ \A i \in DOMAIN c.cache : c.lookup[key[c.cache[i]]] = c.cache[i]
  /\ \A w \in Owners : c.owner_tables[w] =
       {o \in Range(c.cache) : w \in c.owners[o]}
  /\ Range(c.cache) \cap Range(c.unused_items) = {}
  /\ c.current_size = Total(key, c.cache)
  /\ c.unused_size = Total(key, c.unused_items)

\* "Return the data block associated with the supplied owner and block number":
\* as long as a thread holds the block, it is not given to another key.
HeldIsMine == \A t \in Threads : \A h \in holds[t] : key[h[1]] = h[2]

\* What has not been flushed is in a dirty block of the cache, where
\* the next thread that asks for the key finds it: neither cache pressure nor
\* the end of an owner loses a write.
UnflushedIsCached ==
  \A k \in unflushed : c.lookup[k] # None /\ c.lookup[k] \in dirty

\* "Maximum size of the cache (hard cap)".
HardCap == c.current_size <= capacity

\* "If cache size exceeds capacity, we have to force remove data keys": the
\* walk that does so stays within the list.
ForcedWalkStays == ~ invalid
=============================================================================
