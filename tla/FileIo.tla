------------------------------- MODULE FileIo -------------------------------
(***************************************************************************)
(* One file and the processes that have it open: FileIo objects, their     *)
(* cached data blocks, the background flushes and readaheads of the thread *)
(* pool, and the keys of the file in the cluster.                          *)
(*                                                                         *)
(* A value is abstracted to its size.  A method of DataBlock runs under    *)
(* the mutex of the block and is one step here (module DataBlock has its   *)
(* steps and its content); so is a request to the cluster.  Between two    *)
(* such steps of a call the background threads, other processes and time   *)
(* move on.  Each process has at most one FileIo object at a time.         *)
(***************************************************************************)
EXTENDS Integers, FiniteSetsExt, SequencesExt

CONSTANTS
  Processes,
  LastBlock,    \* highest block number used
  Capacity,     \* block capacity: max_value_size of the cluster
  Attributes,   \* names of attributes, numbered in the order of their keys
  PageSize,     \* max_range_elements of the cluster
  Drives,
  Holders,      \* the drives that hold the chunks of each block
  Existing,     \* sizes of the file left by earlier processes
  Writes,       \* <<offset, length>> of the writes, reads and offsets of the
  Reads,        \*   truncations that clients ask for
  Truncations,
  Operations,   \* the calls each process makes
  MaxCalls,     \* bound on the number of calls
  MaxFaults,    \* bound on the number of failing requests
  MaxElapse,    \* bound on the number of times the expiration time passes
  MaxTasks      \* bound on the number of queued tasks of a process

Blocks == 0..LastBlock
Objects == 1..(LastBlock + 1)
FileSizes == 0..((LastBlock + 1) * Capacity)
Methods == {"Open", "Create", "Write", "Read", "Stat", "Sync", "Close", "Truncate",
            "Remove", "attrSet", "attrDelete", "destroy"}

ASSUME FileAssumption ==
  /\ LastBlock \in Nat /\ Capacity \in Nat \ {0} /\ PageSize \in Nat \ {0, 1}
  /\ Attributes \subseteq Nat /\ IsFiniteSet(Attributes)
  /\ Holders \in [Blocks -> SUBSET Drives \ {{}}]
  /\ \A w \in Writes \cup Reads : w[1] \in FileSizes /\ w[2] > 0 /\ w[1] + w[2] \in FileSizes
  /\ Existing \subseteq FileSizes
  /\ Truncations \subseteq 0..((LastBlock + 1) * Capacity - 1)
  /\ Operations \in [Processes -> SUBSET Methods]

\* A key that is not stored, a string or truncation that does not exist.
None == -1

VARIABLES
  stored,   \* the sizes of the data keys, None for a key that does not exist
  md,       \* the metadata key exists
  attrs,    \* the attribute keys that exist
  proc,     \* the FileIo object, the cache and the queued tasks of each process
  call,     \* the call each process is in
  expect,   \* what stored ought to be once all writes are flushed (history)
  regular,  \* nothing has happened that the README lists as irregular (history)
  current,  \* the processes that may trust what they know of the file (history)
  calls, faults, elapsed

vars == <<stored, md, attrs, proc, call, expect, regular, current, calls, faults, elapsed>>

-----------------------------------------------------------------------------
(***************************************************************************)
(* Data blocks, abstracted to sizes.  end is the end of the unflushed      *)
(* writes since the last unflushed truncation, cut the size it cut to.     *)
(***************************************************************************)

NewBlock(b, create) ==
  [blk |-> b, size |-> 0, end |-> 0, cut |-> None, local |-> FALSE, held |-> None,
   create |-> create, ver |-> "none", fresh |-> create]

\* reassign keeps the strings, and a new mode CREATE does not make it fresh.
Reassigned(d, b, create) ==
  [NewBlock(b, create) EXCEPT !.local = d.local, !.held = d.held, !.fresh = FALSE]

Updated(d) == d.end > 0 \/ d.cut # None
Dirty(d) == Updated(d) \/ (d.create /\ d.ver = "none")

Merged(d, s) == Max({IF d.cut = None THEN s ELSE d.cut, d.end})

getRemoteValue(d, s) ==
  LET e == [d EXCEPT !.fresh = TRUE, !.ver = IF s = None THEN "none" ELSE "same"]
  IN  CASE s # None /\ Updated(d)   -> [e EXCEPT !.size = Merged(d, s), !.local = TRUE, !.held = None]
        [] s # None /\ ~ Updated(d) -> [e EXCEPT !.size = s, !.local = FALSE, !.held = s]
        [] s = None /\ Updated(d)   -> [e EXCEPT !.local = @ \/ d.held # None, !.held = None]
        [] s = None /\ ~ Updated(d) -> [e EXCEPT !.local = FALSE]

\* validateVersion, and getRemoteValue if it returns false.
Validated(d, s) ==
  CASE d.fresh -> d
    [] ~ d.fresh /\ (d.ver = "same" \/ (d.ver = "none" /\ d.create /\ s = None)) ->
         [d EXCEPT !.fresh = TRUE]
    [] OTHER -> getRemoteValue(d, s)

\* DataBlock::read dereferences a null pointer: there is a size and no string.
ReadCrashes(d, offset) == d.size > offset /\ ~ d.local /\ d.held = None

Written(d, offset, length) ==
  [d EXCEPT !.size = Max({@, offset + length}), !.end = Max({@, offset + length}),
            !.local = TRUE, !.held = None]

Truncated(d, offset) == [d EXCEPT !.size = offset, !.cut = offset, !.end = 0]

\* flush: the block as it is when the final put is sent, the size of the value
\* put, and the block after an answer.
ToPut(d, s) ==
  LET get == \/ d.ver = "old"
             \/ d.ver = "none" /\ (~ d.create \/ s # None)
      e == IF get THEN getRemoteValue(d, s) ELSE d
  IN  IF ~ e.local /\ e.held = None THEN [e EXCEPT !.held = 0] ELSE e

PutSize(e) == IF e.local THEN e.size ELSE e.held

Flushed(e) == [e EXCEPT !.end = 0, !.cut = None, !.ver = "same", !.fresh = TRUE]

-----------------------------------------------------------------------------
(***************************************************************************)
(* The state of a process: the FileIo object, the part of the data cache   *)
(* with the blocks of the file, the flushes and readaheads queued with the *)
(* thread pool.  The operators return the state after an operation.        *)
(***************************************************************************)

NewProcess ==
  [opened |-> FALSE, eof |-> 0, verified |-> FALSE, exceptions |-> 0,
   lookup |-> [b \in Blocks |-> 0], owned |-> {}, unused |-> <<>>,
   obj |-> [o \in Objects |-> NewBlock(0, FALSE)],
   flushes |-> [o \in Objects |-> 0], readaheads |-> {}, dangling |-> FALSE]

Cached(P) == {b \in Blocks : P.lookup[b] # 0}
InCache(P) == {P.lookup[b] : b \in Cached(P)}
Allocated(P) == InCache(P) \cup Range(P.unused)
Queued(P) == SumFunction(P.flushes) + Cardinality(P.readaheads)

\* DataCache::getDataKey: the cached block, the last one given back, or a new one.
getDataKey(P, b, create) ==
  LET new == Min(Objects \ Allocated(P))
      o == IF P.unused # <<>> THEN Head(P.unused) ELSE new
      Q == [P EXCEPT !.owned = @ \cup {b}]
  IN  IF P.lookup[b] # 0 THEN Q
      ELSE [Q EXCEPT !.lookup[b] = o,
                     !.unused = IF @ # <<>> THEN Tail(@) ELSE @,
                     !.obj[o] = IF P.unused # <<>> THEN Reassigned(@, b, create)
                                                   ELSE NewBlock(b, create)]

BlockOf(P, b) == P.obj[P.lookup[b]]
WithBlock(P, b, d) == [P EXCEPT !.obj[P.lookup[b]] = d]

\* DataCache::drop: blocks stay cached unless the drop is forced; then they are
\* given back, dirty or not, in the order of the owner's table.  (Of a block that
\* no queued flush can see any more only what reassign keeps is remembered.)
drop(P, force, order) ==
  IF ~ force THEN [P EXCEPT !.owned = {}]
  ELSE [P EXCEPT !.owned = {}, !.unused = order \o @,
                 !.lookup = [b \in Blocks |-> IF b \in P.owned THEN 0 ELSE @[b]],
                 !.obj = [o \in Objects |->
                            IF o \in Range(order) /\ P.flushes[o] = 0
                              THEN Reassigned(@[o], 0, FALSE) ELSE @[o]]]

DropOrders(P) == SetToSeqs({P.lookup[b] : b \in P.owned})

\* The version another block has of a key is outdated when the key changes.
Outdated(ps, b, p, o) ==
  [q \in Processes |->
     [ps[q] EXCEPT !.obj = [x \in Objects |->
        IF @[x].blk = b /\ @[x].ver = "same" /\ <<q, x>> # <<p, o>>
          THEN [@[x] EXCEPT !.ver = "old"] ELSE @[x]]]]

\* scheduleReadahead: blocks before the end of the file are brought into the
\* cache and read in the background, which ones the PrefetchOracle decides (here
\* at most one at a time); try_run may refuse.
Ahead(P) == {{}} \cup {{b} : b \in 0..(P.eof - 1)}
scheduleReadahead(P, ahead, accepted) ==
  LET Q == FoldSet(LAMBDA b, R : getDataKey(R, b, FALSE), P, ahead)
  IN  [Q EXCEPT !.readaheads = @ \cup {Q.lookup[b] : b \in accepted}]

-----------------------------------------------------------------------------
(***************************************************************************)
(* The keys of the file.                                                   *)
(***************************************************************************)

FirstN(S, n) == {b \in S : Cardinality({c \in S : c < b}) < n}
LastN(S, n) == {b \in S : Cardinality({c \in S : c > b}) < n}
OnDrive(d) == {b \in Blocks : stored[b] # None /\ d \in Holders[b]}

\* KineticCluster::range: the union of the answers of the drives, in ascending
\* order, cut to the number of keys asked for.
RangeFrom(b) ==
  FirstN(UNION {FirstN({c \in OnDrive(d) : c >= b}, PageSize) : d \in Drives}, PageSize)
RangeReverse(n) == FirstN(UNION {LastN(OnDrive(d), n) : d \in Drives}, n)

\* get_eof_backend, if it does not throw: 0 without data keys.
get_eof_backend == IF RangeReverse(1) = {} THEN 0 ELSE Min(RangeReverse(1))
FileFound == RangeReverse(1) # {} \/ md

\* The size of the file that the data keys, or the writes of all clients, make up.
SizeOf(keys) ==
  LET blocks == {b \in Blocks : keys[b] # None}
  IN  IF blocks = {} THEN 0 ELSE Max(blocks) * Capacity + keys[Max(blocks)]

-----------------------------------------------------------------------------
(***************************************************************************)
(* Calls.  A call is in state op, at step pc; pc is "returned" or "threw"  *)
(* between calls.                                                          *)
(***************************************************************************)

NoCall(pc) == [op |-> "none", pc |-> pc, off |-> 0, at |-> 0, len |-> 0, todo |-> {},
               more |-> FALSE, names |-> <<>>]
Idle(p) == call[p].op = "none"

\* There is no file yet, or one without holes and with one attribute.
Init ==
  /\ \/ stored = [b \in Blocks |-> None] /\ md = FALSE /\ attrs = {}
     \/ /\ \E size \in Existing : stored = [b \in Blocks |->
             IF b * Capacity < size THEN Min({Capacity, size - b * Capacity}) ELSE None]
        /\ md = TRUE
        /\ attrs = FirstN(Attributes, 1)
  /\ proc = [p \in Processes |-> NewProcess]
  /\ call = [p \in Processes |-> NoCall("returned")]
  /\ expect = stored
  /\ regular = TRUE
  /\ current = Processes
  /\ calls = 0 /\ faults = 0 /\ elapsed = 0

keyVars == <<stored, md, attrs>>
historyVars == <<expect, regular, current>>

\* A client makes the call m.
Called(p, m) ==
  /\ Idle(p)
  /\ m \in Operations[p]
  /\ calls < MaxCalls
  /\ calls' = calls + 1
  /\ UNCHANGED elapsed

Fault == faults < MaxFaults /\ faults' = faults + 1
NoFault == UNCHANGED faults

Goto(p, pc) == call' = [call EXCEPT ![p].pc = pc]
Return(p) == call' = [call EXCEPT ![p] = NoCall("returned")]
Throw(p) == call' = [call EXCEPT ![p] = NoCall("threw")]
Crash(p) == call' = [call EXCEPT ![p] = [NoCall("crashed") EXCEPT !.op = "crashed"]]
Begin(p, op, pc, off, len) ==
  call' = [call EXCEPT ![p] = [NoCall(pc) EXCEPT !.op = op, !.off = off, !.at = off, !.len = len]]

\* Clients do not open what is open.  With SFS_O_CREAT: a put of the metadata key on condition that there is none.
Create(p) ==
  /\ Called(p, "Create")
  /\ ~ proc[p].opened
  /\ \/ /\ NoFault
        /\ IF md THEN Throw(p) /\ UNCHANGED <<proc, md>>
           ELSE /\ md' = TRUE
                /\ proc' = [proc EXCEPT ![p] = [@ EXCEPT !.opened = TRUE, !.eof = 0, !.verified = TRUE]]
                /\ Return(p)
     \/ /\ Fault
        /\ Throw(p)
        /\ md' \in {md, TRUE}
        /\ UNCHANGED proc
  /\ UNCHANGED <<stored, attrs, historyVars>>

\* What Open without the flag does if the metadata key is found.
Opened(P) == [P EXCEPT !.opened = TRUE, !.eof = 0, !.verified = FALSE]

Open(p) ==
  /\ Called(p, "Open")
  /\ ~ proc[p].opened
  /\ IF md THEN proc' = [proc EXCEPT ![p] = Opened(@)] /\ Return(p)
           ELSE UNCHANGED proc /\ Throw(p)
  /\ UNCHANGED <<keyVars, historyVars, faults>>

\* The part of a write that falls into block b.
From(b, off) == Max({off - b * Capacity, 0})
To(b, off, len) == Min({off + len - b * Capacity, Capacity})
Touched(off, len) == {b \in Blocks : b * Capacity < off + len /\ (b + 1) * Capacity > off}

WriteBlock(b, off, len, P) ==
  LET create == b > P.eof
      Q == getDataKey([P EXCEPT !.eof = Max({@, b})], b, create)
      o == Q.lookup[b]
      R == [Q EXCEPT !.obj[o] = Written(@, From(b, off), To(b, off, len) - From(b, off))]
  IN  IF To(b, off, len) = Capacity THEN [R EXCEPT !.flushes[o] = @ + 1] ELSE R

\* ReadWrite in mode WRITE.  It waits for nothing but the queue of the thread
\* pool: the blocks are written one after the other in one step.
Write(p, off, len) ==
  LET P == proc[p]
      W == FoldLeft(LAMBDA R, b : WriteBlock(b, off, len, R), P,
                    SetToSortSeq(Touched(off, len), <))
  IN  /\ Called(p, "Write")
      /\ P.opened
      /\ IF P.exceptions > 0
           THEN /\ proc' = [proc EXCEPT ![p].exceptions = @ - 1]
                /\ Throw(p)
                /\ UNCHANGED expect
           ELSE /\ \E ahead \in Ahead(W) : \E accepted \in SUBSET ahead :
                     proc' = [proc EXCEPT ![p] = scheduleReadahead(W, ahead, accepted)]
                /\ Queued(proc'[p]) <= MaxTasks
                /\ expect' = [b \in Blocks |->
                     IF b \in Touched(off, len) THEN Max({expect[b], To(b, off, len)})
                                                ELSE expect[b]]
                /\ Return(p)
      /\ regular' = /\ regular
                    /\ md
                    /\ \A q \in Processes : call[q].op \notin {"Truncate", "Remove"}
      /\ UNCHANGED <<keyVars, current, faults>>

-----------------------------------------------------------------------------
\* The end of file is taken for verified, or verify_eof asks the cluster first.
ToEnd(P) == IF P.verified THEN "end" ELSE "eof"

Stat(p) ==
  LET P == IF proc[p].opened THEN proc[p] ELSE Opened(proc[p])
  IN  /\ Called(p, "Stat")
      /\ IF proc[p].opened \/ md
           THEN proc' = [proc EXCEPT ![p] = P] /\ Begin(p, "Stat", ToEnd(P), 0, 0)
           ELSE UNCHANGED proc /\ Throw(p)
      /\ UNCHANGED <<keyVars, historyVars, faults>>

Read(p, off, len) ==
  /\ Called(p, "Read")
  /\ proc[p].opened
  /\ IF proc[p].exceptions > 0
       THEN proc' = [proc EXCEPT ![p].exceptions = @ - 1] /\ Throw(p)
       ELSE UNCHANGED proc /\ Begin(p, "Read", "block", off, len)
  /\ UNCHANGED <<keyVars, historyVars, faults>>

\* A step of a call that is under way.
Step(p, pc) == call[p].pc = pc /\ UNCHANGED <<calls, elapsed>>

At(p) == call[p].at \div Capacity
ReadEnd(p) == call[p].off + call[p].len

\* One round of the loop of ReadWrite in mode READ: the block is brought up to
\* date; only at the last known block the end of the file has to be looked up.
ReadBlock(p) ==
  LET b == At(p)
      P == getDataKey(proc[p], b, FALSE)
      next == (b + 1) * Capacity
  IN  /\ Step(p, "block")
      /\ \E ahead \in Ahead(P) : \E accepted \in SUBSET ahead :
           LET Q == scheduleReadahead(P, ahead, accepted)
               d == Validated(BlockOf(Q, b), stored[b])
           IN  /\ Queued(Q) <= MaxTasks
               /\ proc' = [proc EXCEPT ![p] = WithBlock(Q, b, d)]
               /\ regular' = (regular /\ ~ ReadCrashes(d, call[p].at - b * Capacity))
               /\ IF ReadCrashes(d, call[p].at - b * Capacity) THEN Crash(p)
                  ELSE IF b >= Q.eof THEN Goto(p, ToEnd(Q))
                  ELSE IF next >= ReadEnd(p) THEN Return(p)
                  ELSE call' = [call EXCEPT ![p].at = next]
      /\ UNCHANGED <<keyVars, expect, current, faults>>

\* After verify_eof: a read that is not at the end after all goes on.
Verified(p, eof) == IF call[p].op = "Read" /\ At(p) < eof THEN "block" ELSE "end"

\* verify_eof up to the first answer of the cluster.
VerifyEof(p) ==
  LET P == [proc[p] EXCEPT !.verified = TRUE]
  IN  /\ Step(p, "eof")
      /\ IF ~ FileFound THEN proc' = [proc EXCEPT ![p] = P] /\ Throw(p)
         ELSE IF get_eof_backend >= P.eof
           THEN /\ proc' = [proc EXCEPT ![p] = [P EXCEPT !.eof = get_eof_backend]]
                /\ Goto(p, Verified(p, get_eof_backend))
           ELSE proc' = [proc EXCEPT ![p] = P] /\ Goto(p, "dirty")
      /\ UNCHANGED <<keyVars, historyVars, faults>>

\* Mutant: the unflushed last block is not looked at.
VerifyDirtyNot(p) ==
  /\ Step(p, "dirty")
  /\ Goto(p, "again")
  /\ UNCHANGED <<keyVars, proc, historyVars, faults>>

\* The file is longer than the cluster knows if the last block is not flushed.
VerifyDirty(p) ==
  LET P == getDataKey(proc[p], proc[p].eof, FALSE)
  IN  /\ Step(p, "dirty")
      /\ proc' = [proc EXCEPT ![p] = P]
      /\ Goto(p, IF Dirty(BlockOf(P, P.eof)) THEN Verified(p, P.eof) ELSE "again")
      /\ UNCHANGED <<keyVars, historyVars, faults>>

\* Otherwise it is asked again: the block may have been flushed in between.
VerifyAgain(p) ==
  /\ Step(p, "again")
  /\ IF ~ FileFound THEN Throw(p) /\ UNCHANGED proc
     ELSE proc' = [proc EXCEPT ![p].eof = get_eof_backend] /\ Goto(p, Verified(p, get_eof_backend))
  /\ UNCHANGED <<keyVars, historyVars, faults>>

\* The last step of Stat and of a Read that reaches the end: the size of the
\* last block, or of the one just read.
SizeBlock(p) == IF call[p].op = "Stat" THEN proc[p].eof ELSE At(p)

Measure(p) ==
  LET b == SizeBlock(p)
      P == getDataKey(proc[p], b, FALSE)
  IN  /\ Step(p, "end")
      /\ proc' = [proc EXCEPT ![p] = WithBlock(P, b, Validated(BlockOf(P, b), stored[b]))]
      /\ Return(p)
      /\ UNCHANGED <<keyVars, historyVars, faults>>

\* What they return, in the state P of the process after that step.
StatSize(P) == P.eof * Capacity + BlockOf(P, P.eof).size
ReadCount(p, P) ==
  LET b == At(p)
      end == Min({ReadEnd(p), (b + 1) * Capacity, b * Capacity + BlockOf(P, b).size})
  IN  Max({end, call[p].at}) - call[p].off

-----------------------------------------------------------------------------
(***************************************************************************)
(* Flushing.                                                               *)
(***************************************************************************)

DirtyObjects(P) == {o \in InCache(P) : Dirty(P.obj[o])}
OwnDirty(P) == {P.lookup[b] : b \in P.owned} \cap DirtyObjects(P)

\* A FileIo object whose Close has thrown has forgotten that it has these.
DirtyPastEof(P) == {b \in Cached(P) : b > P.eof /\ Dirty(BlockOf(P, b))}

\* Mutant: the final put clears the updates whatever its status is.
FlushBlockForgets(p, o, P, outcome, thrown) ==
  LET b == P.obj[o].blk
      e == ToPut(P.obj[o], stored[b])
      Q == [proc EXCEPT ![p] = [P EXCEPT !.obj[o] = Flushed(e)]]
      put == outcome # "failed"
  IN  /\ stored' = IF put THEN [stored EXCEPT ![b] = PutSize(e)] ELSE stored
      /\ proc' = IF put THEN Outdated(Q, b, p, o) ELSE Q
      /\ regular' = (regular /\ thrown \notin {"Truncate", "destroyed"})
      /\ current' = {q \in current : (q = p \/ ~ put) /\ ~ (q = p /\ thrown = "Close")}

\* DataBlock::flush of object o, where P is the state of p before.  The final put
\* succeeds, or fails, in which case the cluster may have carried it out and the
\* operation thrown, if any, ends.
FlushBlock(p, o, P, outcome, thrown) ==
  LET b == P.obj[o].blk
      e == ToPut(P.obj[o], stored[b])
      after == CASE outcome = "ok"      -> Flushed(e)
                 [] outcome = "failed"  -> e
                 [] outcome = "applied" -> [e EXCEPT !.ver = IF @ = "same" THEN "old" ELSE @]
      Q == [proc EXCEPT ![p] = [P EXCEPT !.obj[o] = after]]
      put == outcome # "failed"
  IN  /\ stored' = IF put THEN [stored EXCEPT ![b] = PutSize(e)] ELSE stored
      /\ proc' = IF put THEN Outdated(Q, b, p, o) ELSE Q
      /\ regular' = /\ regular
                    /\ thrown \notin {"Truncate", "destroyed"}
                    /\ put => PutSize(e) = e.size /\ o \in InCache(P)
      /\ current' = {q \in current : (q = p \/ ~ put) /\ ~ (q = p /\ thrown = "Close")}

\* doFlush, run by a thread of the pool.  After the FileIo object is gone, to
\* remember an exception in it is undefined behaviour.
doFlush(p, o) ==
  LET P == [proc[p] EXCEPT !.flushes[o] = @ - 1]
      Q == [P EXCEPT !.dangling = @ /\ SumFunction(P.flushes) > 0]
      R == [Q EXCEPT !.exceptions = @ + 1]
  IN  /\ proc[p].flushes[o] > 0
      /\ call[p].op # "crashed"
      /\ IF ~ Dirty(Q.obj[o])
           THEN proc' = [proc EXCEPT ![p] = Q] /\ UNCHANGED <<stored, call, regular, current, faults>>
           ELSE \/ NoFault /\ FlushBlock(p, o, Q, "ok", "none") /\ UNCHANGED call
                \/ /\ Fault
                   /\ \E outcome \in {"failed", "applied"} :
                        \/ FlushBlock(p, o, R, outcome, "none") /\ UNCHANGED call
                        \/ /\ proc[p].dangling
                           /\ FlushBlock(p, o, Q, outcome, "destroyed")
                           /\ UNCHANGED call \/ Crash(p)
      /\ UNCHANGED <<md, attrs, expect, calls, elapsed>>

do_readahead(p, o) ==
  LET d == Validated(proc[p].obj[o], stored[proc[p].obj[o].blk])
  IN  /\ o \in proc[p].readaheads
      /\ call[p].op # "crashed"
      /\ proc' = [proc EXCEPT ![p] = [@ EXCEPT !.readaheads = @ \ {o}, !.obj[o] = d]]
      /\ regular' = (regular /\ ~ ReadCrashes(d, 0))
      /\ IF ReadCrashes(d, 0) THEN Crash(p) ELSE UNCHANGED call
      /\ UNCHANGED <<keyVars, expect, current, calls, faults, elapsed>>

Sync(p) ==
  /\ Called(p, "Sync")
  /\ Begin(p, "Sync", "flush", 0, 0)
  /\ UNCHANGED <<keyVars, proc, historyVars, faults>>

Close(p) ==
  /\ Called(p, "Close")
  /\ proc' = [proc EXCEPT ![p] = [@ EXCEPT !.eof = 0, !.opened = FALSE]]
  /\ Begin(p, "Close", "flush", 0, 0)
  /\ UNCHANGED <<keyVars, historyVars, faults>>

\* DataCache::flush: the dirty blocks of the owner, one after the other.
CacheFlush(p) ==
  /\ Step(p, "flush")
  /\ \E o \in OwnDirty(proc[p]) :
       \/ NoFault /\ FlushBlock(p, o, proc[p], "ok", "none") /\ UNCHANGED call
       \/ /\ Fault
          /\ \E outcome \in {"failed", "applied"} :
               FlushBlock(p, o, proc[p], outcome, call[p].op)
          /\ Throw(p)
  /\ UNCHANGED <<md, attrs, expect>>

\* All are flushed.
CacheFlushed(p) ==
  LET op == call[p].op
  IN  /\ Step(p, "flush")
      /\ OwnDirty(proc[p]) = {}
      /\ \E order \in DropOrders(proc[p]) :
           proc' = [proc EXCEPT ![p] = IF op = "Sync" THEN @ ELSE drop(@, op = "Truncate", order)]
      /\ IF op = "Truncate" THEN Goto(p, "range") ELSE Return(p)
      /\ UNCHANGED <<keyVars, historyVars, faults>>

-----------------------------------------------------------------------------
(***************************************************************************)
(* Truncate and Remove.  A truncation has no defined result if it throws,  *)
(* if another process is using the file, or if blocks of it are cached     *)
(* that are not owned by this FileIo object: they are not dropped.         *)
(***************************************************************************)

Exclusive(p) ==
  /\ Cached(proc[p]) \subseteq proc[p].owned
  /\ \A q \in Processes \ {p} :
       ~ proc[q].opened /\ Cached(proc[q]) = {} /\ Queued(proc[q]) = 0

Cut(off) == [b \in Blocks |->
  IF off > 0 /\ b = off \div Capacity THEN off % Capacity
  ELSE IF b * Capacity >= off THEN None ELSE expect[b]]

Truncate(p, off) ==
  LET b == off \div Capacity
      P == getDataKey(proc[p], b, FALSE)
  IN  /\ Called(p, "Truncate")
      /\ proc[p].opened
      /\ IF off > 0
           THEN /\ proc' = [proc EXCEPT ![p] = WithBlock(P, b, Truncated(BlockOf(P, b), off % Capacity))]
                /\ Begin(p, "Truncate", "flush", off, 0)
           ELSE /\ \E order \in DropOrders(proc[p]) : proc' = [proc EXCEPT ![p] = drop(@, TRUE, order)]
                /\ Begin(p, "Truncate", "range", off, 0)
      /\ expect' = Cut(off)
      /\ regular' = (regular /\ Exclusive(p))
      /\ UNCHANGED <<keyVars, current, faults>>

\* Mutant: the range starts one block too late.
TruncateRangeLate(p) ==
  LET keys == RangeFrom(call[p].off \div Capacity + 1)
  IN  /\ Step(p, "range")
      /\ call' = [call EXCEPT ![p].pc = "keys", ![p].todo = keys,
                              ![p].more = (Cardinality(keys) = PageSize)]
      /\ UNCHANGED <<keyVars, proc, historyVars, faults>>

\* One page of data keys past the truncated block.
TruncateRange(p) ==
  LET keys == RangeFrom(IF call[p].off > 0 THEN call[p].off \div Capacity + 1 ELSE 0)
  IN  /\ Step(p, "range")
      /\ call' = [call EXCEPT ![p].pc = "keys", ![p].todo = keys,
                              ![p].more = (Cardinality(keys) = PageSize)]
      /\ UNCHANGED <<keyVars, proc, historyVars, faults>>

TruncateKey(p) ==
  LET b == Min(call[p].todo)
  IN  /\ Step(p, "keys")
      /\ call[p].todo # {}
      /\ stored' = [stored EXCEPT ![b] = None]
      /\ proc' = Outdated(proc, b, p, 0)
      /\ call' = [call EXCEPT ![p].todo = @ \ {b}]
      /\ current' = current \cap {p}
      /\ UNCHANGED <<md, attrs, expect, regular, faults>>

\* The page is deleted; after the last one the end of the file is known.
TruncatePage(p) ==
  /\ Step(p, "keys")
  /\ call[p].todo = {}
  /\ IF call[p].more THEN Goto(p, "range") /\ UNCHANGED proc
     ELSE /\ proc' = [proc EXCEPT ![p].eof = call[p].off \div Capacity]
          /\ IF call[p].op = "Remove" THEN Goto(p, "md") ELSE Return(p)
  /\ regular' = (regular /\ Exclusive(p))
  /\ UNCHANGED <<keyVars, expect, current, faults>>

RemoveFile(p) ==
  /\ Called(p, "Remove")
  /\ IF proc[p].opened \/ md
       THEN /\ proc' = [proc EXCEPT ![p] = IF @.opened THEN @ ELSE Opened(@)]
            /\ Begin(p, "Remove", "list", 0, 0)
            /\ regular' = (regular /\ Exclusive(p))
       ELSE UNCHANGED <<proc, regular>> /\ Throw(p)
  /\ UNCHANGED <<keyVars, expect, current, faults>>

\* One page of attrList; the next one starts with the last name of this one.
attrList(p) ==
  LET names == call[p].names
      page == FirstN({a \in attrs : names = <<>> \/ a >= Last(names)}, PageSize)
  IN  /\ Step(p, "list")
      /\ call' = [call EXCEPT ![p].names = @ \o SetToSortSeq(page, <),
                              ![p].pc = IF Cardinality(page) = PageSize THEN "list" ELSE "names"]
      /\ UNCHANGED <<keyVars, proc, historyVars, faults>>

RemoveAttribute(p) ==
  LET a == Head(call[p].names)
  IN  /\ Step(p, "names")
      /\ call[p].names # <<>>
      /\ attrs' = attrs \ {a}
      /\ IF a \in attrs
           THEN call' = [call EXCEPT ![p].names = Tail(@)]
           ELSE Throw(p)
      /\ UNCHANGED <<stored, md, proc, historyVars, faults>>

RemoveData(p) ==
  /\ Step(p, "names")
  /\ call[p].names = <<>>
  /\ \E order \in DropOrders(proc[p]) : proc' = [proc EXCEPT ![p] = drop(@, TRUE, order)]
  /\ expect' = Cut(0)
  /\ Goto(p, "range")
  /\ UNCHANGED <<keyVars, regular, current, faults>>

RemoveMetadata(p) ==
  /\ Step(p, "md")
  /\ md' = FALSE
  /\ Return(p)
  /\ regular' = (regular /\ Exclusive(p))
  /\ UNCHANGED <<stored, attrs, proc, expect, current, faults>>

-----------------------------------------------------------------------------
attrSet(p, a) ==
  /\ Called(p, "attrSet")
  /\ \/ NoFault /\ attrs' = attrs \cup {a} /\ Return(p)
     \/ Fault /\ attrs' \in {attrs, attrs \cup {a}} /\ Throw(p)
  /\ UNCHANGED <<stored, md, proc, historyVars>>

attrDelete(p, a) ==
  /\ Called(p, "attrDelete")
  /\ attrs' = attrs \ {a}
  /\ IF a \in attrs THEN Return(p) ELSE Throw(p)
  /\ UNCHANGED <<stored, md, proc, historyVars, faults>>

\* The destructor: unflushed data goes "out the window".  The next call of the
\* process is one of a new FileIo object.
destroy(p) ==
  LET P == proc[p]
  IN  /\ Called(p, "destroy")
      /\ \E order \in DropOrders(P) :
           proc' = [proc EXCEPT ![p] =
             [drop(P, TRUE, order) EXCEPT !.opened = FALSE, !.eof = 0, !.verified = FALSE,
                                          !.exceptions = 0,
                                          !.dangling = @ \/ SumFunction(P.flushes) > 0]]
      /\ regular' = (regular /\ OwnDirty(P) = {})
      /\ Return(p)
      /\ UNCHANGED <<keyVars, expect, current, faults>>

\* A request of a call fails with an I/O error, and the call throws.  verify_eof
\* has noted the time of its verification by then.
RequestFails(p) ==
  LET P == proc[p]
      pc == call[p].pc
      b == IF pc = "end" THEN SizeBlock(p) ELSE At(p)
      Q == getDataKey(P, b, FALSE)
  IN  /\ Fault
      /\ \/ /\ pc \in {"block", "end"}
            /\ ~ BlockOf(Q, b).fresh
            /\ proc' = [proc EXCEPT ![p] = Q]
            /\ UNCHANGED <<regular, current>>
         \/ /\ pc \in {"eof", "again"}
            /\ proc' = [proc EXCEPT ![p].verified = TRUE]
            /\ current' = current \ {p}
            /\ UNCHANGED regular
         \/ /\ pc = "list" \/ (pc = "names" /\ call[p].names # <<>>)
            /\ UNCHANGED <<proc, regular, current>>
         \/ /\ pc \in {"range", "md"} \/ (pc = "keys" /\ call[p].todo # {})
            /\ regular' = FALSE
            /\ UNCHANGED <<proc, current>>
      /\ Throw(p)
      /\ UNCHANGED <<keyVars, expect, calls, elapsed>>

\* More than the expiration time passes: everything known has to be verified.
Elapse ==
  /\ elapsed < MaxElapse
  /\ elapsed' = elapsed + 1
  /\ proc' = [p \in Processes |->
       [proc[p] EXCEPT !.verified = FALSE,
                       !.obj = [o \in Objects |-> [@[o] EXCEPT !.fresh = FALSE]]]]
  /\ current' = current \cup {p \in Processes : Idle(p) /\ DirtyPastEof(proc[p]) = {}}
  /\ UNCHANGED <<keyVars, call, expect, regular, calls, faults>>

CallStep(p) ==
  \/ ReadBlock(p) \/ VerifyEof(p) \/ VerifyDirty(p) \/ VerifyAgain(p) \/ Measure(p)
  \/ CacheFlush(p) \/ CacheFlushed(p)
  \/ TruncateRange(p) \/ TruncateKey(p) \/ TruncatePage(p)
  \/ attrList(p) \/ RemoveAttribute(p) \/ RemoveData(p) \/ RemoveMetadata(p)

Request(p) ==
  \/ Create(p) \/ Open(p) \/ Stat(p) \/ Sync(p) \/ Close(p) \/ RemoveFile(p) \/ destroy(p)
  \/ \E w \in Writes : Write(p, w[1], w[2])
  \/ \E r \in Reads : Read(p, r[1], r[2])
  \/ \E off \in Truncations : Truncate(p, off)
  \/ \E a \in Attributes : attrSet(p, a) \/ attrDelete(p, a)

Next ==
  \/ \E p \in Processes : Request(p) \/ CallStep(p) \/ RequestFails(p)
  \/ \E p \in Processes, o \in Objects : doFlush(p, o) \/ do_readahead(p, o)
  \/ Elapse

Spec == Init /\ [][Next]_vars

-----------------------------------------------------------------------------
\* Other processes have no writes to flush and are not cutting the file.
Undisturbed(p) == \A q \in Processes \ {p} :
  DirtyObjects(proc[q]) = {} /\ call[q].op \notin {"Truncate", "Remove"}

\* Nothing a client has written is lost: as long as a stored block is not what the
\* writes and truncations so far make of it, some process has the block in its
\* cache and will flush it, whatever background flushes fail or happen late.
UnflushedIsCached ==
  regular /\ (\A p \in Processes : call[p].op \notin {"Truncate", "Remove"}) =>
    \A b \in Blocks : stored[b] # expect[b] =>
      \E p \in Processes : b \in Cached(proc[p]) /\ Dirty(BlockOf(proc[p], b))

\* Stat reports the size of the file, and Read the number of bytes up to its end,
\* although blocks are flushed between the two looks at the last block: with all
\* writes of the caller, flushed or not, and those of others that are flushed
\* once the expiration time has passed.
SizeExact ==
  [][\A p \in current :
       /\ call[p].pc = "end" /\ call'[p].pc = "returned"
       /\ regular /\ Undisturbed(p)
       => IF call[p].op = "Stat"
            THEN StatSize(proc'[p]) = SizeOf(expect)
            ELSE ReadCount(p, proc'[p]) =
                   Min({call[p].len, Max({SizeOf(expect) - call[p].off, 0})})]_vars

\* Sync, Close and Truncate return only when the cluster has the file as it ought
\* to be; Remove only when nothing of it is left.
ReturnsWhenStored ==
  [][\A p \in Processes :
       /\ call[p].op \in {"Sync", "Close", "Truncate", "Remove"}
       /\ call'[p].pc = "returned" /\ regular' /\ Undisturbed(p)
       => /\ stored' = expect'
          /\ call[p].op = "Remove" => ~ md' /\ stored' = [b \in Blocks |-> None]]_vars

\* "Truncate file to this value": for a single process Stat reports what the calls
\* so far have made of the file, truncations and blocks left in the cache included.
TruncationReported ==
  [][\A p \in current :
       call[p].op = "Stat" /\ call[p].pc = "end" /\ call'[p].pc = "returned" =>
         StatSize(proc'[p]) = SizeOf(expect)]_vars
=============================================================================
