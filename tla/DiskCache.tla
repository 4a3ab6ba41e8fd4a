------------------------------ MODULE DiskCache ------------------------------
(***************************************************************************)
(* The disk cache, src/disk.cpp: blocks that hold one sector each, found   *)
(* by sector or recycled in least-recently-used order, counted references, *)
(* and the write-back of a dirty block by the thread that releases it      *)
(* last.  Its clients are the threads of the file system (fat.cpp): each   *)
(* acquires a block, reads it or writes it under its lock, releases it.    *)
(*                                                                         *)
(* A step runs up to the next point where another thread could observe or  *)
(* change what it uses.  cache_mut is held across steps only by a thread   *)
(* that waits for the lock of the block it found.  A thread that finds no  *)
(* block it can recycle polls: condvar_wait gives cache_mut to whoever is  *)
(* queued on it and comes back (module Mutex).                             *)
(***************************************************************************)
EXTENDS Integers, FiniteSets, SequencesExt, PrioQueue

CONSTANTS Threads,
          Writers,     \* the threads that write as well as read
          Blocks,      \* cache blocks: DISK_CACHE_SIZE
          Sectors,
          BadSectors,  \* the sectors whose transfers may fail
          NoSector     \* cb->d == NULL

ASSUME SectorsAssumption ==
  /\ NoSector \notin Sectors /\ BadSectors \subseteq Sectors
  /\ Writers \subseteq Threads /\ IsFiniteSet(Threads)
  /\ Sectors # {} /\ Blocks # {} /\ IsFiniteSet(Blocks)

VARIABLES
  sector,    \* sector[b]: cb->d and cb->sector_pos
  refcount,  \* refcount[b]: cb->refcount
  err,       \* err[b]: cb->err
  dirty,     \* dirty[b]: cb->dirty
  buf,       \* buf[b]: cb->buf, as one of two contents
  lru,       \* LRU_deq: the most recently used block first
  locked,    \* locked[b]: cb->mut->super._locked
  queued,    \* the threads suspended on the queue of a block's lock
  disk,      \* disk[s]: the contents of the sector s on the disk
  pc, blk, want, \* where the thread t is, its block, the sector it asked for
  again          \* the threads whose acquire will "goto again"

blockVars == <<sector, refcount, err, dirty, buf, lru>>
lockVars  == <<locked, queued>>
vars == <<blockVars, lockVars, disk, pc, blk, want, again>>

Contents == {0, 1}

At(labels, b) == {t \in Threads : pc[t] \in labels /\ blk[t] = b}

Goto(t, label) == pc' = [pc EXCEPT ![t] = label]

\* "hit" and "miss" hold cache_mut, waiting (queued or about to retry) or not.
HoldingCache == {"hit", "hit_wait", "miss", "miss_wait"}
CacheFree == \A t \in Threads : pc[t] \notin HoldingCache

\* The writers counted in the lock's _writerq.
WaitingToWrite == {"hit_wait", "miss_wait", "write_wait"}

Labels == HoldingCache \cup {"out", "look", "found", "filling", "loading", "failed",
  "using", "read_wait", "reading", "write_wait", "writing",
  "release", "last", "try", "flushing", "flushed", "drop"}

\* Who has the lock by rwmutex_writelock or by mutex_lock_or_timeout.
Locking == {"found", "filling", "loading", "writing", "flushing", "flushed"}

\* Which transfers may fail; a block that lost its disk cannot be written.
ReadFails(s)  == s \in BadSectors
WriteFails(s) == s \in BadSectors \cup {NoSector}

\* What the variables of a call hold outside it.
AnyBlock  == CHOOSE b \in Blocks : TRUE
AnySector == CHOOSE s \in Sectors : TRUE

\* setup_disk; clients hold no block yet.
Init ==
  /\ sector = [b \in Blocks |-> NoSector]
  /\ refcount = [b \in Blocks |-> 0]
  /\ err = [b \in Blocks |-> "ok"]
  /\ dirty = [b \in Blocks |-> FALSE]
  /\ buf = [b \in Blocks |-> 0]
  /\ lru = SetToSeq(Blocks)
  /\ locked = [b \in Blocks |-> FALSE]
  /\ queued = {}
  /\ disk = [s \in Sectors |-> 0]
  /\ pc = [t \in Threads |-> "out"]
  /\ blk = [t \in Threads |-> AnyBlock]
  /\ want = [t \in Threads |-> AnySector]
  /\ again = {}

-----------------------------------------------------------------------------
(* The lock of a block (module RwMutex).                                   *)

\* rwmutex_writelock by t, at the label "at": to the label "to" with the lock,
\* or to "wait" and the queue.
WriteLock(t, at, wait, to) ==
  LET b == blk[t]
  IN  /\ pc[t] = at \/ (pc[t] = wait /\ t \notin queued)
      /\ \/ /\ ~locked[b] /\ At({"reading"}, b) = {}
            /\ locked' = [locked EXCEPT ![b] = TRUE]
            /\ Goto(t, to)
            /\ UNCHANGED queued
         \/ /\ locked[b] \/ At({"reading"}, b) # {}
            /\ queued' = queued \cup {t}
            /\ Goto(t, wait)
            /\ UNCHANGED locked

ReadLock(t) ==
  LET b == blk[t]
  IN  /\ pc[t] = "using" \/ (pc[t] = "read_wait" /\ t \notin queued)
      /\ IF locked[b] \/ At(WaitingToWrite, b) # {}
         THEN queued' = queued \cup {t} /\ Goto(t, "read_wait")
         ELSE UNCHANGED queued /\ Goto(t, "reading")
      /\ UNCHANGED locked

\* Both rwmutex unlocks wake the whole queue.
WakeAll(b) == queued' = {t \in queued : blk[t] # b}

WriteUnlock(b) == locked' = [locked EXCEPT ![b] = FALSE] /\ WakeAll(b)

\* mutex_unlock wakes one waiter and leaves _locked set for it.
MutexUnlock(b) ==
  \/ /\ \A w \in queued : blk[w] # b
     /\ locked' = [locked EXCEPT ![b] = FALSE]
     /\ UNCHANGED queued
  \/ /\ \E w \in queued : blk[w] = b /\ queued' = queued \ {w}
     /\ UNCHANGED locked

-----------------------------------------------------------------------------
(* disk_cache_block_acquire.                                               *)

Acquire(t, s) ==
  /\ pc[t] = "out"
  /\ want' = [want EXCEPT ![t] = s]
  /\ Goto(t, "look")
  /\ UNCHANGED <<blockVars, lockVars, disk, blk, again>>

\* Under cache_mut, the block b is moved to the front.
Take(t, b) ==
  /\ blk' = [blk EXCEPT ![t] = b]
  /\ lru' = <<b>> \o QRemove(b, lru)
  /\ UNCHANGED <<err, dirty, buf, lockVars, disk, want, again>>

\* The blocks a search for s finds, how a block that is found is kept, and
\* which blocks a search that fails may recycle.  Mutants: a block that nobody
\* uses is not found, a reference is not counted, any block is recycled.
CachedInUse(s) == {b \in Blocks : sector[b] = s /\ refcount[b] > 0}
ReferNot(b)    == UNCHANGED refcount
RecyclableAny(b) == TRUE

Cached(s)     == {b \in Blocks : sector[b] = s}
Refer(b)      == refcount' = [refcount EXCEPT ![b] = @ + 1]
Recyclable(b) == refcount[b] = 0

Hit(t) ==
  /\ pc[t] = "look" /\ CacheFree
  /\ \E b \in Cached(want[t]) : Refer(b) /\ Take(t, b)
  /\ Goto(t, "hit")
  /\ UNCHANGED sector

\* The least recently used block that nobody refers to; its dirty flag is
\* neither looked at nor reset.
Miss(t) ==
  /\ pc[t] = "look" /\ CacheFree
  /\ Cached(want[t]) = {}
  /\ \E i \in DOMAIN lru :
       /\ Recyclable(lru[i])
       /\ \A j \in DOMAIN lru : j > i => ~Recyclable(lru[j])
       /\ refcount' = [refcount EXCEPT ![lru[i]] = 1]
       /\ sector' = [sector EXCEPT ![lru[i]] = want[t]]
       /\ Take(t, lru[i])
  /\ Goto(t, "miss")

\* The block is locked, and then cache_mut is unlocked.
EnterFound(t)   == WriteLock(t, "hit", "hit_wait", "found")
                   /\ UNCHANGED <<blockVars, disk, blk, want, again>>
EnterMissing(t) == WriteLock(t, "miss", "miss_wait", "filling")
                   /\ UNCHANGED <<blockVars, disk, blk, want, again>>

\* A block whose transfer failed is released, and the search starts again.
Found(t) ==
  /\ pc[t] = "found" /\ err[blk[t]] # "in_progress"
  /\ WriteUnlock(blk[t])
  /\ Goto(t, IF err[blk[t]] = "error" THEN "release" ELSE "using")
  /\ again' = IF err[blk[t]] = "error" THEN again \cup {t} ELSE again
  /\ UNCHANGED <<blockVars, disk, blk, want>>

Fill(t) ==
  /\ pc[t] = "filling"
  /\ err' = [err EXCEPT ![blk[t]] = "in_progress"]
  /\ Goto(t, "loading")
  /\ UNCHANGED <<sector, refcount, dirty, buf, lru, lockVars, disk, blk, want, again>>

Loaded(t) ==
  LET b == blk[t]
  IN  /\ pc[t] = "loading"
      /\ \/ /\ buf' = [buf EXCEPT ![b] = disk[want[t]]]
            /\ err' = [err EXCEPT ![b] = "ok"]
            /\ Goto(t, "using")
         \/ /\ ReadFails(want[t])
            /\ err' = [err EXCEPT ![b] = "error"]
            /\ Goto(t, "failed")
            /\ UNCHANGED buf
      /\ WriteUnlock(b)
      /\ UNCHANGED <<sector, refcount, dirty, lru, disk, blk, want, again>>

\* The block cannot be found again.
Forget(t) ==
  /\ pc[t] = "failed" /\ CacheFree
  /\ sector' = [sector EXCEPT ![blk[t]] = NoSector]
  /\ Goto(t, "release")
  /\ UNCHANGED <<refcount, err, dirty, buf, lru, lockVars, disk, blk, want, again>>

-----------------------------------------------------------------------------
(* What clients do with a block: fat.cpp reads under the read lock, writes *)
(* under the write lock and marks the block dirty before it unlocks.       *)

StartRead(t) == ReadLock(t) /\ UNCHANGED <<blockVars, disk, blk, want, again>>

EndRead(t) ==
  /\ pc[t] = "reading"
  /\ WakeAll(blk[t])
  /\ Goto(t, "release")
  /\ UNCHANGED <<blockVars, locked, disk, blk, want, again>>

StartWrite(t) == WriteLock(t, "using", "write_wait", "writing")
                 /\ UNCHANGED <<blockVars, disk, blk, want, again>>

\* Mutant: the block is not marked.
EndWriteUnmarked(t) ==
  /\ pc[t] = "writing"
  /\ \E v \in Contents : buf' = [buf EXCEPT ![blk[t]] = v]
  /\ WriteUnlock(blk[t])
  /\ Goto(t, "release")
  /\ UNCHANGED <<sector, refcount, err, dirty, lru, disk, blk, want, again>>

EndWrite(t) ==
  /\ pc[t] = "writing"
  /\ \E v \in Contents : buf' = [buf EXCEPT ![blk[t]] = v]
  /\ dirty' = [dirty EXCEPT ![blk[t]] = TRUE]
  /\ WriteUnlock(blk[t])
  /\ Goto(t, "release")
  /\ UNCHANGED <<sector, refcount, err, lru, disk, blk, want, again>>

-----------------------------------------------------------------------------
(* disk_cache_block_release, also called by an acquire that starts again.  *)

\* Mutant: the last reference is tested for after it is gone.
CountRefsLate(t) ==
  /\ pc[t] = "release"
  /\ Goto(t, IF refcount[blk[t]] = 0 THEN "last" ELSE "drop")
  /\ UNCHANGED <<blockVars, lockVars, disk, blk, want, again>>

\* The count is read without cache_mut.
CountRefs(t) ==
  /\ pc[t] = "release"
  /\ Goto(t, IF refcount[blk[t]] = 1 THEN "last" ELSE "drop")
  /\ UNCHANGED <<blockVars, lockVars, disk, blk, want, again>>

\* flush_block, with a timeout that is past: a lock that is taken is not
\* waited for.
TestDirty(t) ==
  /\ pc[t] = "last"
  /\ Goto(t, IF dirty[blk[t]] THEN "try" ELSE "drop")
  /\ UNCHANGED <<blockVars, lockVars, disk, blk, want, again>>

\* Mutant: the lock is taken, whoever has it.
TryLockBlind(t) ==
  /\ pc[t] = "try"
  /\ locked' = [locked EXCEPT ![blk[t]] = TRUE]
  /\ Goto(t, "flushing")
  /\ UNCHANGED <<blockVars, queued, disk, blk, want, again>>

TryLock(t) ==
  /\ pc[t] = "try"
  /\ locked' = [locked EXCEPT ![blk[t]] = TRUE]
  /\ Goto(t, IF locked[blk[t]] THEN "drop" ELSE "flushing")
  /\ UNCHANGED <<blockVars, queued, disk, blk, want, again>>

\* A transfer that fails leaves the block dirty, and the error is ignored.
Flush(t) ==
  LET b == blk[t]
  IN  /\ pc[t] = "flushing"
      /\ \/ /\ dirty[b] /\ sector[b] \in Sectors
            /\ disk' = [disk EXCEPT ![sector[b]] = buf[b]]
            /\ dirty' = [dirty EXCEPT ![b] = FALSE]
         \/ /\ dirty[b] => WriteFails(sector[b])
            /\ UNCHANGED <<disk, dirty>>
      /\ Goto(t, "flushed")
      /\ UNCHANGED <<sector, refcount, err, buf, lru, lockVars, blk, want, again>>

EndFlush(t) ==
  /\ pc[t] = "flushed"
  /\ MutexUnlock(blk[t])
  /\ Goto(t, "drop")
  /\ UNCHANGED <<blockVars, disk, blk, want, again>>

Drop(t) ==
  /\ pc[t] = "drop" /\ CacheFree
  /\ refcount' = [refcount EXCEPT ![blk[t]] = @ - 1]
  /\ Goto(t, IF t \in again THEN "look" ELSE "out")
  /\ blk' = [blk EXCEPT ![t] = AnyBlock]
  /\ want' = [want EXCEPT ![t] = IF t \in again THEN @ ELSE AnySector]
  /\ again' = again \ {t}
  /\ UNCHANGED <<sector, err, dirty, buf, lru, lockVars, disk>>

-----------------------------------------------------------------------------

UnderCacheMut(t) == Hit(t) \/ Miss(t) \/ Forget(t) \/ Drop(t)

OnBlock(t) ==
  \/ EnterFound(t) \/ EnterMissing(t) \/ Found(t) \/ Fill(t) \/ Loaded(t)
  \/ StartRead(t) \/ EndRead(t) \/ (t \in Writers /\ StartWrite(t)) \/ EndWrite(t)
  \/ CountRefs(t) \/ TestDirty(t) \/ TryLock(t) \/ Flush(t) \/ EndFlush(t)

Next == \E t \in Threads :
          \/ \E s \in Sectors : Acquire(t, s)
          \/ UnderCacheMut(t)
          \/ OnBlock(t)

Spec == Init /\ [][Next]_vars

\* A runnable thread runs (ReadyRuns of module Scheduler), and cache_mut is
\* handed to its waiters in turn; nobody has to ask for a block.
Fairness == \A t \in Threads : WF_vars(OnBlock(t)) /\ SF_vars(UnderCacheMut(t))

FairSpec == Spec /\ Fairness

-----------------------------------------------------------------------------
(* Properties.                                                             *)

\* The variables have their types.
TypeOK ==
  /\ sector \in [Blocks -> Sectors \cup {NoSector}]
  /\ refcount \in [Blocks -> Nat]
  /\ err \in [Blocks -> {"ok", "in_progress", "error"}]
  /\ dirty \in [Blocks -> BOOLEAN]
  /\ buf \in [Blocks -> Contents]
  /\ lru \in Seq(Blocks)
  /\ locked \in [Blocks -> BOOLEAN]
  /\ queued \in SUBSET Threads
  /\ disk \in [Sectors -> Contents]
  /\ pc \in [Threads -> Labels]
  /\ blk \in [Threads -> Blocks]
  /\ want \in [Threads -> Sectors]
  /\ again \in SUBSET Threads

\* The counter that guards a block against recycling, which is read without
\* cache_mut when the block is released, counts the threads that refer to it.
RefcountExact ==
  \A b \in Blocks : refcount[b] = Cardinality(At(Labels \ {"out", "look"}, b))

\* A client has a block of the sector that it asked for, filled without
\* error: it was not recycled, nor given up, while the client waited for it.
\* No two blocks hold the same sector, whoever missed it together.
OwnSector ==
  /\ \A t \in Threads :
       pc[t] \in {"using", "read_wait", "reading", "write_wait", "writing"}
         => sector[blk[t]] = want[t] /\ err[blk[t]] = "ok"
  /\ \A b, c \in Blocks : sector[b] = sector[c] /\ sector[b] # NoSector => b = c

\* Nobody sees a block while it is loaded, or writes to it while it is
\* written back, although flush_block locks it as a plain mutex.
LockExclusive ==
  \A b \in Blocks :
    /\ Cardinality(At(Locking, b)) <= 1
    /\ At(Locking \ {"flushing", "flushed"}, b) # {} => At({"reading"}, b) = {}
    /\ err[b] = "in_progress" => At({"loading"}, b) # {}

\* A block that is not marked dirty agrees with the disk.
CleanMeansWritten ==
  \A b \in Blocks :
    sector[b] \in Sectors /\ At({"miss", "miss_wait", "filling", "loading"}, b) = {}
    /\ err[b] = "ok" /\ ~dirty[b]
      => buf[b] = disk[sector[b]]

\* A block that nobody refers to has been written back.
FreeIsClean == \A b \in Blocks : refcount[b] = 0 => ~dirty[b]

\* The sector s as the next client will see it.
Visible(s) ==
  LET caching == {b \in Blocks : /\ sector[b] = s /\ err[b] = "ok"
                                 /\ At({"miss", "miss_wait", "filling"}, b) = {}}
  IN  IF caching = {} THEN disk[s] ELSE buf[CHOOSE b \in caching : TRUE]

Store == INSTANCE BlockStore
           WITH contents <- [s \in Sectors |-> Visible(s)],
                writing <- {<<t, want[t]>> : t \in {u \in Threads : pc[u] = "writing"}},
                Clients <- Threads, Blank <- 0

\* The cache implements the store of sectors it stands for: what a client
\* reads changes only when a client ends a write to it, and no recycling of a
\* block loses that write or changes another sector.
ImplementsStore == Store!Spec

=============================================================================
