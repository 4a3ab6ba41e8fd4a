--------------------------- MODULE DiskCacheProofs ---------------------------
(***************************************************************************)
(* The disk cache, for any finite sets of threads and of blocks, any       *)
(* sectors, and any of them that fail.  What keeps a client's block from   *)
(* changing under it: the block is recycled only when nobody refers to it, *)
(* so while one thread loads it the others that refer to it have only just *)
(* found it; and the lock they then wait for is the loader's until it is   *)
(* done.                                                                   *)
(***************************************************************************)
EXTENDS DiskCache, PrioQueueProofs, FiniteSetTheorems, SequenceTheorems, TLAPS

LoadLabels == {"miss", "miss_wait", "filling", "loading"}
UseLabels  == {"using", "read_wait", "reading", "write_wait", "writing"}
FindLabels == {"hit", "hit_wait", "found"}

Refers(t) == pc[t] \notin {"out", "look"}

(* cache_mut is held across steps by one thread at most.                   *)
OneHolder ==
  \A t, u \in Threads : pc[t] \in HoldingCache /\ pc[u] \in HoldingCache => t = u

(* The lock of a block.                                                    *)
Locks ==
  /\ \A t \in Threads : pc[t] \in Locking => locked[blk[t]]
  /\ \A t, u \in Threads :
       pc[t] \in Locking /\ pc[u] \in Locking /\ blk[t] = blk[u] => t = u
  /\ \A t, u \in Threads :
       pc[t] \in Locking \ {"flushing", "flushed"} /\ pc[u] = "reading"
         => blk[t] # blk[u]

(* A thread that loads a block, and those that have found it meanwhile.    *)
Loaders ==
  /\ \A t \in Threads : pc[t] \in LoadLabels => sector[blk[t]] = want[t]
  /\ \A t, u \in Threads :
       pc[t] \in LoadLabels /\ Refers(u) /\ blk[u] = blk[t] /\ u # t
         => pc[u] \in {"hit", "hit_wait"}
  /\ \A b \in Blocks : err[b] = "in_progress" =>
       \E t \in Threads : pc[t] = "loading" /\ blk[t] = b

NotLoaded(b) == \A t \in Threads : pc[t] \in LoadLabels => blk[t] # b

(* A thread that found a block, and one that uses it.                      *)
Finders ==
  \A t \in Threads : pc[t] \in FindLabels =>
    \/ sector[blk[t]] = want[t]
    \/ err[blk[t]] = "error" /\ NotLoaded(blk[t])

Users ==
  \A t \in Threads :
    /\ pc[t] \in UseLabels => sector[blk[t]] = want[t] /\ err[blk[t]] = "ok"
    /\ pc[t] = "failed" => err[blk[t]] = "error"

OneBlock == \A b, c \in Blocks : sector[b] = sector[c] /\ sector[b] # NoSector => b = c

Clean ==
  \A b \in Blocks : sector[b] \in Sectors /\ NotLoaded(b) /\ err[b] = "ok" /\ ~dirty[b]
    => buf[b] = disk[sector[b]]

Inv == /\ TypeOK /\ RefcountExact /\ OneHolder /\ Locks
       /\ Loaders /\ Finders /\ Users /\ OneBlock /\ Clean

-----------------------------------------------------------------------------
(* Counting those who refer to a block.                                    *)

Referrers(b) == {t \in Threads : Refers(t) /\ blk[t] = b}

LEMMA RefcountCounts ==
  ASSUME TypeOK
  PROVE  RefcountExact <=> \A b \in Blocks : refcount[b] = Cardinality(Referrers(b))
<1>1. \A b : At(Labels \ {"out", "look"}, b) = Referrers(b)
  BY DEF TypeOK, At, Referrers, Refers
<1>2. QED
  BY <1>1 DEF RefcountExact

LEMMA RefcountCountsNext ==
  ASSUME TypeOK'
  PROVE  RefcountExact' <=> \A b \in Blocks : refcount'[b] = Cardinality(Referrers(b)')
<1>1. \A b : At(Labels \ {"out", "look"}, b)' = Referrers(b)'
  BY DEF TypeOK, At, Referrers, Refers
<1>2. QED
  BY <1>1 DEF RefcountExact

LEMMA ReferrersFinite ==
  \A b : IsFiniteSet(Referrers(b)) /\ Cardinality(Referrers(b)) \in Nat
<1>1. \A b : Referrers(b) \subseteq Threads
  BY DEF Referrers
<1>2. QED
  BY <1>1, SectorsAssumption, FS_Subset, FS_CardinalityType

LEMMA NobodyRefers ==
  ASSUME TypeOK, RefcountExact, NEW b \in Blocks, refcount[b] = 0
  PROVE  \A t \in Threads : Refers(t) => blk[t] # b
<1>1. Referrers(b) = {}
  BY RefcountCounts, ReferrersFinite, FS_EmptySet
<1>2. QED
  BY <1>1 DEF Referrers

LEMMA SomebodyRefers ==
  ASSUME TypeOK, RefcountExact, NEW t \in Threads, Refers(t)
  PROVE  refcount[blk[t]] \in Nat \ {0}
<1>1. t \in Referrers(blk[t]) /\ blk[t] \in Blocks
  BY DEF Referrers, TypeOK
<1>2. QED
  BY <1>1, RefcountCounts, ReferrersFinite, FS_EmptySet

-----------------------------------------------------------------------------
(* A thread t that goes from one label to another with its block.          *)

LEMMA GotoSpec ==
  ASSUME TypeOK, NEW t \in Threads, NEW x \in Labels, Goto(t, x)
  PROVE  /\ pc' \in [Threads -> Labels] /\ pc'[t] = x
         /\ \A u \in Threads : u # t => pc'[u] = pc[u]
BY DEF TypeOK, Goto

LEMMA LocksMove ==
  ASSUME TypeOK, Locks, NEW t \in Threads, NEW x \in Labels, Goto(t, x), UNCHANGED blk,
         \/ UNCHANGED locked /\ x \notin Locking /\ (x = "reading" => ~locked[blk[t]])
         \/ /\ ~locked[blk[t]] /\ locked' = [locked EXCEPT ![blk[t]] = TRUE]
            /\ x # "reading"
            /\ x \in {"flushing", "flushed"}
               \/ \A u \in Threads : ~(pc[u] = "reading" /\ blk[u] = blk[t])
         \/ /\ pc[t] \in Locking /\ x \notin Locking /\ x # "reading"
            /\ locked' \in {locked, [locked EXCEPT ![blk[t]] = FALSE]}
         \/ /\ UNCHANGED locked /\ pc[t] \in Locking /\ x \in Locking
            /\ pc[t] \in {"flushing", "flushed"} <=> x \in {"flushing", "flushed"}
  PROVE  Locks'
<1>1. /\ pc'[t] = x /\ \A u \in Threads : u # t => pc'[u] = pc[u]
      /\ blk' = blk /\ blk \in [Threads -> Blocks] /\ locked \in [Blocks -> BOOLEAN]
      /\ "reading" \notin Locking
  BY GotoSpec DEF TypeOK, Locking
<1>2. CASE UNCHANGED locked /\ x \notin Locking /\ (x = "reading" => ~locked[blk[t]])
  BY <1>1, <1>2 DEF Locks
<1>3. CASE /\ ~locked[blk[t]] /\ locked' = [locked EXCEPT ![blk[t]] = TRUE]
           /\ x # "reading"
           /\ x \in {"flushing", "flushed"}
              \/ \A u \in Threads : ~(pc[u] = "reading" /\ blk[u] = blk[t])
  BY <1>1, <1>3 DEF Locks
<1>4. CASE /\ pc[t] \in Locking /\ x \notin Locking /\ x # "reading"
           /\ locked' \in {locked, [locked EXCEPT ![blk[t]] = FALSE]}
  BY <1>1, <1>4 DEF Locks
<1>5. CASE /\ UNCHANGED locked /\ pc[t] \in Locking /\ x \in Locking
           /\ pc[t] \in {"flushing", "flushed"} <=> x \in {"flushing", "flushed"}
  BY <1>1, <1>5 DEF Locks
<1>6. QED
  BY <1>2, <1>3, <1>4, <1>5

(* It still refers to its block.                                           *)
LEMMA RefersStill ==
  ASSUME TypeOK, RefcountExact, NEW t \in Threads, NEW x \in Labels \ {"out", "look"},
         Refers(t), Goto(t, x), TypeOK', UNCHANGED <<refcount, blk>>
  PROVE  RefcountExact'
<1>1. \A u \in Threads : Refers(u)' <=> Refers(u)
  BY GotoSpec DEF Refers
<1>2. \A b \in Blocks : Referrers(b)' = Referrers(b)
  BY <1>1 DEF Referrers
<1>3. QED
  BY <1>2, RefcountCounts, RefcountCountsNext

(* A step that changes neither what blocks hold nor who loads them.        *)
LEMMA MoveInv ==
  ASSUME Inv, NEW t \in Threads, NEW x \in Labels \ {"out", "look", "failed"},
         Refers(t), Goto(t, x), TypeOK', Locks',
         UNCHANGED <<sector, refcount, err, blk, want>>,
         UNCHANGED <<buf, dirty, disk>> \/ Clean',
         x \in HoldingCache => pc[t] \in HoldingCache,
         x \in LoadLabels <=> pc[t] \in LoadLabels, pc[t] # "loading",
         pc[t] \in {"hit", "hit_wait"} => x \in {"hit", "hit_wait"} \/ NotLoaded(blk[t]),
         x \in FindLabels => pc[t] \in FindLabels,
         x \in UseLabels => /\ sector[blk[t]] = want[t] /\ err[blk[t]] = "ok"
  PROVE  Inv'
<1>1. /\ pc'[t] = x /\ \A u \in Threads : u # t => pc'[u] = pc[u]
  BY GotoSpec DEF Inv
<1>2. RefcountExact'
  BY RefersStill DEF Inv
<1>3. OneHolder'
  BY <1>1 DEF Inv, OneHolder
<1>4. \A u \in Threads : /\ pc'[u] \in LoadLabels <=> pc[u] \in LoadLabels
                         /\ Refers(u)' <=> Refers(u)
  BY <1>1 DEF Refers
<1>5. \A b \in Blocks : NotLoaded(b)' <=> NotLoaded(b)
  BY <1>4 DEF NotLoaded
<1>6. Loaders'
  <2>1. \A u \in Threads : pc'[u] \in LoadLabels => sector'[blk'[u]] = want'[u]
    BY <1>4 DEF Inv, Loaders
  <2>2. ASSUME NEW v \in Threads, NEW u \in Threads,
               pc'[v] \in LoadLabels, Refers(u)', blk'[u] = blk'[v], u # v
        PROVE  pc'[u] \in {"hit", "hit_wait"}
    <3>1. pc[u] \in {"hit", "hit_wait"} /\ ~NotLoaded(blk[u])
      BY <1>4, <2>2 DEF Inv, Loaders, NotLoaded
    <3>2. QED
      BY <1>1, <3>1
  <2>3. ASSUME NEW b \in Blocks, err'[b] = "in_progress"
        PROVE  \E u \in Threads : pc'[u] = "loading" /\ blk'[u] = b
    BY <1>1, <2>3 DEF Inv, Loaders
  <2>4. QED
    BY <2>1, <2>2, <2>3 DEF Loaders
<1>7. Finders'
  BY <1>1, <1>5 DEF Inv, Finders, TypeOK
<1>8. Users'
  BY <1>1 DEF Inv, Users
<1>9. OneBlock'
  BY DEF Inv, OneBlock
<1>10. Clean'
  BY <1>5 DEF Inv, Clean
<1>11. QED
  BY <1>2, <1>3, <1>6, <1>7, <1>8, <1>9, <1>10 DEF Inv

LEMMA LabelsAre ==
  Labels = {"hit", "hit_wait", "miss", "miss_wait",
            "out", "look", "found", "filling", "loading", "failed",
            "using", "read_wait", "reading", "write_wait", "writing",
            "release", "last", "try", "flushing", "flushed", "drop"}
BY DEF Labels, HoldingCache

(* Where the lock of the block is asked for.                               *)
LEMMA WriteLockSpec ==
  ASSUME Inv, NEW t \in Threads, NEW at \in Labels, NEW wait \in Labels, NEW to \in Labels,
         WriteLock(t, at, wait, to), UNCHANGED <<blockVars, disk, blk, want, again>>,
         wait \notin Locking \cup {"reading"},
         to \in Locking \ {"flushing", "flushed"}
  PROVE  /\ pc[t] \in {at, wait} /\ TypeOK' /\ Locks'
         /\ \/ Goto(t, to) /\ ~locked[blk[t]]
            \/ Goto(t, wait)
<1>1. CASE /\ ~locked[blk[t]] /\ At({"reading"}, blk[t]) = {}
           /\ locked' = [locked EXCEPT ![blk[t]] = TRUE]
           /\ Goto(t, to)
           /\ UNCHANGED queued
  <2>1. TypeOK'
    BY <1>1, GotoSpec DEF Inv, TypeOK, blockVars
  <2>2. \A u \in Threads : ~(pc[u] = "reading" /\ blk[u] = blk[t])
    BY <1>1 DEF At
  <2>3. Locks'
    BY <1>1, <2>2, LocksMove DEF Inv, Locking
  <2>4. QED
    BY <1>1, <2>1, <2>3 DEF WriteLock
<1>2. CASE queued' = queued \cup {t} /\ Goto(t, wait) /\ UNCHANGED locked
  <2>1. TypeOK'
    BY <1>2, GotoSpec DEF Inv, TypeOK, blockVars
  <2>2. Locks'
    BY <1>2, LocksMove DEF Inv
  <2>3. QED
    BY <1>2, <2>1, <2>2 DEF WriteLock
<1>3. QED
  BY <1>1, <1>2 DEF WriteLock

(* With the lock of a block free, or taken by t for something else, nobody *)
(* loads the block unless it has yet to get the lock, with cache_mut.      *)
LEMMA UnlockedNotLoaded ==
  ASSUME Inv, NEW t \in Threads, pc[t] \in HoldingCache \ LoadLabels, ~locked[blk[t]]
  PROVE  NotLoaded(blk[t])
<1> SUFFICES ASSUME NEW u \in Threads, pc[u] \in LoadLabels, blk[u] = blk[t]
             PROVE  FALSE
  BY DEF NotLoaded
<1>1. pc[u] \in HoldingCache \/ pc[u] \in Locking
  BY DEF LoadLabels, HoldingCache, Locking
<1>2. QED
  BY <1>1 DEF Inv, OneHolder, Locks

LEMMA EnterFoundInv ==
  ASSUME Inv, NEW t \in Threads, EnterFound(t)
  PROVE  Inv'
<1>1. /\ pc[t] \in {"hit", "hit_wait"} /\ TypeOK' /\ Locks'
      /\ \/ Goto(t, "found") /\ ~locked[blk[t]]
         \/ Goto(t, "hit_wait")
  <2>1. /\ "hit" \in Labels /\ "hit_wait" \in Labels /\ "found" \in Labels
        /\ "hit_wait" \notin Locking \cup {"reading"}
        /\ "found" \in Locking \ {"flushing", "flushed"}
    BY LabelsAre DEF Locking
  <2>2. /\ WriteLock(t, "hit", "hit_wait", "found")
        /\ UNCHANGED <<blockVars, disk, blk, want, again>>
    BY DEF EnterFound
  <2>3. QED
    BY <2>1, <2>2, WriteLockSpec
<1>2. Goto(t, "found") /\ ~locked[blk[t]] => NotLoaded(blk[t])
  BY <1>1, UnlockedNotLoaded DEF HoldingCache, LoadLabels
<1>3. QED
  BY <1>1, <1>2, LabelsAre, MoveInv
  DEF EnterFound, blockVars, Refers, HoldingCache, LoadLabels, FindLabels, UseLabels

LEMMA EnterMissingInv ==
  ASSUME Inv, NEW t \in Threads, EnterMissing(t)
  PROVE  Inv'
<1>1. /\ pc[t] \in {"miss", "miss_wait"} /\ TypeOK' /\ Locks'
      /\ Goto(t, "filling") \/ Goto(t, "miss_wait")
  <2>1. /\ "miss" \in Labels /\ "miss_wait" \in Labels /\ "filling" \in Labels
        /\ "miss_wait" \notin Locking \cup {"reading"}
        /\ "filling" \in Locking \ {"flushing", "flushed"}
    BY LabelsAre DEF Locking
  <2>2. /\ WriteLock(t, "miss", "miss_wait", "filling")
        /\ UNCHANGED <<blockVars, disk, blk, want, again>>
    BY DEF EnterMissing
  <2>3. QED
    BY <2>1, <2>2, WriteLockSpec
<1>2. QED
  BY <1>1, LabelsAre, MoveInv
  DEF EnterMissing, blockVars, Refers, HoldingCache, LoadLabels, FindLabels, UseLabels

LEMMA StartWriteInv ==
  ASSUME Inv, NEW t \in Threads, StartWrite(t)
  PROVE  Inv'
<1>1. /\ pc[t] \in {"using", "write_wait"} /\ TypeOK' /\ Locks'
      /\ Goto(t, "writing") \/ Goto(t, "write_wait")
  <2>1. /\ "using" \in Labels /\ "write_wait" \in Labels /\ "writing" \in Labels
        /\ "write_wait" \notin Locking \cup {"reading"}
        /\ "writing" \in Locking \ {"flushing", "flushed"}
    BY LabelsAre DEF Locking
  <2>2. /\ WriteLock(t, "using", "write_wait", "writing")
        /\ UNCHANGED <<blockVars, disk, blk, want, again>>
    BY DEF StartWrite
  <2>3. QED
    BY <2>1, <2>2, WriteLockSpec
<1>2. sector[blk[t]] = want[t] /\ err[blk[t]] = "ok"
  BY <1>1 DEF Inv, Users, UseLabels
<1>3. QED
  BY <1>1, <1>2, LabelsAre, MoveInv
  DEF StartWrite, blockVars, Refers, HoldingCache, LoadLabels, FindLabels, UseLabels

LEMMA StartReadInv ==
  ASSUME Inv, NEW t \in Threads, StartRead(t)
  PROVE  Inv'
<1>1. /\ pc[t] \in {"using", "read_wait"} /\ UNCHANGED <<locked, again>>
      /\ \/ queued' = queued \cup {t} /\ Goto(t, "read_wait")
         \/ ~locked[blk[t]] /\ UNCHANGED queued /\ Goto(t, "reading")
      /\ UNCHANGED <<blockVars, disk, blk, want>>
  BY DEF StartRead, ReadLock
<1>2. PICK x \in {"read_wait", "reading"} :
        Goto(t, x) /\ (x = "reading" => ~locked[blk[t]])
  BY <1>1
<1>3. TypeOK'
  BY <1>1, <1>2, LabelsAre, GotoSpec DEF Inv, TypeOK, blockVars
<1>4. Locks'
  BY <1>1, <1>2, LabelsAre, LocksMove DEF Inv, Locking
<1>5. sector[blk[t]] = want[t] /\ err[blk[t]] = "ok"
  BY <1>1 DEF Inv, Users, UseLabels
<1>6. QED
  BY <1>1, <1>2, <1>3, <1>4, <1>5, LabelsAre, MoveInv
  DEF blockVars, lockVars, Refers, HoldingCache, LoadLabels, FindLabels, UseLabels

LEMMA EndReadInv ==
  ASSUME Inv, NEW t \in Threads, EndRead(t)
  PROVE  Inv'
<1>1. /\ pc[t] = "reading" /\ Goto(t, "release") /\ queued' \subseteq queued
      /\ UNCHANGED <<blockVars, locked, disk, blk, want, again>>
  BY DEF EndRead, WakeAll
<1>2. TypeOK'
  BY <1>1, LabelsAre, GotoSpec DEF Inv, TypeOK, blockVars
<1>3. Locks'
  BY <1>1, LabelsAre, LocksMove DEF Inv, Locking
<1>4. QED
  BY <1>1, <1>2, <1>3, LabelsAre, MoveInv
  DEF blockVars, lockVars, Refers, HoldingCache, LoadLabels, FindLabels, UseLabels

LEMMA FoundInv ==
  ASSUME Inv, NEW t \in Threads, Found(t)
  PROVE  Inv'
<1>1. /\ pc[t] = "found" /\ err[blk[t]] # "in_progress"
      /\ Goto(t, IF err[blk[t]] = "error" THEN "release" ELSE "using")
      /\ locked' = [locked EXCEPT ![blk[t]] = FALSE]
      /\ queued' \subseteq queued /\ again' \subseteq again \cup {t}
      /\ UNCHANGED <<blockVars, disk, blk, want>>
  BY DEF Found, WriteUnlock, WakeAll
<1>2. PICK x \in {"release", "using"} :
        Goto(t, x) /\ (x = "using" => sector[blk[t]] = want[t] /\ err[blk[t]] = "ok")
  BY <1>1 DEF Inv, TypeOK, Finders, FindLabels
<1>3. TypeOK'
  BY <1>1, <1>2, LabelsAre, GotoSpec DEF Inv, TypeOK, blockVars
<1>4. Locks'
  BY <1>1, <1>2, LabelsAre, LocksMove DEF Inv, Locking
<1>5. QED
  BY <1>1, <1>2, <1>3, <1>4, LabelsAre, MoveInv
  DEF blockVars, lockVars, Refers, HoldingCache, LoadLabels, FindLabels, UseLabels

LEMMA CountRefsInv ==
  ASSUME Inv, NEW t \in Threads, CountRefs(t)
  PROVE  Inv'
<1>1. /\ pc[t] = "release" /\ UNCHANGED <<blockVars, lockVars, disk, blk, want, again>>
      /\ \E x \in {"last", "drop"} : Goto(t, x)
  BY DEF CountRefs
<1>2. PICK x \in {"last", "drop"} : Goto(t, x)
  BY <1>1
<1>3. TypeOK'
  BY <1>1, <1>2, LabelsAre, GotoSpec DEF Inv, TypeOK, blockVars, lockVars
<1>4. Locks'
  BY <1>1, <1>2, LabelsAre, LocksMove DEF Inv, Locking, lockVars
<1>5. QED
  BY <1>1, <1>2, <1>3, <1>4, LabelsAre, MoveInv
  DEF blockVars, lockVars, Refers, HoldingCache, LoadLabels, FindLabels, UseLabels

LEMMA TestDirtyInv ==
  ASSUME Inv, NEW t \in Threads, TestDirty(t)
  PROVE  Inv'
<1>1. /\ pc[t] = "last" /\ UNCHANGED <<blockVars, lockVars, disk, blk, want, again>>
      /\ \E x \in {"try", "drop"} : Goto(t, x)
  BY DEF TestDirty
<1>2. PICK x \in {"try", "drop"} : Goto(t, x)
  BY <1>1
<1>3. TypeOK'
  BY <1>1, <1>2, LabelsAre, GotoSpec DEF Inv, TypeOK, blockVars, lockVars
<1>4. Locks'
  BY <1>1, <1>2, LabelsAre, LocksMove DEF Inv, Locking, lockVars
<1>5. QED
  BY <1>1, <1>2, <1>3, <1>4, LabelsAre, MoveInv
  DEF blockVars, lockVars, Refers, HoldingCache, LoadLabels, FindLabels, UseLabels

LEMMA TryLockInv ==
  ASSUME Inv, NEW t \in Threads, TryLock(t)
  PROVE  Inv'
<1>1. /\ pc[t] = "try" /\ locked' = [locked EXCEPT ![blk[t]] = TRUE]
      /\ UNCHANGED <<blockVars, queued, disk, blk, want, again>>
      /\ \/ locked[blk[t]] /\ Goto(t, "drop")
         \/ ~locked[blk[t]] /\ Goto(t, "flushing")
  BY DEF TryLock
<1>2. PICK x \in {"drop", "flushing"} : Goto(t, x) /\ (x = "drop" <=> locked[blk[t]])
  BY <1>1
<1>3. TypeOK'
  BY <1>1, <1>2, LabelsAre, GotoSpec DEF Inv, TypeOK, blockVars
<1>4. Locks'
  <2>1. CASE locked[blk[t]]
    <3>1. locked' = locked
      BY <1>1, <2>1 DEF Inv, TypeOK
    <3>2. QED
      BY <1>1, <1>2, <2>1, <3>1, LabelsAre, LocksMove DEF Inv, Locking
  <2>2. CASE ~locked[blk[t]]
    BY <1>1, <1>2, <2>2, LabelsAre, LocksMove DEF Inv, Locking
  <2>3. QED
    BY <2>1, <2>2
<1>5. QED
  BY <1>1, <1>2, <1>3, <1>4, LabelsAre, MoveInv
  DEF blockVars, lockVars, Refers, HoldingCache, LoadLabels, FindLabels, UseLabels

LEMMA EndFlushInv ==
  ASSUME Inv, NEW t \in Threads, EndFlush(t)
  PROVE  Inv'
<1>1. /\ pc[t] = "flushed" /\ Goto(t, "drop")
      /\ locked' \in {locked, [locked EXCEPT ![blk[t]] = FALSE]} /\ queued' \subseteq queued
      /\ UNCHANGED <<blockVars, disk, blk, want, again>>
  BY DEF EndFlush, MutexUnlock
<1>2. TypeOK'
  BY <1>1, LabelsAre, GotoSpec DEF Inv, TypeOK, blockVars
<1>3. Locks'
  BY <1>1, LabelsAre, LocksMove DEF Inv, Locking
<1>4. QED
  BY <1>1, <1>2, <1>3, LabelsAre, MoveInv
  DEF blockVars, lockVars, Refers, HoldingCache, LoadLabels, FindLabels, UseLabels

LEMMA EndWriteInv ==
  ASSUME Inv, NEW t \in Threads, EndWrite(t)
  PROVE  Inv'
<1>1. PICK v \in Contents :
        /\ pc[t] = "writing" /\ Goto(t, "release")
        /\ buf' = [buf EXCEPT ![blk[t]] = v] /\ dirty' = [dirty EXCEPT ![blk[t]] = TRUE]
        /\ locked' = [locked EXCEPT ![blk[t]] = FALSE] /\ queued' \subseteq queued
        /\ UNCHANGED <<sector, refcount, err, lru, disk, blk, want, again>>
  BY DEF EndWrite, WriteUnlock, WakeAll
<1>2. TypeOK'
  BY <1>1, LabelsAre, GotoSpec DEF Inv, TypeOK
<1>3. Locks'
  BY <1>1, LabelsAre, LocksMove DEF Inv, Locking
<1>4. Clean'
  <2>1. \A b \in Blocks : NotLoaded(b)' => NotLoaded(b)
    BY <1>1, LabelsAre, GotoSpec DEF Inv, NotLoaded, LoadLabels
  <2>2. QED
    BY <1>1, <2>1 DEF Inv, Clean, TypeOK
<1>5. QED
  BY <1>1, <1>2, <1>3, <1>4, LabelsAre, MoveInv
  DEF blockVars, lockVars, Refers, HoldingCache, LoadLabels, FindLabels, UseLabels

LEMMA FlushInv ==
  ASSUME Inv, NEW t \in Threads, Flush(t)
  PROVE  Inv'
<1>1. /\ pc[t] = "flushing" /\ Goto(t, "flushed")
      /\ UNCHANGED <<sector, refcount, err, buf, lru, lockVars, blk, want, again>>
      /\ \/ /\ sector[blk[t]] \in Sectors
            /\ disk' = [disk EXCEPT ![sector[blk[t]]] = buf[blk[t]]]
            /\ dirty' = [dirty EXCEPT ![blk[t]] = FALSE]
         \/ UNCHANGED <<disk, dirty>>
  BY DEF Flush
<1>2. TypeOK'
  <2>1. pc' \in [Threads -> Labels]
    BY <1>1, LabelsAre, GotoSpec DEF Inv
  <2>2. disk' \in [Sectors -> Contents] /\ dirty' \in [Blocks -> BOOLEAN]
    <3>1. CASE UNCHANGED <<disk, dirty>>
      BY <3>1 DEF Inv, TypeOK
    <3>2. CASE /\ disk' = [disk EXCEPT ![sector[blk[t]]] = buf[blk[t]]]
               /\ dirty' = [dirty EXCEPT ![blk[t]] = FALSE]
      BY <3>2 DEF Inv, TypeOK
    <3>3. QED
      BY <1>1, <3>1, <3>2
  <2>3. QED
    BY <1>1, <2>1, <2>2 DEF Inv, TypeOK, lockVars
<1>3. Locks'
  BY <1>1, LabelsAre, LocksMove DEF Inv, Locking, lockVars
<1>4. Clean'
  <2>1. \A b \in Blocks : NotLoaded(b)' => NotLoaded(b)
    BY <1>1, LabelsAre, GotoSpec DEF Inv, NotLoaded, LoadLabels
  <2>2. CASE UNCHANGED <<disk, dirty>>
    BY <1>1, <2>1, <2>2 DEF Inv, Clean
  <2>3. CASE /\ sector[blk[t]] \in Sectors
             /\ disk' = [disk EXCEPT ![sector[blk[t]]] = buf[blk[t]]]
             /\ dirty' = [dirty EXCEPT ![blk[t]] = FALSE]
    <3>1. \A b \in Blocks : b # blk[t] => sector[b] # sector[blk[t]]
      BY <2>3, SectorsAssumption DEF Inv, TypeOK, OneBlock
    <3>2. QED
      BY <1>1, <2>1, <2>3, <3>1 DEF Inv, Clean, TypeOK
  <2>4. QED
    BY <1>1, <2>2, <2>3
<1>5. QED
  BY <1>1, <1>2, <1>3, <1>4, LabelsAre, MoveInv
  DEF blockVars, lockVars, Refers, HoldingCache, LoadLabels, FindLabels, UseLabels

-----------------------------------------------------------------------------
(* Loading.                                                                *)

(* While t loads its block, those that refer to it wait to lock it, and    *)
(* have found in it what t asked for.                                      *)
LEMMA LoaderAlone ==
  ASSUME Inv, NEW t \in Threads, pc[t] \in LoadLabels
  PROVE  /\ sector[blk[t]] = want[t]
         /\ \A u \in Threads : Refers(u) /\ blk[u] = blk[t] /\ u # t =>
              pc[u] \in {"hit", "hit_wait"} /\ sector[blk[u]] = want[u]
<1>1. ~NotLoaded(blk[t])
  BY DEF NotLoaded
<1>2. QED
  BY <1>1 DEF Inv, Loaders, Finders, FindLabels

LEMMA FillInv ==
  ASSUME Inv, NEW t \in Threads, Fill(t)
  PROVE  Inv'
<1>1. /\ pc[t] = "filling" /\ Goto(t, "loading")
      /\ err' = [err EXCEPT ![blk[t]] = "in_progress"]
      /\ UNCHANGED <<sector, refcount, dirty, buf, lru, locked, queued, disk, blk, want,
                     again>>
  BY DEF Fill, lockVars
<1>2. /\ pc'[t] = "loading" /\ \A u \in Threads : u # t => pc'[u] = pc[u]
  BY <1>1, LabelsAre, GotoSpec DEF Inv
<1>3. /\ err'[blk[t]] = "in_progress" /\ blk[t] \in Blocks
      /\ \A b \in Blocks : b # blk[t] => err'[b] = err[b]
  BY <1>1 DEF Inv, TypeOK
<1>4. TypeOK'
  BY <1>1, LabelsAre, GotoSpec DEF Inv, TypeOK
<1>5. RefcountExact' /\ Locks'
  BY <1>1, <1>4, LabelsAre, RefersStill, LocksMove DEF Inv, Refers, Locking
<1>6. OneHolder'
  BY <1>2 DEF Inv, OneHolder, HoldingCache
<1>7. /\ pc[t] \in LoadLabels
      /\ \A u \in Threads : /\ pc'[u] \in LoadLabels <=> pc[u] \in LoadLabels
                            /\ Refers(u)' <=> Refers(u)
  BY <1>1, <1>2 DEF LoadLabels, Refers
<1>8. \A u \in Threads : Refers(u) /\ blk[u] = blk[t] /\ u # t =>
        pc[u] \in {"hit", "hit_wait"} /\ sector[blk[u]] = want[u]
  BY <1>7, LoaderAlone
<1>9. Loaders'
  <2>1. \A b \in Blocks : err'[b] = "in_progress" =>
          \E u \in Threads : pc'[u] = "loading" /\ blk'[u] = b
    BY <1>1, <1>2, <1>3 DEF Inv, Loaders
  <2>2. \A v, u \in Threads :
          pc'[v] \in LoadLabels /\ Refers(u)' /\ blk'[u] = blk'[v] /\ u # v
            => pc'[u] \in {"hit", "hit_wait"}
    BY <1>1, <1>2, <1>7 DEF Inv, Loaders
  <2>3. \A u \in Threads : pc'[u] \in LoadLabels => sector'[blk'[u]] = want'[u]
    BY <1>1, <1>7 DEF Inv, Loaders
  <2>4. QED
    BY <2>1, <2>2, <2>3 DEF Loaders
<1>10. \A b \in Blocks : NotLoaded(b)' <=> NotLoaded(b)
  BY <1>1, <1>7 DEF NotLoaded
<1>11. Finders'
  <2> SUFFICES ASSUME NEW u \in Threads, pc'[u] \in FindLabels
               PROVE  \/ sector[blk[u]] = want[u]
                      \/ err'[blk[u]] = "error" /\ NotLoaded(blk[u])'
    BY <1>1 DEF Finders
  <2>1. u # t /\ pc[u] \in FindLabels /\ Refers(u) /\ blk[u] \in Blocks
    BY <1>2 DEF FindLabels, Refers, Inv, TypeOK
  <2>2. CASE blk[u] = blk[t]
    BY <1>8, <2>1, <2>2
  <2>3. CASE blk[u] # blk[t]
    <3>1. NotLoaded(blk[u])' <=> NotLoaded(blk[u])
      BY <1>1, <1>10, <2>1
    <3>2. err'[blk[u]] = err[blk[u]]
      BY <1>3, <2>1, <2>3
    <3>3. QED
      BY <2>1, <3>1, <3>2 DEF Inv, Finders
  <2>4. QED
    BY <2>2, <2>3
<1>12. Users'
  <2> SUFFICES ASSUME NEW u \in Threads, pc'[u] \in UseLabels \cup {"failed"}
               PROVE  /\ pc'[u] \in UseLabels
                           => sector[blk[u]] = want[u] /\ err'[blk[u]] = "ok"
                      /\ pc'[u] = "failed" => err'[blk[u]] = "error"
    BY <1>1 DEF Users
  <2>1. u # t /\ pc'[u] = pc[u] /\ Refers(u) /\ blk[u] \in Blocks
    BY <1>2 DEF UseLabels, Refers, Inv, TypeOK
  <2>2. blk[u] # blk[t]
    BY <1>8, <2>1 DEF UseLabels
  <2>3. QED
    BY <1>3, <2>1, <2>2 DEF Inv, Users
<1>13. OneBlock'
  BY <1>1 DEF Inv, OneBlock
<1>14. Clean'
  BY <1>1, <1>3, <1>10 DEF Inv, Clean
<1>15. QED
  BY <1>4, <1>5, <1>6, <1>9, <1>11, <1>12, <1>13, <1>14 DEF Inv

LEMMA LoadedInv ==
  ASSUME Inv, NEW t \in Threads, Loaded(t)
  PROVE  Inv'
<1>1. /\ pc[t] = "loading" /\ blk[t] \in Blocks
      /\ locked' = [locked EXCEPT ![blk[t]] = FALSE] /\ queued' \subseteq queued
      /\ UNCHANGED <<sector, refcount, dirty, lru, disk, blk, want, again>>
      /\ \/ /\ buf' = [buf EXCEPT ![blk[t]] = disk[want[t]]]
            /\ err' = [err EXCEPT ![blk[t]] = "ok"]
            /\ Goto(t, "using")
         \/ /\ err' = [err EXCEPT ![blk[t]] = "error"]
            /\ Goto(t, "failed")
            /\ UNCHANGED buf
  BY DEF Loaded, WriteUnlock, WakeAll, Inv, TypeOK
<1>2. PICK x \in {"using", "failed"} : Goto(t, x)
  BY <1>1
<1>3. /\ pc'[t] = x /\ \A u \in Threads : u # t => pc'[u] = pc[u]
  BY <1>2, LabelsAre, GotoSpec DEF Inv
<1>4. /\ err'[blk[t]] = IF x = "using" THEN "ok" ELSE "error"
      /\ x = "using" => buf'[blk[t]] = disk[want[t]]
      /\ \A b \in Blocks : b # blk[t] => err'[b] = err[b] /\ buf'[b] = buf[b]
  BY <1>1, <1>3, LabelsAre, GotoSpec DEF Inv, TypeOK
<1>5. TypeOK'
  <2>1. pc' \in [Threads -> Labels]
    BY <1>2, LabelsAre, GotoSpec DEF Inv
  <2>2. buf' \in [Blocks -> Contents] /\ err' \in [Blocks -> {"ok", "in_progress", "error"}]
    BY <1>1 DEF Inv, TypeOK
  <2>3. locked' \in [Blocks -> BOOLEAN] /\ queued' \in SUBSET Threads
    BY <1>1 DEF Inv, TypeOK
  <2>4. QED
    BY <1>1, <2>1, <2>2, <2>3 DEF Inv, TypeOK
<1>6. RefcountExact' /\ Locks'
  BY <1>1, <1>2, <1>5, LabelsAre, RefersStill, LocksMove DEF Inv, Refers, Locking
<1>7. OneHolder'
  BY <1>3 DEF Inv, OneHolder, HoldingCache
<1>8. /\ pc[t] \in LoadLabels /\ pc'[t] \notin LoadLabels
      /\ sector[blk[t]] = want[t]
      /\ \A u \in Threads : Refers(u) /\ blk[u] = blk[t] /\ u # t =>
           pc[u] \in {"hit", "hit_wait"} /\ sector[blk[u]] = want[u]
  BY <1>1, <1>3, LoaderAlone DEF LoadLabels
<1>9. \A u \in Threads : pc'[u] \in LoadLabels =>
        pc[u] \in LoadLabels /\ pc'[u] = pc[u] /\ blk[u] # blk[t]
  BY <1>3, <1>8 DEF LoadLabels, Refers
<1>10. \A b \in Blocks : NotLoaded(b)' <=> NotLoaded(b) \/ b = blk[t]
  BY <1>1, <1>3, <1>8, <1>9 DEF NotLoaded
<1>11. Loaders'
  <2>1. ASSUME NEW b \in Blocks, err'[b] = "in_progress"
        PROVE  \E u \in Threads : pc'[u] = "loading" /\ blk'[u] = b
    <3>1. b # blk[t] /\ err[b] = "in_progress"
      BY <1>4, <2>1
    <3>2. QED
      BY <1>1, <1>3, <3>1 DEF Inv, Loaders
  <2>2. \A v, u \in Threads :
          pc'[v] \in LoadLabels /\ Refers(u)' /\ blk'[u] = blk'[v] /\ u # v
            => pc'[u] \in {"hit", "hit_wait"}
    BY <1>1, <1>3, <1>9 DEF Inv, Loaders, Refers
  <2>3. \A u \in Threads : pc'[u] \in LoadLabels => sector'[blk'[u]] = want'[u]
    BY <1>1, <1>9 DEF Inv, Loaders
  <2>4. QED
    BY <2>1, <2>2, <2>3 DEF Loaders
<1>12. Finders'
  <2> SUFFICES ASSUME NEW u \in Threads, pc'[u] \in FindLabels
               PROVE  \/ sector[blk[u]] = want[u]
                      \/ err'[blk[u]] = "error" /\ NotLoaded(blk[u])'
    BY <1>1 DEF Finders
  <2>1. u # t /\ pc[u] \in FindLabels /\ Refers(u) /\ blk[u] \in Blocks
    BY <1>3 DEF FindLabels, Refers, Inv, TypeOK
  <2>2. CASE blk[u] = blk[t]
    BY <1>8, <2>1, <2>2
  <2>3. CASE blk[u] # blk[t]
    <3>1. NotLoaded(blk[u])' <=> NotLoaded(blk[u])
      BY <1>1, <1>10, <2>1, <2>3
    <3>2. err'[blk[u]] = err[blk[u]]
      BY <1>4, <2>1, <2>3
    <3>3. QED
      BY <2>1, <3>1, <3>2 DEF Inv, Finders
  <2>4. QED
    BY <2>2, <2>3
<1>13. Users'
  <2> SUFFICES ASSUME NEW u \in Threads, pc'[u] \in UseLabels \cup {"failed"}
               PROVE  /\ pc'[u] \in UseLabels
                           => sector[blk[u]] = want[u] /\ err'[blk[u]] = "ok"
                      /\ pc'[u] = "failed" => err'[blk[u]] = "error"
    BY <1>1 DEF Users
  <2>1. CASE u = t
    BY <1>3, <1>4, <1>8, <2>1 DEF UseLabels
  <2>2. CASE u # t
    <3>1. pc'[u] = pc[u] /\ Refers(u) /\ blk[u] \in Blocks
      BY <1>3, <2>2 DEF UseLabels, Refers, Inv, TypeOK
    <3>2. blk[u] # blk[t]
      BY <1>8, <2>2, <3>1 DEF UseLabels
    <3>3. QED
      BY <1>4, <3>1, <3>2 DEF Inv, Users
  <2>3. QED
    BY <2>1, <2>2
<1>14. OneBlock'
  BY <1>1 DEF Inv, OneBlock
<1>15. Clean'
  <2> SUFFICES ASSUME NEW b \in Blocks, sector[b] \in Sectors, NotLoaded(b)',
                      err'[b] = "ok", ~dirty[b]
               PROVE  buf'[b] = disk[sector[b]]
    BY <1>1 DEF Clean
  <2>1. CASE b = blk[t]
    BY <1>3, <1>4, <1>8, <2>1
  <2>2. CASE b # blk[t]
    BY <1>4, <1>10, <2>2 DEF Inv, Clean
  <2>3. QED
    BY <2>1, <2>2
<1>16. QED
  BY <1>5, <1>6, <1>7, <1>11, <1>12, <1>13, <1>14, <1>15 DEF Inv

LEMMA ForgetInv ==
  ASSUME Inv, NEW t \in Threads, Forget(t)
  PROVE  Inv'
<1>1. /\ pc[t] = "failed" /\ Goto(t, "release") /\ blk[t] \in Blocks
      /\ sector' = [sector EXCEPT ![blk[t]] = NoSector]
      /\ UNCHANGED <<refcount, err, dirty, buf, lru, locked, queued, disk, blk, want, again>>
  BY DEF Forget, lockVars, Inv, TypeOK
<1>2. /\ pc'[t] = "release" /\ \A u \in Threads : u # t => pc'[u] = pc[u]
  BY <1>1, LabelsAre, GotoSpec DEF Inv
<1>3. /\ sector'[blk[t]] = NoSector
      /\ \A b \in Blocks : b # blk[t] => sector'[b] = sector[b]
  BY <1>1 DEF Inv, TypeOK
<1>4. TypeOK'
  BY <1>1, LabelsAre, GotoSpec DEF Inv, TypeOK
<1>5. RefcountExact' /\ Locks'
  BY <1>1, <1>4, LabelsAre, RefersStill, LocksMove DEF Inv, Refers, Locking
<1>6. OneHolder'
  BY <1>2 DEF Inv, OneHolder, HoldingCache
<1>7. err[blk[t]] = "error" /\ NotLoaded(blk[t])
  BY <1>1 DEF Inv, Users, Loaders, NotLoaded, LoadLabels, Refers
<1>8. \A u \in Threads : /\ pc'[u] \in LoadLabels <=> pc[u] \in LoadLabels
                         /\ Refers(u)' <=> Refers(u)
                         /\ u # t => pc'[u] = pc[u]
  BY <1>1, <1>2 DEF LoadLabels, Refers
<1>9. \A b \in Blocks : NotLoaded(b)' <=> NotLoaded(b)
  BY <1>1, <1>8 DEF NotLoaded
<1>10. Loaders'
  <2>1. \A b \in Blocks : err'[b] = "in_progress" =>
          \E u \in Threads : pc'[u] = "loading" /\ blk'[u] = b
    BY <1>1, <1>2 DEF Inv, Loaders
  <2>2. \A v, u \in Threads :
          pc'[v] \in LoadLabels /\ Refers(u)' /\ blk'[u] = blk'[v] /\ u # v
            => pc'[u] \in {"hit", "hit_wait"}
    BY <1>1, <1>2, <1>8 DEF Inv, Loaders
  <2>3. \A u \in Threads : pc'[u] \in LoadLabels => sector'[blk'[u]] = want'[u]
    BY <1>1, <1>3, <1>7, <1>8 DEF Inv, Loaders, NotLoaded, TypeOK
  <2>4. QED
    BY <2>1, <2>2, <2>3 DEF Loaders
<1>11. Finders'
  <2> SUFFICES ASSUME NEW u \in Threads, pc'[u] \in FindLabels
               PROVE  \/ sector'[blk[u]] = want[u]
                      \/ err[blk[u]] = "error" /\ NotLoaded(blk[u])'
    BY <1>1 DEF Finders
  <2>1. u # t /\ pc[u] \in FindLabels /\ blk[u] \in Blocks
    BY <1>2 DEF FindLabels, Inv, TypeOK
  <2>2. NotLoaded(blk[u])' <=> NotLoaded(blk[u])
    BY <1>1, <1>9, <2>1
  <2>3. CASE blk[u] = blk[t]
    BY <1>7, <2>2, <2>3
  <2>4. CASE blk[u] # blk[t]
    BY <1>3, <2>1, <2>2, <2>4 DEF Inv, Finders
  <2>5. QED
    BY <2>3, <2>4
<1>12. Users'
  <2> SUFFICES ASSUME NEW u \in Threads
               PROVE  /\ pc'[u] \in UseLabels
                           => sector'[blk[u]] = want[u] /\ err[blk[u]] = "ok"
                      /\ pc'[u] = "failed" => err[blk[u]] = "error"
    BY <1>1 DEF Users
  <2>1. blk[u] \in Blocks /\ (u = t => pc'[u] \notin UseLabels \cup {"failed"})
    BY <1>2 DEF UseLabels, Inv, TypeOK
  <2>2. ASSUME u # t, pc[u] \in UseLabels
        PROVE  sector'[blk[u]] = want[u] /\ err[blk[u]] = "ok"
    <3>1. sector[blk[u]] = want[u] /\ err[blk[u]] = "ok"
      BY <2>2 DEF Inv, Users
    <3>2. QED
      BY <1>3, <1>7, <2>1, <3>1
  <2>3. QED
    BY <1>2, <2>1, <2>2 DEF Inv, Users
<1>13. OneBlock'
  BY <1>3 DEF Inv, OneBlock
<1>14. Clean'
  BY <1>1, <1>3, <1>9, SectorsAssumption DEF Inv, Clean
<1>15. QED
  BY <1>4, <1>5, <1>6, <1>10, <1>11, <1>12, <1>13, <1>14 DEF Inv

-----------------------------------------------------------------------------
(* Coming to a block and leaving it.                                       *)

LEMMA TakeSpec ==
  ASSUME TypeOK, NEW t \in Threads, NEW b \in Blocks, Take(t, b)
  PROVE  /\ lru' \in Seq(Blocks)
         /\ blk' \in [Threads -> Blocks] /\ blk'[t] = b
         /\ \A u \in Threads : u # t => blk'[u] = blk[u]
         /\ UNCHANGED <<err, dirty, buf, locked, queued, disk, want, again>>
<1>1. <<b>> \in Seq(Blocks) /\ QRemove(b, lru) \in Seq(Blocks)
  BY QRemoveSpec DEF TypeOK
<1>2. lru' \in Seq(Blocks)
  BY <1>1, ConcatProperties DEF Take
<1>3. QED
  BY <1>2 DEF Take, TypeOK, lockVars

(* t, which referred to none, refers to b.                                 *)
LEMMA RefersAnew ==
  ASSUME TypeOK, RefcountExact, TypeOK', NEW t \in Threads, NEW b \in Blocks,
         pc[t] \in {"out", "look"}, Refers(t)', blk'[t] = b,
         \A u \in Threads : u # t => pc'[u] = pc[u] /\ blk'[u] = blk[u],
         refcount' = [refcount EXCEPT ![b] = @ + 1]
  PROVE  RefcountExact'
<1>1. t \notin Referrers(b) /\ Referrers(b)' = Referrers(b) \cup {t}
  BY DEF Referrers, Refers
<1>2. \A c \in Blocks : c # b => Referrers(c)' = Referrers(c)
  BY DEF Referrers, Refers
<1>3. Cardinality(Referrers(b)') = Cardinality(Referrers(b)) + 1
  BY <1>1, ReferrersFinite, FS_AddElement
<1>4. refcount'[b] = refcount[b] + 1 /\ \A c \in Blocks : c # b => refcount'[c] = refcount[c]
  BY DEF TypeOK
<1>5. \A c \in Blocks : refcount'[c] = Cardinality(Referrers(c)')
  BY <1>2, <1>3, <1>4, RefcountCounts
<1>6. QED
  BY <1>5, RefcountCountsNext

LEMMA HitInv ==
  ASSUME Inv, NEW t \in Threads, Hit(t)
  PROVE  Inv'
<1>1. PICK b \in Blocks : sector[b] = want[t] /\ Refer(b) /\ Take(t, b)
  BY DEF Hit, Cached
<1>2. pc[t] = "look" /\ CacheFree /\ Goto(t, "hit") /\ UNCHANGED sector
  BY DEF Hit
<1>3. /\ pc'[t] = "hit" /\ \A u \in Threads : u # t => pc'[u] = pc[u]
      /\ pc' \in [Threads -> Labels]
  BY <1>2, LabelsAre, GotoSpec DEF Inv
<1>4. /\ lru' \in Seq(Blocks)
      /\ blk' \in [Threads -> Blocks] /\ blk'[t] = b
      /\ \A u \in Threads : u # t => blk'[u] = blk[u]
      /\ UNCHANGED <<err, dirty, buf, locked, queued, disk, want, again>>
  BY <1>1, TakeSpec DEF Inv
<1>5. TypeOK'
  <2>1. refcount' \in [Blocks -> Nat]
    BY <1>1 DEF Refer, Inv, TypeOK
  <2>2. QED
    BY <1>2, <1>3, <1>4, <2>1 DEF Inv, TypeOK
<1>6. RefcountExact'
  BY <1>1, <1>2, <1>3, <1>4, <1>5, RefersAnew DEF Inv, Refers, Refer
<1>7. OneHolder'
  BY <1>2, <1>3 DEF CacheFree, OneHolder
<1>8. Locks'
  BY <1>3, <1>4 DEF Inv, Locks, Locking
<1>9. \A u \in Threads :
        /\ pc'[u] \in LoadLabels => u # t /\ pc[u] \in LoadLabels
        /\ pc[u] \in LoadLabels => u # t /\ pc'[u] \in LoadLabels
  BY <1>2, <1>3 DEF LoadLabels
<1>10. \A c \in Blocks : NotLoaded(c)' <=> NotLoaded(c)
  BY <1>4, <1>9 DEF NotLoaded
<1>11. Loaders'
  <2>1. ASSUME NEW c \in Blocks, err'[c] = "in_progress"
        PROVE  \E u \in Threads : pc'[u] = "loading" /\ blk'[u] = c
    <3>1. PICK u \in Threads : pc[u] = "loading" /\ blk[u] = c
      BY <1>4, <2>1 DEF Inv, Loaders
    <3>2. QED
      BY <1>2, <1>3, <1>4, <3>1
  <2>2. \A v, u \in Threads :
          pc'[v] \in LoadLabels /\ Refers(u)' /\ blk'[u] = blk'[v] /\ u # v
            => pc'[u] \in {"hit", "hit_wait"}
    BY <1>3, <1>4, <1>9 DEF Inv, Loaders, Refers
  <2>3. \A u \in Threads : pc'[u] \in LoadLabels => sector'[blk'[u]] = want'[u]
    BY <1>2, <1>4, <1>9 DEF Inv, Loaders
  <2>4. QED
    BY <2>1, <2>2, <2>3 DEF Loaders
<1>12. Finders'
  <2> SUFFICES ASSUME NEW u \in Threads, pc'[u] \in FindLabels
               PROVE  \/ sector'[blk'[u]] = want'[u]
                      \/ err'[blk'[u]] = "error" /\ NotLoaded(blk[u])' /\ u # t
    BY <1>4 DEF Finders, NotLoaded
  <2>1. CASE u = t
    BY <1>1, <1>2, <1>4, <2>1
  <2>2. CASE u # t
    <3>1. pc[u] \in FindLabels /\ blk'[u] = blk[u] /\ blk[u] \in Blocks
      BY <1>3, <1>4, <2>2 DEF Inv, TypeOK
    <3>2. \/ sector[blk[u]] = want[u]
          \/ err[blk[u]] = "error" /\ NotLoaded(blk[u])
      BY <3>1 DEF Inv, Finders
    <3>3. NotLoaded(blk[u]) => NotLoaded(blk[u])'
      BY <1>4, <1>9, <2>2, <3>1 DEF NotLoaded
    <3>4. QED
      BY <1>2, <1>4, <2>2, <3>1, <3>2, <3>3
  <2>3. QED
    BY <2>1, <2>2
<1>13. Users'
  BY <1>2, <1>3, <1>4 DEF Inv, Users, UseLabels
<1>14. OneBlock' /\ Clean'
  BY <1>2, <1>4, <1>10 DEF Inv, OneBlock, Clean
<1>15. QED
  BY <1>5, <1>6, <1>7, <1>8, <1>11, <1>12, <1>13, <1>14 DEF Inv

LEMMA MissInv ==
  ASSUME Inv, NEW t \in Threads, Miss(t)
  PROVE  Inv'
<1>1. PICK b \in Blocks :
        /\ refcount[b] = 0 /\ Take(t, b)
        /\ refcount' = [refcount EXCEPT ![b] = 1]
        /\ sector' = [sector EXCEPT ![b] = want[t]]
  <2>1. PICK k \in DOMAIN lru :
          /\ Recyclable(lru[k]) /\ Take(t, lru[k])
          /\ refcount' = [refcount EXCEPT ![lru[k]] = 1]
          /\ sector' = [sector EXCEPT ![lru[k]] = want[t]]
    BY DEF Miss
  <2>2. lru[k] \in Blocks
    BY <2>1 DEF Inv, TypeOK
  <2>3. QED
    BY <2>1, <2>2 DEF Recyclable
<1>2. /\ pc[t] = "look" /\ CacheFree /\ Goto(t, "miss")
      /\ \A c \in Blocks : sector[c] # want[t]
  BY DEF Miss, Cached
<1>3. /\ pc'[t] = "miss" /\ \A u \in Threads : u # t => pc'[u] = pc[u]
      /\ pc' \in [Threads -> Labels]
  BY <1>2, LabelsAre, GotoSpec DEF Inv
<1>4. /\ lru' \in Seq(Blocks)
      /\ blk' \in [Threads -> Blocks] /\ blk'[t] = b
      /\ \A u \in Threads : u # t => blk'[u] = blk[u]
      /\ UNCHANGED <<err, dirty, buf, locked, queued, disk, want, again>>
  BY <1>1, TakeSpec DEF Inv
<1>5. /\ sector'[b] = want[t] /\ want[t] \in Sectors
      /\ \A c \in Blocks : c # b => sector'[c] = sector[c]
  BY <1>1 DEF Inv, TypeOK
<1>6. TypeOK'
  <2>1. /\ refcount' \in [Blocks -> Nat]
        /\ sector' \in [Blocks -> Sectors \cup {NoSector}]
    BY <1>1, <1>5 DEF Inv, TypeOK
  <2>2. QED
    BY <1>3, <1>4, <2>1 DEF Inv, TypeOK
<1>7. RefcountExact'
  <2>1. refcount' = [refcount EXCEPT ![b] = @ + 1]
    BY <1>1 DEF Inv, TypeOK
  <2>2. QED
    BY <1>2, <1>3, <1>4, <1>6, <2>1, RefersAnew DEF Inv, Refers
<1>8. OneHolder'
  BY <1>2, <1>3 DEF CacheFree, OneHolder
<1>9. Locks'
  BY <1>3, <1>4 DEF Inv, Locks, Locking
<1>10. \A u \in Threads : Refers(u) => blk[u] # b /\ u # t
  BY <1>1, <1>2, NobodyRefers DEF Inv, Refers
<1>11. \A u \in Threads : u # t /\ Refers(u)' =>
         pc'[u] = pc[u] /\ Refers(u) /\ blk'[u] = blk[u] /\ blk[u] # b /\ blk[u] \in Blocks
  BY <1>3, <1>4, <1>10 DEF Refers, Inv, TypeOK
<1>12. \A u \in Threads :
         /\ pc'[u] \in LoadLabels \cup FindLabels \cup UseLabels \cup {"failed"} => Refers(u)'
         /\ pc[u] \in LoadLabels => Refers(u)
  BY DEF Refers, LoadLabels, FindLabels, UseLabels
<1>13. /\ "miss" \in LoadLabels
       /\ "miss" \notin FindLabels \cup UseLabels \cup {"failed"}
  BY DEF LoadLabels, FindLabels, UseLabels
<1>14. \A c \in Blocks : NotLoaded(c)' <=> NotLoaded(c) /\ c # b
  BY <1>3, <1>4, <1>10, <1>12, <1>13 DEF NotLoaded
<1>15. Loaders'
  <2>1. ASSUME NEW c \in Blocks, err'[c] = "in_progress"
        PROVE  \E u \in Threads : pc'[u] = "loading" /\ blk'[u] = c
    <3>1. PICK u \in Threads : pc[u] = "loading" /\ blk[u] = c
      BY <1>4, <2>1 DEF Inv, Loaders
    <3>2. QED
      BY <1>2, <1>3, <1>4, <3>1
  <2>2. ASSUME NEW v \in Threads, NEW u \in Threads,
               pc'[v] \in LoadLabels, Refers(u)', blk'[u] = blk'[v], u # v
        PROVE  pc'[u] \in {"hit", "hit_wait"}
    <3>1. u # t /\ v # t
      BY <1>4, <1>11, <1>12, <2>2
    <3>2. QED
      BY <1>11, <1>12, <2>2, <3>1 DEF Inv, Loaders
  <2>3. ASSUME NEW u \in Threads, pc'[u] \in LoadLabels
        PROVE  sector'[blk'[u]] = want'[u]
    <3>1. CASE u = t
      BY <1>4, <1>5, <3>1
    <3>2. CASE u # t
      BY <1>4, <1>5, <1>11, <1>12, <2>3, <3>2 DEF Inv, Loaders
    <3>3. QED
      BY <3>1, <3>2
  <2>4. QED
    BY <2>1, <2>2, <2>3 DEF Loaders
<1>16. Finders'
  <2> SUFFICES ASSUME NEW u \in Threads, pc'[u] \in FindLabels
               PROVE  \/ sector'[blk'[u]] = want'[u]
                      \/ err'[blk'[u]] = "error" /\ NotLoaded(blk[u])'
    BY DEF Finders
  <2>1. u # t
    BY <1>3, <1>13
  <2>2. pc[u] \in FindLabels /\ blk'[u] = blk[u] /\ blk[u] # b /\ blk[u] \in Blocks
    BY <1>3, <1>11, <1>12, <2>1
  <2>3. NotLoaded(blk[u])' <=> NotLoaded(blk[u])
    BY <1>14, <2>2
  <2>4. QED
    BY <1>4, <1>5, <2>2, <2>3 DEF Inv, Finders
<1>17. Users'
  <2> SUFFICES ASSUME NEW u \in Threads, pc'[u] \in UseLabels \cup {"failed"}
               PROVE  /\ pc'[u] \in UseLabels
                           => sector'[blk'[u]] = want'[u] /\ err'[blk'[u]] = "ok"
                      /\ pc'[u] = "failed" => err'[blk'[u]] = "error"
    BY DEF Users
  <2>1. u # t
    BY <1>3, <1>13
  <2>2. pc'[u] = pc[u] /\ blk'[u] = blk[u] /\ blk[u] # b /\ blk[u] \in Blocks
    BY <1>11, <1>12, <2>1
  <2>3. QED
    BY <1>4, <1>5, <2>2 DEF Inv, Users
<1>18. OneBlock'
  BY <1>2, <1>5 DEF Inv, OneBlock
<1>19. Clean'
  <2> SUFFICES ASSUME NEW c \in Blocks, sector'[c] \in Sectors, NotLoaded(c)',
                      err'[c] = "ok", ~dirty'[c]
               PROVE  buf'[c] = disk'[sector'[c]]
    BY DEF Clean
  <2>1. c # b /\ NotLoaded(c)
    BY <1>14
  <2>2. QED
    BY <1>4, <1>5, <2>1 DEF Inv, Clean
<1>20. QED
  BY <1>6, <1>7, <1>8, <1>9, <1>15, <1>16, <1>17, <1>18, <1>19 DEF Inv

(* t goes to a label where it refers to no block.                          *)
LEMMA OutInv ==
  ASSUME Inv, NEW t \in Threads, pc[t] \in {"out", "drop"}, TypeOK', RefcountExact',
         pc'[t] \in {"out", "look"},
         \A u \in Threads : u # t =>
           pc'[u] = pc[u] /\ blk'[u] = blk[u] /\ want'[u] = want[u],
         UNCHANGED <<sector, err, dirty, buf, lru, lockVars, disk>>
  PROVE  Inv'
<1>1. OneHolder'
  BY DEF Inv, OneHolder, HoldingCache
<1>2. Locks'
  BY DEF Inv, Locks, Locking, lockVars
<1>3. \A u \in Threads :
        /\ pc'[u] \in LoadLabels <=> pc[u] \in LoadLabels
        /\ pc'[u] \in LoadLabels => u # t
  BY DEF LoadLabels
<1>4. \A c \in Blocks : NotLoaded(c)' <=> NotLoaded(c)
  BY <1>3 DEF NotLoaded
<1>5. Loaders'
  <2>1. ASSUME NEW c \in Blocks, err'[c] = "in_progress"
        PROVE  \E u \in Threads : pc'[u] = "loading" /\ blk'[u] = c
    <3>1. PICK u \in Threads : pc[u] = "loading" /\ blk[u] = c
      BY <2>1 DEF Inv, Loaders
    <3>2. QED
      BY <3>1
  <2>2. \A v, u \in Threads :
          pc'[v] \in LoadLabels /\ Refers(u)' /\ blk'[u] = blk'[v] /\ u # v
            => pc'[u] \in {"hit", "hit_wait"}
    BY <1>3 DEF Inv, Loaders, Refers
  <2>3. \A u \in Threads : pc'[u] \in LoadLabels => sector'[blk'[u]] = want'[u]
    BY <1>3 DEF Inv, Loaders
  <2>4. QED
    BY <2>1, <2>2, <2>3 DEF Loaders
<1>6. Finders'
  <2> SUFFICES ASSUME NEW u \in Threads, pc'[u] \in FindLabels
               PROVE  \/ sector'[blk'[u]] = want'[u]
                      \/ err'[blk'[u]] = "error" /\ NotLoaded(blk[u])'
    BY DEF Finders
  <2>1. u # t /\ pc[u] \in FindLabels /\ blk'[u] = blk[u] /\ blk[u] \in Blocks
    BY DEF FindLabels, Inv, TypeOK
  <2>2. NotLoaded(blk[u])' <=> NotLoaded(blk[u])
    BY <1>4, <2>1
  <2>3. QED
    BY <2>1, <2>2 DEF Inv, Finders
<1>7. Users'
  BY DEF Inv, Users, UseLabels
<1>8. OneBlock' /\ Clean'
  BY <1>4 DEF Inv, OneBlock, Clean
<1>9. QED
  BY <1>1, <1>2, <1>5, <1>6, <1>7, <1>8 DEF Inv

LEMMA AnyExists == AnyBlock \in Blocks /\ AnySector \in Sectors
BY SectorsAssumption DEF AnyBlock, AnySector

LEMMA AcquireInv ==
  ASSUME Inv, NEW t \in Threads, NEW s \in Sectors, Acquire(t, s)
  PROVE  Inv'
<1>1. /\ pc[t] = "out" /\ want' = [want EXCEPT ![t] = s] /\ Goto(t, "look")
      /\ UNCHANGED <<sector, refcount, err, dirty, buf, lru, lockVars, disk, blk, again>>
  BY DEF Acquire, blockVars
<1>2. /\ pc' \in [Threads -> Labels] /\ pc'[t] = "look"
      /\ \A u \in Threads : u # t => pc'[u] = pc[u]
  BY <1>1, LabelsAre, GotoSpec DEF Inv
<1>3. TypeOK'
  BY <1>1, <1>2 DEF Inv, TypeOK, lockVars
<1>4. RefcountExact'
  <2>1. \A b \in Blocks : Referrers(b)' = Referrers(b)
    BY <1>1, <1>2 DEF Referrers, Refers
  <2>2. QED
    BY <1>1, <1>3, <2>1, RefcountCounts, RefcountCountsNext DEF Inv
<1>5. QED
  BY <1>1, <1>2, <1>3, <1>4, OutInv DEF Inv, TypeOK

LEMMA DropInv ==
  ASSUME Inv, NEW t \in Threads, Drop(t)
  PROVE  Inv'
<1>1. /\ pc[t] = "drop" /\ refcount' = [refcount EXCEPT ![blk[t]] = @ - 1]
      /\ blk' = [blk EXCEPT ![t] = AnyBlock]
      /\ \E s \in Sectors : want' = [want EXCEPT ![t] = s]
      /\ again' = again \ {t}
      /\ UNCHANGED <<sector, err, dirty, buf, lru, lockVars, disk>>
  BY AnyExists DEF Drop, Inv, TypeOK
<1>2. PICK x \in {"look", "out"} : Goto(t, x)
  BY DEF Drop
<1>3. /\ pc' \in [Threads -> Labels] /\ pc'[t] = x
      /\ \A u \in Threads : u # t => pc'[u] = pc[u] /\ blk'[u] = blk[u]
  BY <1>1, <1>2, LabelsAre, GotoSpec DEF Inv, TypeOK
<1>4. refcount[blk[t]] \in Nat \ {0} /\ blk[t] \in Blocks
  BY <1>1, SomebodyRefers DEF Inv, Refers, TypeOK
<1>5. TypeOK'
  <2>1. refcount' \in [Blocks -> Nat]
    BY <1>1, <1>4 DEF Inv, TypeOK
  <2>2. blk' \in [Threads -> Blocks] /\ want' \in [Threads -> Sectors]
    BY <1>1, AnyExists DEF Inv, TypeOK
  <2>3. QED
    BY <1>1, <1>3, <2>1, <2>2 DEF Inv, TypeOK, lockVars
<1>6. RefcountExact'
  <2>1. t \in Referrers(blk[t])
    BY <1>1 DEF Referrers, Refers
  <2>2. \A c \in Blocks : Referrers(c)' = Referrers(c) \ {t}
    BY <1>3 DEF Referrers, Refers
  <2>3. \A c \in Blocks : c # blk[t] => t \notin Referrers(c)
    BY DEF Referrers
  <2>4. \A c \in Blocks : Cardinality(Referrers(c) \ {t}) =
          IF t \in Referrers(c) THEN Cardinality(Referrers(c)) - 1
          ELSE Cardinality(Referrers(c))
    BY ReferrersFinite, FS_RemoveElement
  <2>5. \A c \in Blocks :
          refcount'[c] = IF c = blk[t] THEN refcount[c] - 1 ELSE refcount[c]
    BY <1>1 DEF Inv, TypeOK
  <2>6. \A c \in Blocks : refcount'[c] = Cardinality(Referrers(c)')
    BY <2>1, <2>2, <2>3, <2>4, <2>5, RefcountCounts DEF Inv
  <2>7. QED
    BY <1>5, <2>6, RefcountCountsNext
<1>7. \A u \in Threads : u # t => want'[u] = want[u]
  BY <1>1 DEF Inv, TypeOK
<1>8. QED
  BY <1>1, <1>3, <1>5, <1>6, <1>7, OutInv

-----------------------------------------------------------------------------

LEMMA InitInv == Init => Inv
<1> SUFFICES ASSUME Init PROVE Inv
  OBVIOUS
<1>1. lru \in Seq(Blocks)
  <2>1. PICK f : f \in Bijection(1..Cardinality(Blocks), Blocks)
    BY SectorsAssumption, FS_CardinalityType DEF ExistsBijection
  <2>2. f \in [1..Cardinality(Blocks) -> Blocks] /\ IsInjective(f)
    BY <2>1 DEF Bijection, Injection, IsInjective
  <2>3. SetToSeq(Blocks) \in [1..Cardinality(Blocks) -> Blocks]
    BY <2>2 DEF SetToSeq
  <2>4. Cardinality(Blocks) \in Nat
    BY SectorsAssumption, FS_CardinalityType
  <2>5. QED
    BY <2>3, <2>4 DEF Init
<1>2. TypeOK
  BY <1>1, AnyExists, LabelsAre DEF Init, TypeOK, Contents
<1>3. RefcountExact
  <2>1. \A b \in Blocks : Referrers(b) = {}
    BY DEF Init, Referrers, Refers
  <2>2. QED
    BY <1>2, <2>1, RefcountCounts, FS_EmptySet DEF Init
<1>4. OneHolder /\ Locks
  BY DEF Init, OneHolder, Locks, HoldingCache, Locking
<1>5. Loaders /\ Finders /\ Users
  BY DEF Init, Loaders, Finders, Users, LoadLabels, FindLabels, UseLabels
<1>6. OneBlock /\ Clean
  BY SectorsAssumption DEF Init, OneBlock, Clean
<1>7. QED
  BY <1>2, <1>3, <1>4, <1>5, <1>6 DEF Inv

LEMMA NextInv ==
  ASSUME Inv, [Next]_vars
  PROVE  Inv'
<1>1. ASSUME NEW t \in Threads, NEW s \in Sectors, Acquire(t, s) PROVE Inv'
  BY <1>1, AcquireInv
<1>2. ASSUME NEW t \in Threads, UnderCacheMut(t) PROVE Inv'
  BY <1>2, HitInv, MissInv, ForgetInv, DropInv DEF UnderCacheMut
<1>3. ASSUME NEW t \in Threads, OnBlock(t) PROVE Inv'
  BY <1>3, EnterFoundInv, EnterMissingInv, FoundInv, FillInv, LoadedInv, StartReadInv,
     EndReadInv, StartWriteInv, EndWriteInv, CountRefsInv, TestDirtyInv, TryLockInv,
     FlushInv, EndFlushInv DEF OnBlock
<1>4. ASSUME UNCHANGED vars PROVE Inv'
  <2>1. UNCHANGED <<sector, refcount, err, dirty, buf, lru, locked, queued, disk, pc, blk,
                    want, again>>
    BY <1>4 DEF vars, blockVars, lockVars
  <2>2. TypeOK' /\ OneHolder' /\ Locks'
    BY <2>1 DEF Inv, TypeOK, OneHolder, Locks
  <2>3. RefcountExact'
    BY <2>1 DEF Inv, RefcountExact, At
  <2>4. Loaders' /\ Finders' /\ Users' /\ OneBlock' /\ Clean'
    BY <2>1 DEF Inv, Loaders, Finders, Users, OneBlock, Clean, NotLoaded, Refers
  <2>5. QED
    BY <2>2, <2>3, <2>4 DEF Inv
<1>5. QED
  BY <1>1, <1>2, <1>3, <1>4 DEF Next

LEMMA Safety == Spec => []Inv
<1>1. Inv /\ [Next]_vars => Inv'
  BY NextInv
<1>2. QED
  BY InitInv, <1>1, PTL DEF Spec

-----------------------------------------------------------------------------

(* Blocks, sectors, queues and where each thread is keep to their types:   *)
(* among them the reference counts, which disk_cache_block_release          *)
(* decrements and which never fall below zero.                              *)
THEOREM TypeCorrect == Spec => []TypeOK
BY Safety, PTL DEF Inv

(* The reference count that guards a block against recycling counts the    *)
(* threads that refer to it, though disk_cache_block_release reads it      *)
(* without cache_mut and an acquire may start again.                       *)
THEOREM ReferencesCounted == Spec => [](TypeOK /\ RefcountExact)
<1>1. Inv => TypeOK /\ RefcountExact
  BY DEF Inv
<1>2. QED
  BY Safety, <1>1, PTL

(* A client has a block of the sector that it asked for, filled without    *)
(* error, and no two blocks hold the same sector: no recycling, failed     *)
(* transfer or simultaneous miss gets in between.                          *)
THEOREM SectorIsOwn == Spec => []OwnSector
<1>1. Inv => OwnSector
  BY DEF Inv, OwnSector, Users, UseLabels, OneBlock
<1>2. QED
  BY Safety, <1>1, PTL

(* A block is filled or written by one thread that nobody reads beside,    *)
(* and is not written while it is written back, although flush_block takes *)
(* the lock as a plain mutex.                                              *)
THEOREM LockExcludes == Spec => []LockExclusive
<1>1. Inv => LockExclusive
  <2> SUFFICES ASSUME Inv, NEW b \in Blocks
               PROVE  /\ Cardinality(At(Locking, b)) <= 1
                      /\ At(Locking \ {"flushing", "flushed"}, b) # {}
                           => At({"reading"}, b) = {}
                      /\ err[b] = "in_progress" => At({"loading"}, b) # {}
    BY DEF LockExclusive
  <2>1. Cardinality(At(Locking, b)) <= 1
    <3>1. CASE At(Locking, b) = {}
      BY <3>1, FS_EmptySet
    <3>2. CASE At(Locking, b) # {}
      <4>1. PICK t \in Threads : At(Locking, b) = {t}
        BY <3>2 DEF At, Inv, Locks
      <4>2. QED
        <5>1. Cardinality({t}) = 1
          BY FS_Singleton
        <5>2. QED
          BY <4>1, <5>1
    <3>3. QED
      BY <3>1, <3>2
  <2>2. At(Locking \ {"flushing", "flushed"}, b) # {} => At({"reading"}, b) = {}
    BY DEF At, Inv, Locks
  <2>3. err[b] = "in_progress" => At({"loading"}, b) # {}
    BY DEF At, Inv, Loaders
  <2>4. QED
    BY <2>1, <2>2, <2>3
<1>2. QED
  BY Safety, <1>1, PTL

(* A block that is not marked dirty agrees with the disk: marking a block  *)
(* before it is unlocked is early enough, and a write-back clears the mark *)
(* of what it wrote only.                                                  *)
THEOREM CleanIsWritten == Spec => []CleanMeansWritten
<1>1. Inv => CleanMeansWritten
  <2>1. \A b \in Blocks : At({"miss", "miss_wait", "filling", "loading"}, b) = {}
                            <=> NotLoaded(b)
    BY DEF At, NotLoaded, LoadLabels
  <2>2. QED
    BY <2>1 DEF Inv, Clean, CleanMeansWritten
<1>2. QED
  BY Safety, <1>1, PTL

-----------------------------------------------------------------------------
(***************************************************************************)
(* With one client, whose transfers succeed, the cache implements the      *)
(* store of sectors, for any sectors and any number of blocks.  (Two       *)
(* clients can lose a write: see the run cache_lost.)  What a sector holds *)
(* is in the one block that is dirty, if it is the sector's, or else on    *)
(* the disk; and a block is dirty only while the client still refers to it.*)
(***************************************************************************)

OneClient == BadSectors = {} /\ \E c : Threads = {c}

(* A dirty block is that of the client, before it is written back.         *)
Unwritten ==
  \A b \in Blocks : dirty[b] =>
    \E t \in Threads :
      /\ blk[t] = b
      /\ pc[t] \in UseLabels \cup {"release", "last", "try", "flushing"}

(* The lock of a block is the client's, who waits for none.                *)
Unlocked ==
  /\ \A b \in Blocks : locked[b] => \E t \in Threads : blk[t] = b /\ pc[t] \in Locking
  /\ queued = {}

(* Transfers succeed, and the block is still that of the sector asked for. *)
Sound ==
  /\ \A b \in Blocks : err[b] # "error"
  /\ \A t \in Threads :
       /\ pc[t] \in {"release", "last", "try", "flushing"}
            => sector[blk[t]] = want[t] /\ err[blk[t]] = "ok"
       /\ pc[t] = "loading" => err[blk[t]] = "in_progress"
       /\ pc[t] # "failed"

Solo == Inv /\ Unwritten /\ Unlocked /\ Sound

-----------------------------------------------------------------------------
(* What a sector holds.                                                    *)

VisibleAs ==
  \A s \in Sectors :
    /\ \A b \in Blocks : dirty[b] /\ sector[b] = s => Visible(s) = buf[b]
    /\ (\A b \in Blocks : sector[b] = s => ~dirty[b]) => Visible(s) = disk[s]

LEMMA VisibleIs == OneClient /\ Solo => VisibleAs
<1> SUFFICES ASSUME OneClient, Solo, NEW s \in Sectors
             PROVE  /\ \A b \in Blocks : dirty[b] /\ sector[b] = s => Visible(s) = buf[b]
                    /\ (\A b \in Blocks : sector[b] = s => ~dirty[b])
                         => Visible(s) = disk[s]
  BY DEF VisibleAs
<1>1. PICK c : Threads = {c}
  BY DEF OneClient
<1> DEFINE caching == {b \in Blocks : /\ sector[b] = s /\ err[b] = "ok"
                                      /\ At({"miss", "miss_wait", "filling"}, b) = {}}
<1>2. Visible(s) = IF caching = {} THEN disk[s] ELSE buf[CHOOSE b \in caching : TRUE]
  BY DEF Visible
<1>3. ASSUME NEW b \in Blocks, dirty[b], sector[b] = s
      PROVE  Visible(s) = buf[b]
  <2>1. blk[c] = b /\ pc[c] \in UseLabels \cup {"release", "last", "try", "flushing"}
    BY <1>1, <1>3 DEF Solo, Unwritten
  <2>2. err[b] = "ok"
    BY <1>1, <2>1 DEF Solo, Inv, Users, Sound
  <2>3. At({"miss", "miss_wait", "filling"}, b) = {}
    BY <1>1, <2>1 DEF At, UseLabels
  <2>4. caching = {b}
    BY <1>3, <2>2, <2>3, SectorsAssumption DEF Solo, Inv, OneBlock
  <2> HIDE DEF caching
  <2>5. QED
    BY <1>2, <2>4
<1>4. ASSUME \A b \in Blocks : sector[b] = s => ~dirty[b]
      PROVE  Visible(s) = disk[s]
  <2>1. ASSUME NEW b \in caching PROVE buf[b] = disk[s]
    <3>1. b \in Blocks /\ sector[b] = s /\ err[b] = "ok" /\ ~dirty[b]
      BY <1>4
    <3>2. \A t \in Threads : blk[t] = b => pc[t] \notin LoadLabels
      BY <3>1 DEF At, LoadLabels, Solo, Sound
    <3>3. QED
      BY <3>1, <3>2 DEF Solo, Inv, Clean, NotLoaded
  <2> HIDE DEF caching
  <2>2. QED
    BY <1>2, <2>1
<1>5. QED
  BY <1>3, <1>4

(* A step on which nothing depends.                                        *)
Hidden == /\ \A s \in Sectors : Visible(s)' = Visible(s)
          /\ \A t \in Threads : pc[t] # "writing" /\ pc'[t] # "writing"

LEMMA SameContents ==
  ASSUME VisibleAs, VisibleAs', UNCHANGED <<sector, dirty, buf, disk>>
  PROVE  \A s \in Sectors : Visible(s)' = Visible(s)
<1> SUFFICES ASSUME NEW s \in Sectors PROVE Visible(s)' = Visible(s)
  OBVIOUS
<1>1. CASE \E b \in Blocks : dirty[b] /\ sector[b] = s
  BY <1>1 DEF VisibleAs
<1>2. CASE \A b \in Blocks : sector[b] = s => ~dirty[b]
  BY <1>2 DEF VisibleAs
<1>3. QED
  BY <1>1, <1>2

LEMMA HiddenStep ==
  ASSUME Hidden
  PROVE  UNCHANGED Store!vars
<1>1. [s \in Sectors |-> Visible(s)]' = [s \in Sectors |-> Visible(s)]
  BY DEF Hidden
<1>2. {<<t, want[t]>> : t \in {u \in Threads : pc[u] = "writing"}} = {}
  BY DEF Hidden
<1>3. {<<t, want[t]>> : t \in {u \in Threads : pc[u] = "writing"}}' = {}
  BY DEF Hidden
<1>4. QED
  BY <1>1, <1>2, <1>3 DEF Store!vars

-----------------------------------------------------------------------------
(* The steps of the client c.                                              *)

Rest == Unwritten /\ Unlocked /\ Sound

ReleaseLabels == {"release", "last", "try", "flushing"}

LEMMA SoloMove ==
  ASSUME NEW c, Threads = {c}, Solo, NEW x \in Labels \ {"loading", "failed"}, Goto(c, x),
         UNCHANGED <<sector, dirty, err, blk, want>>, queued' = {},
         pc[c] \in UseLabels \cup ReleaseLabels /\ dirty[blk[c]]
           => x \in UseLabels \cup ReleaseLabels,
         x \in ReleaseLabels => pc[c] \in UseLabels \cup ReleaseLabels,
         \/ UNCHANGED locked /\ (pc[c] \in Locking => x \in Locking)
         \/ locked' = [locked EXCEPT ![blk[c]] = TRUE] /\ x \in Locking
         \/ locked' = [locked EXCEPT ![blk[c]] = FALSE]
  PROVE  Rest'
<1>1. pc'[c] = x
  BY GotoSpec DEF Solo, Inv
<1>2. Unwritten'
  BY <1>1 DEF Solo, Unwritten, ReleaseLabels
<1>3. Unlocked'
  <2>1. \A b \in Blocks : locked'[b] => blk[c] = b /\ x \in Locking
    <3>1. \A b \in Blocks : locked[b] => blk[c] = b /\ pc[c] \in Locking
      BY DEF Solo, Unlocked
    <3>2. locked \in [Blocks -> BOOLEAN]
      BY DEF Solo, Inv, TypeOK
    <3>3. QED
      BY <3>1, <3>2
  <2>2. QED
    BY <1>1, <2>1 DEF Unlocked
<1>4. Sound'
  BY <1>1 DEF Solo, Sound, Inv, Users, ReleaseLabels
<1>5. QED
  BY <1>2, <1>3, <1>4 DEF Rest

(* The client never waits.                                                 *)
LEMMA FreeToLock ==
  ASSUME NEW c, Threads = {c}, Solo, pc[c] \notin Locking
  PROVE  blk[c] \in Blocks /\ ~locked[blk[c]] /\ c \notin queued /\ queued = {}
BY DEF Solo, Unlocked, Inv, TypeOK

LEMMA SoloWriteLock ==
  ASSUME NEW c, Threads = {c}, Solo, NEW at, NEW wait, NEW to, WriteLock(c, at, wait, to),
         {at, wait} \cap (Locking \cup {"reading"}) = {}
  PROVE  /\ pc[c] \in {at, wait} /\ Goto(c, to) /\ queued' = {}
         /\ locked' = [locked EXCEPT ![blk[c]] = TRUE]
<1>1. pc[c] \in {at, wait} /\ pc[c] # "reading"
  BY DEF WriteLock
<1>2. ~locked[blk[c]] /\ queued = {} /\ At({"reading"}, blk[c]) = {}
  BY <1>1, FreeToLock DEF At
<1>3. QED
  BY <1>1, <1>2 DEF WriteLock

LEMMA SoloLock ==
  ASSUME NEW c, Threads = {c}, Solo, EnterFound(c) \/ EnterMissing(c) \/ StartWrite(c)
  PROVE  Rest'
<1>1. CASE EnterFound(c)
  <2>1. /\ pc[c] \in {"hit", "hit_wait"} /\ Goto(c, "found") /\ queued' = {}
        /\ locked' = [locked EXCEPT ![blk[c]] = TRUE]
    BY <1>1, SoloWriteLock DEF EnterFound, Locking
  <2>2. QED
    BY <1>1, <2>1, SoloMove, LabelsAre
    DEF EnterFound, blockVars, UseLabels, ReleaseLabels, Locking
<1>2. CASE EnterMissing(c)
  <2>1. /\ pc[c] \in {"miss", "miss_wait"} /\ Goto(c, "filling") /\ queued' = {}
        /\ locked' = [locked EXCEPT ![blk[c]] = TRUE]
    BY <1>2, SoloWriteLock DEF EnterMissing, Locking
  <2>2. QED
    BY <1>2, <2>1, SoloMove, LabelsAre
    DEF EnterMissing, blockVars, UseLabels, ReleaseLabels, Locking
<1>3. CASE StartWrite(c)
  <2>1. /\ pc[c] \in {"using", "write_wait"} /\ Goto(c, "writing") /\ queued' = {}
        /\ locked' = [locked EXCEPT ![blk[c]] = TRUE]
    BY <1>3, SoloWriteLock DEF StartWrite, Locking
  <2>2. QED
    BY <1>3, <2>1, SoloMove, LabelsAre
    DEF StartWrite, blockVars, UseLabels, ReleaseLabels, Locking
<1>4. QED
  BY <1>1, <1>2, <1>3

LEMMA SoloRead ==
  ASSUME NEW c, Threads = {c}, Solo, StartRead(c) \/ EndRead(c)
  PROVE  Rest'
<1>1. CASE StartRead(c)
  <2>1. pc[c] \in {"using", "read_wait"} /\ At(WaitingToWrite, blk[c]) = {}
    BY <1>1 DEF StartRead, ReadLock, At, WaitingToWrite
  <2>2. Goto(c, "reading") /\ queued' = {}
    BY <1>1, <2>1, FreeToLock DEF StartRead, ReadLock, Locking
  <2>3. QED
    BY <1>1, <2>1, <2>2, SoloMove, LabelsAre
    DEF StartRead, ReadLock, blockVars, UseLabels, ReleaseLabels, Locking
<1>2. CASE EndRead(c)
  <2>1. queued' = {}
    BY <1>2 DEF EndRead, WakeAll, Solo, Unlocked
  <2>2. QED
    BY <1>2, <2>1, SoloMove, LabelsAre
    DEF EndRead, blockVars, UseLabels, ReleaseLabels, Locking
<1>3. QED
  BY <1>1, <1>2

LEMMA SoloFound ==
  ASSUME NEW c, Threads = {c}, Solo, Found(c)
  PROVE  Rest'
<1>1. blk[c] \in Blocks /\ err[blk[c]] # "error"
  BY DEF Solo, Sound, Inv, TypeOK
<1>2. /\ pc[c] = "found" /\ Goto(c, "using") /\ queued' = {}
      /\ locked' = [locked EXCEPT ![blk[c]] = FALSE]
  BY <1>1 DEF Found, WriteUnlock, WakeAll, Solo, Unlocked
<1>3. QED
  BY <1>2, SoloMove, LabelsAre DEF Found, blockVars, UseLabels, ReleaseLabels, Locking

LEMMA SoleReference ==
  ASSUME NEW c, Threads = {c}, Solo, Refers(c)
  PROVE  refcount[blk[c]] = 1
<1>1. Referrers(blk[c]) = {c} /\ blk[c] \in Blocks
  BY DEF Referrers, Solo, Inv, TypeOK
<1>2. Cardinality({c}) = 1
  BY FS_Singleton
<1>3. QED
  BY <1>1, <1>2, RefcountCounts DEF Solo, Inv

LEMMA SoloRelease ==
  ASSUME NEW c, Threads = {c}, Solo, CountRefs(c) \/ TestDirty(c) \/ TryLock(c) \/ EndFlush(c)
  PROVE  Rest'
<1>1. CASE CountRefs(c)
  <2>1. pc[c] = "release" /\ Goto(c, "last")
    BY <1>1, SoleReference DEF CountRefs, Refers
  <2>2. QED
    BY <1>1, <2>1, SoloMove, LabelsAre
    DEF CountRefs, blockVars, lockVars, UseLabels, ReleaseLabels, Locking, Solo, Unlocked
<1>2. CASE TestDirty(c)
  <2>1. PICK x \in {"try", "drop"} : Goto(c, x) /\ (dirty[blk[c]] => x = "try")
    BY <1>2 DEF TestDirty
  <2>2. QED
    BY <1>2, <2>1, SoloMove, LabelsAre
    DEF TestDirty, blockVars, lockVars, UseLabels, ReleaseLabels, Locking, Solo, Unlocked
<1>3. CASE TryLock(c)
  <2>1. /\ pc[c] = "try" /\ Goto(c, "flushing") /\ queued' = {}
        /\ locked' = [locked EXCEPT ![blk[c]] = TRUE]
    BY <1>3, FreeToLock DEF TryLock, Locking
  <2>2. QED
    BY <1>3, <2>1, SoloMove, LabelsAre
    DEF TryLock, blockVars, UseLabels, ReleaseLabels, Locking
<1>4. CASE EndFlush(c)
  <2>1. /\ pc[c] = "flushed" /\ Goto(c, "drop") /\ queued' = {}
        /\ locked' = [locked EXCEPT ![blk[c]] = FALSE]
    BY <1>4 DEF EndFlush, MutexUnlock, Solo, Unlocked
  <2>2. QED
    BY <1>4, <2>1, SoloMove, LabelsAre
    DEF EndFlush, blockVars, UseLabels, ReleaseLabels, Locking
<1>5. QED
  BY <1>1, <1>2, <1>3, <1>4

(* A client that asks for a block or gives one up has left none dirty.     *)
LEMMA NothingLeft ==
  ASSUME NEW c, Threads = {c}, Solo, pc[c] \in {"out", "look", "drop"}
  PROVE  \A b \in Blocks : ~dirty[b] /\ ~locked[b]
BY DEF Solo, Unwritten, Unlocked, UseLabels, Locking

LEMMA SoloFree ==
  ASSUME NEW c, Threads = {c}, Solo, pc[c] \in {"out", "look", "drop"},
         NEW x \in {"out", "look", "hit", "miss"}, Goto(c, x),
         UNCHANGED <<err, dirty, locked, queued>>
  PROVE  Rest'
<1>1. pc'[c] = x
  BY LabelsAre, GotoSpec DEF Solo, Inv
<1>2. \A b \in Blocks : ~dirty'[b] /\ ~locked'[b]
  BY NothingLeft
<1>3. QED
  BY <1>1, <1>2 DEF Solo, Rest, Unwritten, Unlocked, Sound

LEMMA SoloCacheMut ==
  ASSUME NEW c, Threads = {c}, Solo,
         UnderCacheMut(c) \/ \E s \in Sectors : Acquire(c, s)
  PROVE  Rest'
<1>1. CASE \E s \in Sectors : Acquire(c, s)
  BY <1>1, SoloFree DEF Acquire, blockVars, lockVars
<1>2. CASE Hit(c)
  BY <1>2, SoloFree DEF Hit, Take, lockVars
<1>3. CASE Miss(c)
  BY <1>3, SoloFree DEF Miss, Take, lockVars
<1>4. CASE Drop(c)
  <2>1. PICK x \in {"look", "out"} : Goto(c, x)
    BY <1>4 DEF Drop
  <2>2. QED
    BY <1>4, <2>1, SoloFree DEF Drop, lockVars
<1>5. ~Forget(c)
  BY DEF Forget, Solo, Sound
<1>6. QED
  BY <1>1, <1>2, <1>3, <1>4, <1>5 DEF UnderCacheMut

LEMMA SoloLoad ==
  ASSUME NEW c, Threads = {c}, BadSectors = {}, Solo, Fill(c) \/ Loaded(c)
  PROVE  Rest'
<1>1. blk[c] \in Blocks /\ queued = {} /\ locked \in [Blocks -> BOOLEAN]
      /\ err \in [Blocks -> {"ok", "in_progress", "error"}]
  BY DEF Solo, Unlocked, Inv, TypeOK
<1>2. CASE Fill(c)
  <2>1. /\ pc[c] = "filling" /\ pc'[c] = "loading"
        /\ err' = [err EXCEPT ![blk[c]] = "in_progress"]
        /\ UNCHANGED <<sector, dirty, locked, queued, blk, want>>
    BY <1>2, LabelsAre, GotoSpec DEF Fill, Solo, Inv, lockVars
  <2>2. Unwritten'
    BY <2>1 DEF Solo, Unwritten, UseLabels
  <2>3. Unlocked'
    BY <2>1 DEF Solo, Unlocked, Locking
  <2>4. Sound'
    BY <1>1, <2>1 DEF Solo, Sound
  <2>5. QED
    BY <2>2, <2>3, <2>4 DEF Rest
<1>3. CASE Loaded(c)
  <2>1. /\ pc[c] = "loading" /\ pc'[c] = "using"
        /\ err' = [err EXCEPT ![blk[c]] = "ok"]
        /\ locked' = [locked EXCEPT ![blk[c]] = FALSE] /\ queued' = {}
        /\ UNCHANGED <<sector, dirty, blk, want>>
    BY <1>1, <1>3, LabelsAre, GotoSpec
    DEF Loaded, ReadFails, WriteUnlock, WakeAll, Solo, Inv
  <2>2. Unwritten'
    BY <2>1 DEF Solo, Unwritten, UseLabels
  <2>3. Unlocked'
    BY <1>1, <2>1 DEF Solo, Unlocked, Locking
  <2>4. Sound'
    BY <1>1, <2>1 DEF Solo, Sound
  <2>5. QED
    BY <2>2, <2>3, <2>4 DEF Rest
<1>4. QED
  BY <1>2, <1>3

LEMMA SoloEndWrite ==
  ASSUME NEW c, Threads = {c}, Solo, EndWrite(c)
  PROVE  Rest'
<1>1. /\ pc[c] = "writing" /\ pc'[c] = "release" /\ queued' = {}
      /\ dirty' = [dirty EXCEPT ![blk[c]] = TRUE]
      /\ locked' = [locked EXCEPT ![blk[c]] = FALSE]
      /\ UNCHANGED <<sector, err, blk, want>>
  BY LabelsAre, GotoSpec DEF EndWrite, WriteUnlock, WakeAll, Solo, Inv, Unlocked
<1>2. /\ blk[c] \in Blocks /\ dirty \in [Blocks -> BOOLEAN]
      /\ locked \in [Blocks -> BOOLEAN]
  BY DEF Solo, Inv, TypeOK
<1>3. Unwritten'
  BY <1>1, <1>2 DEF Solo, Unwritten
<1>4. Unlocked'
  BY <1>1, <1>2 DEF Solo, Unlocked
<1>5. Sound'
  BY <1>1 DEF Solo, Sound, Inv, Users, UseLabels
<1>6. QED
  BY <1>3, <1>4, <1>5 DEF Rest

(* The write-back of a block that is dirty succeeds.                       *)
LEMMA SoloFlushes ==
  ASSUME NEW c, Threads = {c}, BadSectors = {}, Solo, Flush(c)
  PROVE  /\ pc[c] = "flushing" /\ pc'[c] = "flushed"
         /\ sector[blk[c]] = want[c] /\ err[blk[c]] = "ok"
         /\ blk[c] \in Blocks /\ want[c] \in Sectors
         /\ dirty' = [dirty EXCEPT ![blk[c]] = FALSE]
         /\ \/ ~dirty[blk[c]] /\ UNCHANGED disk
            \/ dirty[blk[c]] /\ disk' = [disk EXCEPT ![want[c]] = buf[blk[c]]]
         /\ UNCHANGED <<sector, err, buf, locked, queued, blk, want>>
<1>1. /\ pc[c] = "flushing" /\ pc'[c] = "flushed"
      /\ UNCHANGED <<sector, err, buf, locked, queued, blk, want>>
  BY LabelsAre, GotoSpec DEF Flush, Solo, Inv, lockVars
<1>2. /\ sector[blk[c]] = want[c] /\ err[blk[c]] = "ok"
      /\ blk[c] \in Blocks /\ want[c] \in Sectors /\ dirty \in [Blocks -> BOOLEAN]
  BY <1>1 DEF Solo, Sound, Inv, TypeOK
<1>3. ~WriteFails(sector[blk[c]])
  BY <1>2, SectorsAssumption DEF WriteFails
<1>4. \/ /\ dirty[blk[c]]
         /\ dirty' = [dirty EXCEPT ![blk[c]] = FALSE]
         /\ disk' = [disk EXCEPT ![want[c]] = buf[blk[c]]]
      \/ ~dirty[blk[c]] /\ UNCHANGED <<disk, dirty>>
  BY <1>2, <1>3 DEF Flush
<1>5. ~dirty[blk[c]] => dirty = [dirty EXCEPT ![blk[c]] = FALSE]
  BY <1>2
<1>6. QED
  BY <1>1, <1>2, <1>4, <1>5

LEMMA SoloFlush ==
  ASSUME NEW c, Threads = {c}, BadSectors = {}, Solo, Flush(c)
  PROVE  Rest'
<1>1. /\ pc[c] = "flushing" /\ pc'[c] = "flushed" /\ blk[c] \in Blocks
      /\ dirty' = [dirty EXCEPT ![blk[c]] = FALSE]
      /\ UNCHANGED <<sector, err, locked, queued, blk, want>>
  BY SoloFlushes
<1>2. Unwritten'
  BY <1>1 DEF Solo, Unwritten, Inv, TypeOK
<1>3. Unlocked'
  BY <1>1 DEF Solo, Unlocked, Locking
<1>4. Sound'
  BY <1>1 DEF Solo, Sound
<1>5. QED
  BY <1>2, <1>3, <1>4 DEF Rest

LEMMA SoloNext ==
  ASSUME OneClient, Solo, [Next]_vars
  PROVE  Solo'
<1>1. PICK c : Threads = {c}
  BY DEF OneClient
<1>2. Inv'
  BY NextInv DEF Solo
<1>3. UnderCacheMut(c) \/ (\E s \in Sectors : Acquire(c, s)) => Rest'
  BY <1>1, SoloCacheMut
<1>4. OnBlock(c) => Rest'
  BY <1>1, SoloLock, SoloRead, SoloFound, SoloRelease, SoloLoad, SoloEndWrite,
     SoloFlush DEF OnBlock, OneClient
<1>5. UNCHANGED vars => Rest'
  BY DEF vars, blockVars, lockVars, Solo, Rest, Unwritten, Unlocked, Sound
<1>6. Rest'
  BY <1>1, <1>3, <1>4, <1>5 DEF Next
<1>7. QED
  BY <1>2, <1>6 DEF Solo, Rest

LEMMA SoloAlways == OneClient => (Spec => []Solo)
<1> SUFFICES ASSUME OneClient PROVE Spec => []Solo
  OBVIOUS
<1>1. Init => Solo
  BY InitInv DEF Solo, Init, Unwritten, Unlocked, Sound
<1>2. Solo /\ [Next]_vars => Solo'
  BY SoloNext
<1>3. QED
  BY <1>1, <1>2, PTL DEF Spec

(* A block that nobody refers to has been written back: the client that    *)
(* releases it last waits neither for its lock nor for another attempt.    *)
THEOREM FreeBlocksClean == OneClient => (Spec => []FreeIsClean)
<1> SUFFICES ASSUME OneClient PROVE Spec => []FreeIsClean
  OBVIOUS
<1>1. Solo => FreeIsClean
  <2> SUFFICES ASSUME Solo, NEW b \in Blocks, refcount[b] = 0, dirty[b] PROVE FALSE
    BY DEF FreeIsClean
  <2>1. PICK t \in Threads :
          blk[t] = b /\ pc[t] \in UseLabels \cup {"release", "last", "try", "flushing"}
    BY DEF Solo, Unwritten
  <2>2. Refers(t)
    BY <2>1 DEF Refers, UseLabels
  <2>3. QED
    BY <2>1, <2>2, NobodyRefers DEF Solo, Inv
<1>2. QED
  BY SoloAlways, <1>1, PTL

-----------------------------------------------------------------------------
(* The steps that the store does not see.                                  *)

LEMMA SameDisk ==
  ASSUME VisibleAs, VisibleAs', UNCHANGED <<dirty, disk>>, \A b \in Blocks : ~dirty[b]
  PROVE  \A s \in Sectors : Visible(s)' = Visible(s)
BY DEF VisibleAs

(* A step that ends at the label x, off the writes.                        *)
LEMMA HiddenMove ==
  ASSUME NEW c, Threads = {c}, Solo, NEW x \in Labels \ {"writing"}, Goto(c, x),
         pc[c] # "writing", \A s \in Sectors : Visible(s)' = Visible(s)
  PROVE  Hidden
<1>1. pc'[c] = x
  BY GotoSpec DEF Solo, Inv
<1>2. QED
  BY <1>1 DEF Hidden

LEMMA HiddenCacheMut ==
  ASSUME NEW c, Threads = {c}, Solo, VisibleAs, VisibleAs',
         UnderCacheMut(c) \/ \E s \in Sectors : Acquire(c, s)
  PROVE  Hidden
<1>1. PICK x \in {"look", "hit", "miss", "out"} :
        Goto(c, x) /\ pc[c] \in {"out", "look", "drop"} /\ UNCHANGED <<dirty, disk>>
  BY DEF UnderCacheMut, Acquire, Hit, Miss, Forget, Drop, Take, Solo, Sound, blockVars
<1>2. \A s \in Sectors : Visible(s)' = Visible(s)
  BY <1>1, NothingLeft, SameDisk
<1>3. QED
  BY <1>1, <1>2, LabelsAre, HiddenMove

LEMMA HiddenLoaded ==
  ASSUME NEW c, Threads = {c}, BadSectors = {}, Solo, VisibleAs, VisibleAs', Loaded(c)
  PROVE  Hidden
<1>1. pc[c] = "loading" /\ Goto(c, "using") /\ UNCHANGED <<dirty, disk>>
  BY DEF Loaded, ReadFails
<1>2. \A b \in Blocks : ~dirty[b]
  BY <1>1 DEF Solo, Unwritten, UseLabels
<1>3. \A s \in Sectors : Visible(s)' = Visible(s)
  BY <1>1, <1>2, SameDisk
<1>4. QED
  BY <1>1, <1>3, LabelsAre, HiddenMove

(* The block that a write-back makes clean is the only one that was dirty. *)
LEMMA HiddenFlush ==
  ASSUME NEW c, Threads = {c}, BadSectors = {}, Solo, VisibleAs, VisibleAs', Flush(c)
  PROVE  Hidden
<1>1. /\ pc[c] = "flushing" /\ Goto(c, "flushed")
      /\ sector[blk[c]] = want[c] /\ blk[c] \in Blocks /\ want[c] \in Sectors
      /\ dirty' = [dirty EXCEPT ![blk[c]] = FALSE]
      /\ \/ ~dirty[blk[c]] /\ UNCHANGED disk
         \/ dirty[blk[c]] /\ disk' = [disk EXCEPT ![want[c]] = buf[blk[c]]]
      /\ UNCHANGED sector
  BY SoloFlushes DEF Flush
<1>2. \A b \in Blocks : dirty[b] => b = blk[c]
  BY DEF Solo, Unwritten
<1>3. dirty \in [Blocks -> BOOLEAN] /\ disk \in [Sectors -> Contents]
  BY DEF Solo, Inv, TypeOK
<1>4. \A b \in Blocks : ~dirty'[b]
  BY <1>1, <1>2, <1>3
<1>5. ASSUME NEW s \in Sectors PROVE Visible(s)' = Visible(s)
  <2>1. Visible(s)' = disk'[s]
    BY <1>4 DEF VisibleAs
  <2>2. CASE dirty[blk[c]] /\ s = want[c]
    <3>1. Visible(s) = buf[blk[c]]
      BY <1>1, <2>2 DEF VisibleAs
    <3>2. QED
      BY <1>1, <1>3, <2>1, <2>2, <3>1
  <2>3. CASE ~(dirty[blk[c]] /\ s = want[c])
    <3>1. Visible(s) = disk[s]
      BY <1>1, <1>2, <2>3 DEF VisibleAs
    <3>2. disk'[s] = disk[s]
      BY <1>1, <1>3, <2>3
    <3>3. QED
      BY <2>1, <3>1, <3>2
  <2>4. QED
    BY <2>2, <2>3
<1>6. QED
  BY <1>1, <1>5, LabelsAre, HiddenMove

LEMMA HiddenOnBlock ==
  ASSUME NEW c, Threads = {c}, Solo, VisibleAs, VisibleAs',
         \/ EnterFound(c) \/ EnterMissing(c) \/ Found(c) \/ Fill(c)
         \/ StartRead(c) \/ EndRead(c)
         \/ CountRefs(c) \/ TestDirty(c) \/ TryLock(c) \/ EndFlush(c)
  PROVE  Hidden
<1>1. UNCHANGED <<sector, dirty, buf, disk>>
  BY DEF EnterFound, EnterMissing, Found, Fill, StartRead, EndRead, CountRefs, TestDirty,
         TryLock, EndFlush, blockVars
<1>2. PICK x \in {"found", "hit_wait", "filling", "miss_wait", "release", "using", "loading",
                  "read_wait", "reading", "last", "drop", "try", "flushing"} :
        Goto(c, x) /\ pc[c] # "writing"
  <2>1. CASE EnterFound(c) \/ EnterMissing(c)
    BY <2>1 DEF EnterFound, EnterMissing, WriteLock
  <2>2. CASE Found(c) \/ Fill(c) \/ StartRead(c) \/ EndRead(c)
    BY <2>2 DEF Found, Fill, StartRead, ReadLock, EndRead
  <2>3. CASE CountRefs(c) \/ TestDirty(c) \/ TryLock(c) \/ EndFlush(c)
    BY <2>3 DEF CountRefs, TestDirty, TryLock, EndFlush
  <2>4. QED
    BY <2>1, <2>2, <2>3
<1>3. \A s \in Sectors : Visible(s)' = Visible(s)
  BY <1>1, SameContents
<1>4. QED
  BY <1>2, <1>3, LabelsAre, HiddenMove

-----------------------------------------------------------------------------
(* The steps that it sees.                                                 *)

LEMMA BeginsWrite ==
  ASSUME NEW c, Threads = {c}, Solo, VisibleAs, VisibleAs', StartWrite(c)
  PROVE  Store!Next
<1>1. pc[c] \in {"using", "write_wait"} /\ Goto(c, "writing")
  BY SoloWriteLock DEF StartWrite, Locking
<1>2. pc'[c] = "writing" /\ UNCHANGED <<sector, dirty, buf, disk, want>>
  BY <1>1, LabelsAre, GotoSpec DEF StartWrite, blockVars, Solo, Inv
<1>3. [s \in Sectors |-> Visible(s)]' = [s \in Sectors |-> Visible(s)]
  BY <1>2, SameContents
<1>4. {<<t, want[t]>> : t \in {u \in Threads : pc[u] = "writing"}} = {}
  BY <1>1
<1>5. PICK s \in Sectors : s = want[c]
  BY DEF Solo, Inv, TypeOK
<1>6. {<<t, want[t]>> : t \in {u \in Threads : pc[u] = "writing"}}' = {<<c, s>>}
  BY <1>2, <1>5
<1>7. Store!BeginWrite(c, s)
  BY <1>3, <1>4, <1>6 DEF Store!BeginWrite
<1>8. QED
  BY <1>5, <1>7 DEF Store!Next

LEMMA EndsWrite ==
  ASSUME NEW c, Threads = {c}, Solo, VisibleAs, VisibleAs', EndWrite(c)
  PROVE  Store!Next
<1>1. PICK v \in Contents : buf' = [buf EXCEPT ![blk[c]] = v]
  BY DEF EndWrite
<1>2. /\ pc[c] = "writing" /\ pc'[c] = "release"
      /\ dirty' = [dirty EXCEPT ![blk[c]] = TRUE]
      /\ UNCHANGED <<sector, disk, blk, want>>
  BY LabelsAre, GotoSpec DEF EndWrite, Solo, Inv
<1>3. /\ blk[c] \in Blocks /\ want[c] \in Sectors /\ c \in Threads
      /\ dirty \in [Blocks -> BOOLEAN] /\ buf \in [Blocks -> Contents]
  BY DEF Solo, Inv, TypeOK
<1>4. sector[blk[c]] = want[c] /\ \A b \in Blocks : dirty[b] => b = blk[c]
  BY <1>2 DEF Solo, Unwritten, Inv, Users, UseLabels
<1>5. ASSUME NEW s \in Sectors
      PROVE  Visible(s)' = IF s = want[c] THEN v ELSE Visible(s)
  <2>1. CASE s = want[c]
    <3>1. Visible(s)' = buf'[blk[c]]
      BY <1>2, <1>3, <1>4, <2>1 DEF VisibleAs
    <3>2. QED
      BY <1>1, <1>3, <2>1, <3>1
  <2>2. CASE s # want[c]
    <3>1. \A b \in Blocks : sector[b] = s => ~dirty[b] /\ ~dirty'[b]
      BY <1>2, <1>3, <1>4, <2>2
    <3>2. Visible(s) = disk[s] /\ Visible(s)' = disk'[s]
      BY <1>2, <3>1 DEF VisibleAs
    <3>3. QED
      BY <1>2, <2>2, <3>2
  <2>3. QED
    BY <2>1, <2>2
<1>6. [s \in Sectors |-> Visible(s)]'
        = [[s \in Sectors |-> Visible(s)] EXCEPT ![want[c]] = v]
  BY <1>5
<1>7. {<<t, want[t]>> : t \in {u \in Threads : pc[u] = "writing"}} = {<<c, want[c]>>}
  BY <1>2
<1>8. {<<t, want[t]>> : t \in {u \in Threads : pc[u] = "writing"}}' = {}
  BY <1>2
<1>9. Store!EndWrite(c, want[c], v)
  BY <1>6, <1>7, <1>8 DEF Store!EndWrite
<1>10. QED
  BY <1>3, <1>9 DEF Store!Next

LEMMA StoreNext ==
  ASSUME OneClient, Solo, VisibleAs, VisibleAs', [Next]_vars
  PROVE  [Store!Next]_(Store!vars)
<1>1. PICK c : Threads = {c}
  BY DEF OneClient
<1>2. UnderCacheMut(c) \/ (\E s \in Sectors : Acquire(c, s)) => Hidden
  BY <1>1, HiddenCacheMut
<1>3. OnBlock(c) => Hidden \/ Store!Next
  BY <1>1, HiddenOnBlock, HiddenLoaded, HiddenFlush, BeginsWrite, EndsWrite
  DEF OnBlock, OneClient
<1>4. ASSUME UNCHANGED vars PROVE UNCHANGED Store!vars
  <2>1. UNCHANGED <<sector, dirty, buf, disk, pc, want>>
    BY <1>4 DEF vars, blockVars
  <2>2. [s \in Sectors |-> Visible(s)]' = [s \in Sectors |-> Visible(s)]
    BY <2>1, SameContents
  <2>3. {<<t, want[t]>> : t \in {u \in Threads : pc[u] = "writing"}}'
          = {<<t, want[t]>> : t \in {u \in Threads : pc[u] = "writing"}}
    BY <2>1
  <2>4. QED
    BY <2>2, <2>3 DEF Store!vars
<1>5. Hidden \/ Store!Next \/ UNCHANGED Store!vars
  BY <1>1, <1>2, <1>3, <1>4 DEF Next
<1>6. QED
  BY <1>5, HiddenStep

(* The cache implements the store of sectors: what a client reads changes  *)
(* only when a client ends a write to that sector, and the recycling of    *)
(* its block loses no write.                                               *)
THEOREM CacheIsStore == OneClient => (Spec => ImplementsStore)
<1> SUFFICES ASSUME OneClient PROVE Spec => ImplementsStore
  OBVIOUS
<1>1. Init => Store!Init
  <2> SUFFICES ASSUME Init PROVE Store!Init
    OBVIOUS
  <2>1. Solo
    BY InitInv DEF Solo, Init, Unwritten, Unlocked, Sound
  <2>2. \A s \in Sectors : Visible(s) = 0
    BY <2>1, VisibleIs DEF VisibleAs, Init
  <2>3. {<<t, want[t]>> : t \in {u \in Threads : pc[u] = "writing"}} = {}
    BY DEF Init
  <2>4. QED
    BY <2>2, <2>3 DEF Store!Init
<1>2. Solo => VisibleAs
  BY VisibleIs
<1>3. Solo /\ VisibleAs /\ VisibleAs' /\ [Next]_vars => [Store!Next]_(Store!vars)
  BY StoreNext
<1>4. QED
  BY SoloAlways, <1>1, <1>2, <1>3, PTL DEF Spec, ImplementsStore, Store!Spec

=============================================================================
