# Mimosa in TLA+

Mimosa is a small x86 kernel in C++ that runs Gambit Scheme. This directory
holds TLA+ models of the parts of it whose correctness depends on the order in
which things happen: the thread scheduler, the locks, the disk cache, the
command queue of the IDE driver, the rings that carry interrupts to the Scheme
drivers; and of those that keep data in shape over long sequences of calls: the
heap, the files of a FAT volume, the standard streams. Each model is checked by
TLC on small instances; the safety properties of all of them are also proved
with TLAPS for every value of the constants, some under a condition that the
theorem names, the refinements of the three abstract specifications among them.

`PROJECT.json` maps each definition to the source lines it stands for, lists the
hazards of the code with the properties that cover them, and gives for each
property a plausible bug ("mutant") that it catches.

## The system

Line numbers are those of the sources under `src/`. The build modelled is the
one `include/general.h` selects: one processor, doubly linked queues, irq8 (the
RTC) for the time, the PIT for the timer, `USE_BLOCK_REF_COUNTER_FREE`, no
`USE_CACHE_BLOCK_MAID`.

| Component | State | Operations | Module |
|---|---|---|---|
| Queues, `include/queue.h` | intrusive doubly linked list | init, detach, head, insert by `BEFORE`, remove | `PrioQueue` |
| Scheduler, `thread.cpp` | `sched_current_thread`, `readyq`, `sleepq`, each thread's links, timeout, verdict, quantum; the PIT | yield, sleep, suspend, wake, start, exit, timer | `Scheduler` |
| Mutex and condition variable, `thread.cpp` | `_locked`, wait queue | lock, unlock, timed lock; wait, timed wait, signal, broadcast, mutexless wait and signal | `Mutex` |
| Reader-writer mutex, `thread.cpp` | a mutex, `_readers`, `_writerq` | read and write lock and unlock | `RwMutex` |
| Disk cache, `disk.cpp` | blocks (sector, refcount, err, dirty, buf, lock), LRU order, `cache_mut` | acquire, release, flush, recycle | `DiskCache`, `BlockStore` |
| Interrupt rings, `rtlib.cpp`, `scheme/interpreted/gambini.scm` | two byte rings; the kernel's two writer offsets; the pump's two reader offsets | `send_gambit_int`; fetch, dispatch, erase | `IntRing`, `FrameFifo` |
| IDE driver, `drivers/ide.cpp` | command queue of one entry with its reference count, the queue of those who wait for it | read, write, flush, the interrupt handler, cutting IDE support | `IdeQueue` |
| FAT, `drivers/filesystem/fat.cpp`, `vfs.cpp` | the table, the directory, each handle's cursor, the list of open chains | open in every mode, create, truncate, read, write, seek, close, remove, rename, restart | `FatFiles` |
| Streams, `drivers/filesystem/stdstream.cpp` | buffer, `high`, `_reset`, `late`; each reader's `_lo` and `_reset` | read, write | `Stream` |
| Heap, `heap.cpp` | chain of blocks with their head words, free list | malloc, free with split, merge, detach, mark | `Heap`, `Allocator` |
| Clock, PS/2, UART, terminal, video, libc bridge, boot, Scheme drivers | | | not modelled |

How they interact. The file system calls the cache, the cache calls the IDE
driver and the locks, the locks call the scheduler. Interrupt handlers run on
the stack of whatever thread they interrupt, with interrupts disabled, and
signal condition variables (IDE), wake sleepers (timer) or put a frame in a ring
(IDE, keyboard, serial port), which the pump, a Scheme thread, reads. Everything
the threads share is protected by disabled interrupts (scheduler, locks), by a
lock (cache) or by nothing (rings, heap).

What is hard: every point at which interrupts are enabled is a possible
preemption; primitives hand locks over to threads that run only later; timeouts
race with wake-ups; the release of a cache block reads a counter outside the
lock that protects it; the ring has two owners that see only its cells.

What makes each component correct:

- scheduler: a thread is in exactly the queues its state says; the ready queue
  never runs empty; due sleepers are woken; ready threads run;
- locks: exclusion, no waiter forgotten, verdicts that are true, no starvation;
- cache: a sector is in one block, a block in use is not recycled, no write is
  lost, releases return;
- rings: frames come out whole, once, in order, and none that has room is lost;
- IDE: a call returns what became of its own transfer; the entry is free exactly
  when its two users are done with it; a command ends and wakes its client;
- heap: the blocks tile it, the free ones are linked once, and clients get
  ranges that overlap nothing;
- FAT: chains end and share no cluster, a handle knows where its entry is, a
  cursor is where its position says;
- streams: every reader reads all that was written, in order, or a write is
  refused because somebody is behind; the code keeps the first promise only to
  readers that do not poll while others are behind.

## The modules

`PrioQueue` gives a queue as a sequence, the head first. `Passed` is the number
of nodes `insert` walks past from the tail. The links of a node that is on no
queue point to itself, so that removing it is harmless (`QRemove`). `Mutex`
uses the removal for its timeouts and `DiskCache` for the LRU list.

`Scheduler` has one action per primitive. The primitives disable interrupts on
entry and keep them disabled to their context switch, so each is atomic, except
those that wake threads one by one (`condvar_broadcast`, the timer) or hand over
a mutex before they suspend: these are sequences, with `mode` telling which one
is in progress. Absolute times become the ticks left before them, which `Tick`
(irq8) counts down; `pit` is the other clock. `SetTimer` reloads it where the
code does. `queue.h:96` spins for ever once an insertion passes a sixth node;
the model then stops (`Running`). The idle thread, which only yields
(`rtlib.cpp:603`), is excepted from everything else by `Suspendable`.

`Mutex` is at the level of what callers see: a primitive up to its suspension
is one action, the part after it another. `holders[m]` is a history variable:
whom `m` was given to. `sleeping` are the threads in the sleep queue, and
`Timeout` may wake each of them at any time. `Sleepers` are the threads that may
pass a timeout in the future; the kernel's own timed calls pass
`seconds_to_time(0)`, `(5)` and `(10)`, which are absolute, so past.

`RwMutex` adds the counters. Waiters stay in the loop of `readlock` or
`writelock` until their test succeeds; an unlock only empties the queue.

`DiskCache` composes the lock of a block (inlined: it is used both as a
reader-writer lock and, by `flush_block`, as a plain mutex), `cache_mut`, and
the code of acquire and release, one action per stretch between two points where
other threads can interfere. Clients are those of `fat.cpp`: acquire, read or
write under the lock, mark dirty before unlocking, release. Sector contents are
two values. Transfers of `BadSectors` may fail. `flush_block` on a block whose
`d` was set to NULL is undefined in C; it is modelled as a transfer that fails.
A thread that finds no recyclable block polls; the model lets it wait for `Miss`
to be enabled. `BlockStore` is the abstract specification: the
contents of a sector change when a client ends a write to it, and at no other
step. `ImplementsStore` states the refinement, with the block's buffer (or else
the disk) as what a sector contains and the clients at `writing` as the writes
in progress.

`IntRing` has both rings. `Send` is atomic, the interrupts being disabled. The
pump's accesses are single actions per cell. `FrameFifo` is the abstract
specification: a ring may refuse a frame, and otherwise is a FIFO; the history
variable `pending` is its queue. The 30 seconds after which the pump looks even
without a signal are abstracted to its looking for ever.

`IdeQueue` has one entry, as `MAX_NB_IDE_CMD_QUEUE_ENTRIES` has it. Interrupts
are disabled in a driver call except where it suspends, so a call is cut where
it suspends: in `ide_cmd_queue_alloc` and at `entry->done`. A signal that wakes
a thread of higher priority switches to it at once, so the handler and a
client's `ide_cmd_queue_free` may be overtaken (`serving`, the first branch of
`EndWrite`); only `Urgent` clients do that, and there are none unless
`GAMBIT_HIGH_PRIO` is defined. `answer` is a history variable: how the
controller ended each client's transfer. The set-up of the task file and the
words of a sector are not modelled.

`Heap` has the addresses and head words as numbers, so that a size that is not a
multiple of 4 would overwrite the bit that says whether the block is in use. The
chain is the sequence of blocks by address; `ff` is the free list, and `lf` the
code's own idea of its end. `Malloc` and `Free` have every call they make in
them. `Allocator` is the abstract specification: ranges that are apart.
With the free list empty, `mark_as_free` writes a link through NULL, to the
memory near address 0, outside the heap: the model goes
on. `kmalloc` takes no lock: the model has one caller at a time.

`FatFiles` has the table, the directory by entries, a `fat_file` per handle and
the open chains with their reference counts. A unit stands for 32 bytes: a
directory entry or a piece of a file. An operation is one action, nested calls
included; `Restart` and `FailInCreate` forget what is only in memory, the latter
between the claim of a cluster and the entry that refers to it. The operations
run one after the other, as the code has no locks of its own there.

`Stream` is one `raw_stream` with its readers, who are there from the start. The
characters of a write go one by one, as in the code. A read is always possible,
as it does not block: one that finds nothing lowers `late` like any other that
comes to the end. `late` wraps at its width, `LateRange`. Three history variables
tell what became of the promise: `refused`; `unseen`, the readers that have not
come to the end since the last character, which is what `late` is to count;
`recounted`, that one of several readers counted for another (it came to the end
twice since the last character while others were still to come, or took `late`
round to 0 with nothing in the buffer).

The `MC*` modules give priorities, quanta, ring sizes and frames their values.

## The runs

| Run | Instance | Shows |
|---|---|---|
| `sched` | 4 threads (idle, main, two workers, one of high priority), 2 wait queues, delays to 1 tick, quanta of 1 | placement, no panic, the timer wakes all that are due, final verdicts, the best thread is resumed, ready threads run unless outranked |
| `mutex` | 4 threads, 1 mutex, 2 condition variables, no future timeouts | exclusion, no starvation |
| `mutex_timed` | 3 threads, 1 mutex, 1 condition variable, future timeouts | no waiter forgotten, true verdicts |
| `rw` | 2 readers, 2 writers, 1 both | exclusion, counters, no lost wake-up, writers first and not starved |
| `cache_shared` | 3 threads, 2 blocks, 2 sectors, 1 bad | counters, sharing, exclusion, clean blocks agree with the disk |
| `cache_single` | 1 client, 2 blocks, 3 sectors | write-back before recycling, refinement of `BlockStore` |
| `cache_lost` | 2 threads, 1 block, 2 sectors | **violated**: free blocks are clean |
| `int_ring` | rings of 10 and 7 cells, 2 IDE frames, keyboard and serial frames with zero parameters | FIFO refinement, no dropped IDE interrupt, dispatch |
| `ide_queue` | 3 clients, 1 urgent, transfers that fail, the cut at any time | entry exact, own result, commands end |
| `heap` | 120 bytes, requests of 4, 9 and 40, splits from 24 | tiling and links, refinement of `Allocator` |
| `fat` | 4 clusters of 2 units, files to 3 units, 2 names, 2 handles | no cross-links, entries located, cursors true |
| `stream` | 0 to 2 readers, 3 cells, `late` of 2 bits, 5 characters | nothing lost or repeated until one counts for another, refusals justified |

Bounds. Two workers and two wait queues are enough for a broadcast that wakes
several, a hand-off while another waits and a timed wait that is on two queues
at once; delay 1 with zero delays gives ties and order in the sleep queue; one
high-priority thread gives an insertion that passes others. Four threads on a
mutex give a queue of three, so a hand-off in the middle. Two readers with two
writers and one that is both give a writer that is woken in vain. Two blocks and
three sectors force recycling, of clean and of written blocks; three threads are
needed for one to wait for a block that two others change. The flow-controlled
ring has its real length; the other one is shortened so that it fills up and
wraps in a few frames. Three clients of the IDE queue are one that executes, one that waits and one
that takes the entry between the wake-up of the second and its retry. 120 bytes
hold a block that is split, one that is too small to be split, and neighbours
of both kinds on both sides; a request is below the least size, one is not a
multiple of 4. Four clusters are the directory's and three more: a file of two
and another file, or a directory of two and two files. Three cells make a stream
start again after two characters, twice within `MaxWritten`, and two bits of
`late` let the one reader take it below 0 and back.

The bounds named in the models are `MaxDelay` (delays), `ScanLimit` (the code's
own), `MaxLength` (of a file) and `MaxWritten` (characters).

Deadlock is not checked where the system may really stop: in the cache when a
lock is lost, in the IDE queue once support is cut, in a heap that is full with
nothing that may be freed, and in a stream without readers whose characters are
used up.

## Fairness

Stated in `Fairness` of each module. In `Scheduler`: clocks keep running and
the PIC latches their requests, so they are served although interrupts are
disabled again and again (strong fairness); loops in progress end (weak). Threads
themselves are under no fairness: `ReadyRuns` is what the scheduler gives them,
and it justifies the weak fairness of threads in the other modules, for equal
priorities, which the build gives all threads. In `Mutex`, that a critical
section ends is an assumption on clients (strong, as their holder may be
preempted), and that somebody signals is one on devices. In `RwMutex`, that a
thread inside leaves. In `DiskCache`, `cache_mut` is queued on and handed on in
turn (strong); nobody is required to acquire. In `IntRing`, only the pump. In `IdeQueue`,
that a ready client runs, that the interrupted handler runs again (both from
`ReadyRuns`, provided urgent clients do not compute for ever) and that the
controller answers (weak). `Heap`, `FatFiles` and `Stream` state no liveness:
nothing in them waits.

## Where the code departs from its own words

`cache_lost` is a run: two releases at once both find that they are not the
last, and leave a dirty block that can be recycled (`disk.cpp:296`).

The others were met while modelling. The models have them as the code does,
where they model that code; the last paragraph of this section says which ones no
run explores.

- `thread.cpp:524`: a context switch reloads the timer, and the timer wakes
  sleepers; threads that keep yielding keep sleepers asleep.
- `thread.cpp:159`: a timed lock that gives up clears `_locked`, whoever has the
  mutex. This is why `Exclusion` has a proviso.
- `thread.cpp:190`: `condvar_wait` queues on the mutex, never on its condition
  variable.
- `disk.cpp:285`: `flush_block` unlocks a reader-writer lock as a plain mutex: a
  waiter of the queue is woken with `_locked` set for it, tests it and waits
  for ever.
- `heap.cpp:268`: a block freed when only its left neighbour is free is not
  merged into it, and stays in use for ever; `heap.cpp:181`: a block freed
  when the free list is empty is linked through NULL, and `lf` is never set.
- `fat.cpp:2011`: the loop that unlinks a chain clears the first link and then
  reads it again, so the rest of the chain is not freed.
- `fat.cpp:1020`: a write adds what it wrote to the length, over old contents
  too; a read from a position past the length takes what is left as a huge
  unsigned number.
- `fat.cpp:943`: the last cluster is linked to the new one before the new one is
  claimed; a power failure between the two leaves a link to a free cluster.
- `fat.cpp:2165`: opening for reading a file that is not there uses a NULL
  handle.
- A rename while the file is open, or to a name that is taken, leaves handles
  with the place of an entry that is no longer theirs; `RenameFreely = TRUE`
  makes `LocatesEntry` and then `NoCrossLink` fail.
- `stdstream.cpp:222`: a reader that finds nothing counts once more as having
  caught up. With two readers, one that reads a character and polls takes `late`
  to 0, and the buffer starts again before the other has read it, although it
  "would wait until every read had caught up" (`stdstream.cpp:149`). `Delivered`
  without its proviso fails so in three steps. `_reset` has one bit: a reader that
  misses two restarts sees none, and finds nothing or old characters. After a
  refused write, too, the end moves back without the readers' being told.
- `stdstream.cpp:100` and `117`: opening and closing a stream do not adjust `late`.
- IDE: the error of a flush goes nowhere; a client that is woken for the entry
  may find it taken, again and again; once support is cut, the command in
  progress is never answered.

Not in what the runs explore: the power failure at `fat.cpp:943`, and those
inside a removal, a rename or any operation but a creation; the NULL handle of
`fat.cpp:2165`; renames of open files and to names that are taken; readers of a
stream that come or leave.

## What is proved

With TLAPS, for any sets of threads, queues, locks, blocks and sectors, any rings
and frames, any heap and requests, any volume, names and handles, any stream and
readers, and only from the named assumptions of the
modules, which TLC evaluates on every run:
`ThreadsAssumption` of `Scheduler` (the idle thread and the primordial one are
two threads, the second of no lower priority than the first, and quanta are at
least a tick), `SectorsAssumption` of
`DiskCache` (finitely many threads and blocks, a block and a sector at least),
`ClientsAssumption` of `IdeQueue` and of `RwMutex` (finitely many clients), `RingsAssumption` of
`IntRing` (a frame is a code, which is not 0, the number of its parameters and
the parameters, and fits into its ring), `HeapAssumption` of `Heap` (`MIN_SPLIT_DELTA`, 512 in the
code, is at least a header and what rounding adds), `FatAssumption` of `FatFiles`
(a cluster besides that of the directory, clusters of one unit at least, finitely
many handles, and no file with the name of the marks `end`, `unused` and `other`),
`StreamAssumption` of `Stream` (two cells at least, and finitely many readers,
fewer than `LateRange`).

- `PrioQueueProofs`: what insertion and removal do to a queue: the elements they
  leave, no duplicates, types, and that both keep a queue in its order
  (`InsertOrdered`, `RemoveOrdered`). Sequences are not taken by induction; the
  facts follow from the definitions of `InsertAt` and `RemoveAt`.
- `SchedulerProofs`: `TypeCorrect`, `NoThreadLost`, `NeverPanics`. The inductive
  invariant is `TypeOK /\ Placement /\ NoDeadlockPanic /\ IdleLives`. The parts
  need each other: a step keeps the threads placed only if the running thread is
  in the ready queue (it is the one that `Wait` and `Sleep` move), and it stays
  there because the next one is the head of a queue that holds the idle thread,
  which is live and never suspends. One lemma per action. With `InOrder` (the
  ready queue by priority, the sleep queue by the time left) follow the action
  properties: `BestRuns`, as whoever is resumed is the head of the ready queue,
  and `AllWoken`, as the timer looks only at the head of the sleep queue. The
  order of the sleep queue holds because the two steps that set a timeout are
  those of a thread that does not sleep. `VerdictSettled` needs only the first
  invariant. A thread's priority is a constant here; the code sets it before the
  thread starts, or, with `GAMBIT_HIGH_PRIO`, raises to the highest that of the
  running thread, before which only threads that outrank it can be in the ready
  queue.
- `MutexProofs`: `Exclusion`, when no timeout lies in the future (`Sleepers = {}`,
  an assumption of the theorem; see `thread.cpp:159` above). The invariant
  adds that `_locked` tells whether there is a holder, and that queued threads
  have one. What is left with any timeouts, without that assumption:
  `TypeCorrect`, `NobodyForgotten`, `AnswersTrue`. Exclusion and "a holder means
  locked" are lost, but "locked means somebody holds it" is not
  (`LockedIsHeld`), and that is what a queued thread depends on. The rest of the
  invariant ties the queues to the calls: who is queued on a mutex is inside a
  call that asks for it, once, and does not hold it (`QueuedWaits`); who waits on
  a condition variable has given its mutex up (`CondWaits`); who sleeps is still
  queued (`AsleepWaits`), so a timeout never changes the verdict of a thread that
  was handed the mutex before.
- `MutexProofs`, of `RwMutex`: `WritersExclude`, `CountersCount`, `LockedTrue`,
  `NoWakeUpLost`, `WritersFirst`. The code tests counters, so the invariant says
  what they count; cardinalities change by one as a thread changes label. The
  lost wake-up needs it too: a thread suspends only when a counter says that
  somebody is inside, and who leaves wakes all.
- `DiskCacheProofs`: `TypeCorrect`, `ReferencesCounted`, `SectorIsOwn`,
  `LockExcludes`, `CleanIsWritten`, for any threads, blocks and sectors, any of which fail. A
  block is recycled only when its reference count is 0, and the count is the
  number of threads whose label says that they refer to it; so no client's block
  changes its sector. While a block is loaded the others that refer to it have
  only just found it (`Loaders`): they wait for its lock, which is the loader's
  until it is done, and then look at its error. `Locks` says whose the lock is,
  by label: no reader is inside beside one who loads or writes. A clean block
  agrees with the disk because a writer marks it before it unlocks, and because
  the write-back excludes writers until the mark is cleared.
  `FreeBlocksClean` and `CacheIsStore`, the refinement of `BlockStore`, are for
  one client whose transfers succeed (`OneClient`, an assumption of the
  theorems). `cache_lost` shows that two clients are too many,
  and a write-back that fails loses its contents whoever is there
  (`disk.cpp:278`). The invariant adds that a dirty block is that of the client
  until the client has written it back (`Unwritten`), that it waits for no lock
  (`Unlocked`), and that its block is still that of the sector it asked for
  (`Sound`). Every step of the cache then either leaves the visible contents
  alone, recycling and write-back included, or is the beginning or the end of a
  write of the store.
- `IdeQueueProofs`: `TypeCorrect`, `ResultIsOwn`, `EntryIsExact`, for any finite
  set of clients, any of them urgent. The invariant follows the entry through
  its use: free (`Unused`); with the controller (`Executing`); ended, its client
  and possibly the handler still to free it (`Ended`); left to the handler
  (`Left`). From the phase follow the reference count and whether the list has
  the entry; `Results` says that the error in an ended entry is that of the
  client that has it, `Waiters` that with the entry free somebody awake is about
  to look at it, and needs that nobody is queued twice: else the thread that a
  signal wakes could still be queued.
- `IntRingProofs`: `TypeCorrect`, `FramesInOrder` (the refinement of
  `FrameFifo`), `IdeInterruptsTaken`. The two sides of a ring share nothing but
  its cells, so the invariant says what is in every cell (`Laid`): from some
  offset on, what is left to erase of the frame in hand, then the frames of
  `pending` one after the other, and zeros in all others. The reader's and the
  writer's offsets are the two ends of this stretch, modulo the size; the cell
  at the writer's offset is 0, so the pump never takes a cell of an old frame
  for a code, and the cells the kernel looks at before it sends are 0 only if
  they are in nobody's frame. `Outstanding` says that an interrupt not yet
  acknowledged has its frame in `pending` or in hand, once. From this,
  `IdeInterruptsTaken`: the controlled ring refuses no frame if it has room for
  all its frames, of at most `L` cells, and one more (`RoomForAll`, an assumption
  of the theorem): what is in it is one frame of each controller at most and the
  one being erased. The kernel's ring has 10 cells for two frames of 3.
- `HeapProofs`: `Tiles` and `HeapImplementsAllocator` (the refinement of
  `Allocator`), for heaps of any size and any requests. `Tiled` is the inductive
  form of the tiling: each block ends where the next begins, hence before all
  that follow (`SplitTiled`, `JoinTiled`, `AppendTiled` for the three changes of
  the chain). `Shape` adds the free list, whose nodes are the unused blocks, once
  each, whatever `heap->lf` is, if it is NULL or right; and `Owned` that each
  client has a block of its own, in use and large enough. Arithmetic enters
  where a head word is at once a size and a bit: sizes are even, because `split`
  and `heap_sbrk` round to words, so the sum that `merge` makes of a free and a
  used block is odd and clearing its bit leaves the sum of the sizes; and
  `MIN_SPLIT_DELTA` leaves `split` a remainder that is a block. Nothing in it
  depends on which blocks are merged, so the block that is freed beside a free
  left neighbour and stays in use (`heap.cpp:268`) is lost, but never lent twice.
- `FileProofs`, of `Stream`: `RefusedForReader`, however readers poll: `late`
  is never more than the readers that have not come to the end since the last
  character, and with something in the buffer and somebody to read it it is not 0
  (`LateRunsAhead`); each read that comes to the end lowers the first by one, the
  second by one at most. `EverybodyReadsAll`, until a write is refused or one of
  several readers counts for another (`Orderly`): what a reader has read is a
  beginning of what was written, and the rest is in the buffer from the reader's
  position on; the position is 0 for a reader that has not yet seen the last
  restart. With something in the buffer `late` is then exactly the number of
  those behind, so the one that takes it to 0 is the last one, and starting again
  loses nothing. Polls of an empty buffer take `late` below 0; the first write
  sets it anew. A reader that is alone never counts for another.
- `FileProofs`, of `FatFiles`: `FatTypes`, `FilesApart`, `EntriesLocated`,
  `CursorsStay`. That no cluster is in two chains cannot be kept by itself: a
  chain is what one reaches from its first cluster, and every step that links,
  claims or clears a cluster would ask again what is reached. The invariant says
  instead, cluster by cluster, that there are an owner and a rank for each:
  the links stay within one owner, lead to taken clusters, never back to the
  first one, and down in rank. Chains end because ranks fall (`ChainEnds`, by
  counting clusters), and are apart because the entries' first clusters own
  themselves. A claim takes a cluster that is free, so it may be given any owner;
  a file grows at the end of its chain, where nothing hangs; what `unlink` leaves
  behind, for it frees only part of a chain (`fat.cpp:2011`), belongs to nobody.
  A cursor is at the cluster its position says, or is marked as astray, since a
  handle that truncates knows nothing of the others. The directory has as many
  entries as its clusters hold, and the references of an open chain are counted
  (`Counted`), so a file is removed from the volume only when nobody has it open,
  and no handle is left with an entry that is not its own.
  The four are for volumes on which no open file is renamed and no name is taken
  by a rename (`~RenameFreely`, an assumption of the theorems): the code does not
  test that, and without it `LocatesEntry` and `NoCrossLink` are false, as said
  above.

Only model-checked: liveness (`ReadyRuns`, `WaiterGetsMutex`, `WriterEnters`,
`FramesDispatched`, `CommandEnds`), which is out of the prover's reach, as is
`ENABLED`. Every other property of a passing run is stated by a theorem.

## Not modelled

The components listed as not modelled in `PROJECT.json`, with reasons; in
those modelled: `thread_join`, whose mutex and condition variable are never
initialised (`thread.cpp:337`), so that it has no defined behaviour to model;
the cleaning thread of the cache, which is not built; the partition tables; the
detection and set-up of IDE devices; mounting, sub-directories, long names and
dates of FAT volumes; readers of a stream that come or leave,
and those that block (a panic in the code); concurrent callers of
`kmalloc`, for which the code has no protection that could be right; the
registers and stacks of a context switch; the wording and the place of output.

## Plan

Done: the modules above, and the proofs of their safety properties. What could
follow, in this order:

1. Sub-directories in `FatFiles`: the same chains, with an entry's parent.
2. The contents of files in `FatFiles`, for which a lent cluster would be
   a block of `DiskCache`.
3. Blocking readers of `Stream`, were the panic replaced by a wait on `readycv`.
