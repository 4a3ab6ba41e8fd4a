------------------------------- MODULE RwMutex -------------------------------
(***************************************************************************)
(* The reader-writer mutex of src/thread.cpp: a mutex with a count of      *)
(* readers and a count of waiting writers.  Readers and writers wait on    *)
(* one queue; an unlock wakes all of it, and each thread woken tests again *)
(* whether it may enter when it runs.                                      *)
(*                                                                         *)
(* disk.cpp also takes the lock of a cache block with the plain mutex      *)
(* operations, which do not look at the readers: see module DiskCache.     *)
(*                                                                         *)
(* Names that module Mutex has too carry Rw or are another word: one       *)
(* module proves theorems about both.                                      *)
(***************************************************************************)
EXTENDS Integers, FiniteSets, SequencesExt

CONSTANTS Readers,   \* threads that read-lock
          Writers    \* threads that write-lock

Clients == Readers \cup Writers

ASSUME ClientsAssumption == IsFiniteSet(Clients)

VARIABLES
  rwLocked,  \* super._locked
  readers,   \* _readers
  writerq,   \* _writerq
  queue,     \* the wait queue
  pc         \* pc[t]: what t is doing with the lock

rwVars == <<rwLocked, readers, writerq, queue, pc>>

RwInit ==
  /\ rwLocked = FALSE
  /\ readers = 0
  /\ writerq = 0
  /\ queue = <<>>
  /\ pc = [t \in Clients |-> "out"]

\* In "rwait" and "wwait" a thread is in the waiting loop of readlock or
\* writelock: suspended while it is on the queue, about to test when woken.
InQueue(t) == t \in ToSet(queue)

ThreadsAt(S) == {t \in Clients : pc[t] \in S}

Goto(t, label) == pc' = [pc EXCEPT ![t] = label]

-----------------------------------------------------------------------------

\* What makes a reader wait and what makes a writer wait; mutants that forget
\* the waiting writers, and the readers.
ReadBlockedByWriter == rwLocked
WriteBlockedByWriter == rwLocked

ReadBlocked  == rwLocked \/ writerq > 0
WriteBlocked == rwLocked \/ readers > 0

\* Mutant: nobody is woken.
WakeNone == UNCHANGED queue

\* Both rwmutex unlocks wake every waiter.
WakeAll   == queue' = <<>>
GiveBack  == rwLocked' = FALSE

\* The loop of rwmutex_readlock, entered or tested again.
ReadTest(t) ==
  IF ReadBlocked
  THEN /\ queue' = Append(queue, t)
       /\ Goto(t, "rwait")
       /\ UNCHANGED <<rwLocked, readers, writerq>>
  ELSE /\ readers' = readers + 1
       /\ Goto(t, "reading")
       /\ UNCHANGED <<rwLocked, writerq, queue>>

ReadLock(t)  == pc[t] = "out" /\ ReadTest(t)
ReadRetry(t) == pc[t] = "rwait" /\ ~InQueue(t) /\ ReadTest(t)

\* rwmutex_writelock: a writer that has to wait is counted in _writerq until
\* it has the lock.
WriteLock(t) ==
  /\ pc[t] = "out"
  /\ IF WriteBlocked
     THEN /\ writerq' = writerq + 1
          /\ queue' = Append(queue, t)
          /\ Goto(t, "wwait")
          /\ UNCHANGED <<rwLocked, readers>>
     ELSE /\ rwLocked' = TRUE
          /\ Goto(t, "writing")
          /\ UNCHANGED <<readers, writerq, queue>>

\* Mutant: every retry counts the writer out.
WriteRetryForgets(t) ==
  /\ pc[t] = "wwait" /\ ~InQueue(t)
  /\ writerq' = writerq - 1
  /\ IF WriteBlocked
     THEN queue' = Append(queue, t) /\ UNCHANGED <<rwLocked, readers, pc>>
     ELSE rwLocked' = TRUE /\ Goto(t, "writing") /\ UNCHANGED <<readers, queue>>

WriteRetry(t) ==
  /\ pc[t] = "wwait" /\ ~InQueue(t)
  /\ IF WriteBlocked
     THEN /\ queue' = Append(queue, t)
          /\ UNCHANGED <<rwLocked, readers, writerq, pc>>
     ELSE /\ writerq' = writerq - 1
          /\ rwLocked' = TRUE
          /\ Goto(t, "writing")
          /\ UNCHANGED <<readers, queue>>

\* rwmutex_readunlock and rwmutex_writeunlock.
ReadUnlock(t) ==
  /\ pc[t] = "reading"
  /\ readers' = readers - 1
  /\ WakeAll
  /\ Goto(t, "out")
  /\ UNCHANGED <<rwLocked, writerq>>

WriteUnlock(t) ==
  /\ pc[t] = "writing"
  /\ GiveBack
  /\ WakeAll
  /\ Goto(t, "out")
  /\ UNCHANGED <<readers, writerq>>

-----------------------------------------------------------------------------

RwNext ==
  \/ \E t \in Readers : ReadLock(t) \/ ReadRetry(t) \/ ReadUnlock(t)
  \/ \E t \in Writers : WriteLock(t) \/ WriteRetry(t) \/ WriteUnlock(t)

RwSpec == RwInit /\ [][RwNext]_rwVars

\* A runnable thread runs (ReadyRuns of module Scheduler), and a thread that
\* has the lock gives it back; nobody has to ask for it.
RwFairness ==
  /\ \A t \in Readers : WF_rwVars(ReadRetry(t)) /\ WF_rwVars(ReadUnlock(t))
  /\ \A t \in Writers : WF_rwVars(WriteRetry(t)) /\ WF_rwVars(WriteUnlock(t))

RwFairSpec == RwSpec /\ RwFairness

-----------------------------------------------------------------------------
(* Properties.                                                             *)

\* The variables have their types.
RwTypeOK ==
  /\ rwLocked \in BOOLEAN
  /\ readers \in Nat
  /\ writerq \in Nat
  /\ queue \in Seq(Clients)
  /\ pc \in [Clients -> {"out", "rwait", "reading", "wwait", "writing"}]

\* A writer is alone in the lock.
WriterAlone ==
  \A t, u \in Clients :
    pc[t] = "writing" /\ pc[u] \in {"reading", "writing"} => t = u

\* The counters the tests are made on count what they say: a writer that is
\* woken in vain and waits again is not counted twice.
CountersExact ==
  /\ readers = Cardinality(ThreadsAt({"reading"}))
  /\ writerq = Cardinality(ThreadsAt({"wwait"}))

\* _locked is set exactly while a writer has the lock.
LockedWhileWriting == rwLocked <=> ThreadsAt({"writing"}) # {}

\* No wake-up is lost: a suspended thread waits for one that has the lock, or
\* for a writer that was woken and is about to take it.
SuspendedForCause ==
  queue # <<>> => \/ rwLocked \/ readers > 0
                  \/ \E w \in Clients : pc[w] = "wwait" /\ ~InQueue(w)

\* No reader enters while a writer is waiting.
WriterPreference ==
  [][\A t \in Clients :
       pc[t] # "reading" /\ pc'[t] = "reading" => ThreadsAt({"wwait"}) = {}]_rwVars

\* A stream of readers does not starve the writers.
WriterEnters == ThreadsAt({"wwait"}) # {} ~> ThreadsAt({"writing"}) # {}

=============================================================================
