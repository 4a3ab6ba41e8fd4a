-------------------------------- MODULE Mutex --------------------------------
(***************************************************************************)
(* Mutexes and condition variables: src/thread.cpp.                        *)
(*                                                                         *)
(* Each primitive runs with interrupts disabled up to the point where it   *)
(* returns or suspends its caller, so it is one action, and what it does   *)
(* after it is resumed is another.  Which of the runnable threads acts     *)
(* next is left open: the timer may preempt any of them at any point       *)
(* where interrupts are enabled (module Scheduler).  Threads have equal    *)
(* priorities, as in the build, so a wait queue is first in, first out.    *)
(*                                                                         *)
(* Clients follow the discipline of the kernel's own: a thread locks a     *)
(* mutex it does not hold, and unlocks or waits with one it holds.         *)
(***************************************************************************)
EXTENDS Integers, SequencesExt, PrioQueue

CONSTANTS Threads, Mutexes, Condvars,
          Sleepers  \* threads that may pass a timeout which is in the future

VARIABLES
  locked,    \* locked[m]: m->_locked
  mq,        \* mq[m]: the wait queue of the mutex m
  cq,        \* cq[c]: the wait queue of the condition variable c
  sleeping,  \* the threads in the scheduler's sleep queue
  verdict,   \* verdict[t]: t->_did_not_timeout
  doing,     \* doing[t]: the primitive t is in, and for which mutex
  holders    \* holders[m]: the threads that m was given to and did not release

vars == <<locked, mq, cq, sleeping, verdict, doing, holders>>

Nothing   == [op |-> "nothing"]
In(op, m) == [op |-> op, on |-> m]

\* The primitives in which a thread can be suspended.
Ops == {"lock", "lock_or_timeout", "wait", "wait_or_timeout"}

Suspended(t) == \/ \E m \in Mutexes : t \in ToSet(mq[m])
                \/ \E c \in Condvars : t \in ToSet(cq[c])

Free(t)   == doing[t] = Nothing /\ ~Suspended(t)
Woken(t, op) == doing[t].op = op /\ ~Suspended(t)

\* wait_queue_init; the mutant leaves the queue as kmalloc returned it, which
\* is what new_thread does to _m and _joiners.
GarbageQueue == <<Nothing>>
EmptyQueue   == <<>>

Init ==
  /\ locked = [m \in Mutexes |-> FALSE]
  /\ mq = [m \in Mutexes |-> EmptyQueue]
  /\ cq = [c \in Condvars |-> EmptyQueue]
  /\ sleeping = {}
  /\ verdict = [t \in Threads |-> TRUE]
  /\ doing = [t \in Threads |-> Nothing]
  /\ holders = [m \in Mutexes |-> {}]

-----------------------------------------------------------------------------
(* Mutexes.                                                                *)

\* Mutant: _locked is not tested.
AcquireUntested(t, m) ==
  /\ locked' = [locked EXCEPT ![m] = TRUE]
  /\ holders' = [holders EXCEPT ![m] = @ \cup {t}]

\* A mutex that is free is taken at once.
Acquire(t, m) ==
  /\ ~locked[m]
  /\ locked' = [locked EXCEPT ![m] = TRUE]
  /\ holders' = [holders EXCEPT ![m] = @ \cup {t}]

\* mutex_lock; a waiter is given the mutex by the thread that wakes it.
Lock(t, m) ==
  /\ Free(t) /\ t \notin holders[m]
  /\ \/ Acquire(t, m) /\ UNCHANGED <<mq, doing>>
     \/ /\ locked[m]
        /\ mq' = [mq EXCEPT ![m] = Append(@, t)]
        /\ doing' = [doing EXCEPT ![t] = In("lock", m)]
        /\ UNCHANGED <<locked, holders>>
  /\ UNCHANGED <<cq, sleeping, verdict>>

\* Mutant: nobody is woken.
GiveUpSilently(t, m) ==
  /\ locked' = [locked EXCEPT ![m] = FALSE]
  /\ holders' = [holders EXCEPT ![m] = @ \ {t}]
  /\ UNCHANGED <<mq, sleeping, doing>>

\* t gives m up: the head of the queue gets it, _locked staying TRUE; it has
\* nothing left to do unless it is in mutex_lock_or_timeout.
GiveUp(t, m) ==
  IF mq[m] = <<>>
  THEN /\ locked' = [locked EXCEPT ![m] = FALSE]
       /\ holders' = [holders EXCEPT ![m] = @ \ {t}]
       /\ UNCHANGED <<mq, sleeping, doing>>
  ELSE LET w == Head(mq[m])
       IN  /\ mq' = [mq EXCEPT ![m] = Tail(@)]
           /\ sleeping' = sleeping \ {w}
           /\ holders' = [holders EXCEPT ![m] = (@ \ {t}) \cup {w}]
           /\ doing' = [doing EXCEPT ![w] = IF @.op = "lock_or_timeout"
                                            THEN @ ELSE Nothing]
           /\ UNCHANGED locked

\* mutex_unlock
Unlock(t, m) ==
  /\ Free(t) /\ t \in holders[m]
  /\ GiveUp(t, m)
  /\ UNCHANGED <<cq, verdict>>

\* Mutant: the verdict of an earlier wait is left in _did_not_timeout.
SleepOnStale(t, m) ==
  /\ t \in Sleepers
  /\ locked[m]
  /\ mq' = [mq EXCEPT ![m] = Append(@, t)]
  /\ sleeping' = sleeping \cup {t}
  /\ doing' = [doing EXCEPT ![t] = In("lock_or_timeout", m)]
  /\ UNCHANGED <<locked, cq, verdict, holders>>

\* mutex_lock_or_timeout up to its suspension.  With the mutex locked and the
\* timeout past, it returns FALSE and nothing changes.
SleepOn(t, m) ==
  /\ t \in Sleepers
  /\ locked[m]
  /\ mq' = [mq EXCEPT ![m] = Append(@, t)]
  /\ sleeping' = sleeping \cup {t}
  /\ verdict' = [verdict EXCEPT ![t] = TRUE]
  /\ doing' = [doing EXCEPT ![t] = In("lock_or_timeout", m)]
  /\ UNCHANGED <<locked, cq, holders>>

LockOrTimeout(t, m) ==
  /\ Free(t) /\ t \notin holders[m]
  /\ \/ Acquire(t, m) /\ UNCHANGED <<mq, cq, sleeping, verdict, doing>>
     \/ SleepOn(t, m)

\* What it does once it runs again: self->_locked = current->_did_not_timeout.
LockOrTimeoutEnd(t) ==
  /\ Woken(t, "lock_or_timeout")
  /\ locked' = [locked EXCEPT ![doing[t].on] = verdict[t]]
  /\ doing' = [doing EXCEPT ![t] = Nothing]
  /\ UNCHANGED <<mq, cq, sleeping, verdict, holders>>

\* The timer wakes a sleeper whose timeout has passed.
Timeout(t) ==
  /\ t \in sleeping
  /\ sleeping' = sleeping \ {t}
  /\ verdict' = [verdict EXCEPT ![t] = FALSE]
  /\ mq' = [m \in Mutexes |-> QRemove(t, mq[m])]
  /\ cq' = [c \in Condvars |-> QRemove(t, cq[c])]
  /\ UNCHANGED <<locked, doing, holders>>

-----------------------------------------------------------------------------
(* Condition variables.                                                    *)

\* condvar_wait gives the mutex up and at once asks for it again: it queues
\* on the mutex if it gave it to a waiter, and never on the condvar c.
Wait(t, c, m) ==
  /\ Free(t) /\ t \in holders[m]
  /\ mq[m] # <<>>
  /\ LET w == Head(mq[m])
     IN  /\ mq' = [mq EXCEPT ![m] = Append(Tail(@), t)]
         /\ sleeping' = sleeping \ {w}
         /\ holders' = [holders EXCEPT ![m] = (@ \ {t}) \cup {w}]
         /\ doing' = [doing EXCEPT ![t] = In("wait", m),
                                   ![w] = IF @.op = "lock_or_timeout"
                                          THEN @ ELSE Nothing]
  /\ locked' = [locked EXCEPT ![m] = TRUE]
  /\ UNCHANGED <<cq, verdict>>

\* condvar_wait_or_timeout: it has given the mutex up when it finds the
\* timeout past, and returns FALSE without it.
WaitOrTimeout(t, c, m) ==
  /\ Free(t) /\ t \in holders[m]
  /\ \/ /\ GiveUp(t, m)
        /\ UNCHANGED <<cq, verdict>>
     \/ /\ t \in Sleepers
        /\ cq' = [cq EXCEPT ![c] = Append(@, t)]
        /\ verdict' = [verdict EXCEPT ![t] = TRUE]
        /\ IF mq[m] = <<>>
           THEN /\ locked' = [locked EXCEPT ![m] = FALSE]
                /\ holders' = [holders EXCEPT ![m] = @ \ {t}]
                /\ sleeping' = sleeping \cup {t}
                /\ doing' = [doing EXCEPT ![t] = In("wait_or_timeout", m)]
                /\ UNCHANGED mq
           ELSE LET w == Head(mq[m])
                IN  /\ mq' = [mq EXCEPT ![m] = Tail(@)]
                    /\ holders' = [holders EXCEPT ![m] = (@ \ {t}) \cup {w}]
                    /\ sleeping' = (sleeping \ {w}) \cup {t}
                    /\ doing' = [doing EXCEPT ![t] = In("wait_or_timeout", m),
                                              ![w] = IF @.op = "lock_or_timeout"
                                                     THEN @ ELSE Nothing]
                    /\ UNCHANGED locked

\* Once woken: FALSE after a timeout, else mutex_lock_or_timeout with the same
\* timeout, which may have passed by then.
WaitOrTimeoutEnd(t) ==
  /\ Woken(t, "wait_or_timeout")
  /\ LET m == doing[t].on
     IN  \/ /\ ~verdict[t] \/ locked[m]
            /\ doing' = [doing EXCEPT ![t] = Nothing]
            /\ UNCHANGED <<locked, mq, cq, sleeping, verdict, holders>>
         \/ /\ verdict[t]
            /\ Acquire(t, m)
            /\ doing' = [doing EXCEPT ![t] = Nothing]
            /\ UNCHANGED <<mq, cq, sleeping, verdict>>
         \/ /\ verdict[t]
            /\ SleepOn(t, m)

\* condvar_mutexless_wait
MutexlessWait(t, c) ==
  /\ Free(t)
  /\ cq' = [cq EXCEPT ![c] = Append(@, t)]
  /\ UNCHANGED <<locked, mq, sleeping, verdict, doing, holders>>

\* condvar_signal and condvar_mutexless_signal, by a thread or by an
\* interrupt handler.
Signal(c) ==
  /\ cq[c] # <<>>
  /\ cq' = [cq EXCEPT ![c] = Tail(@)]
  /\ sleeping' = sleeping \ {Head(cq[c])}
  /\ UNCHANGED <<locked, mq, verdict, doing, holders>>

\* condvar_broadcast
Broadcast(c) ==
  /\ cq[c] # <<>>
  /\ cq' = [cq EXCEPT ![c] = <<>>]
  /\ sleeping' = sleeping \ ToSet(cq[c])
  /\ UNCHANGED <<locked, mq, verdict, doing, holders>>

-----------------------------------------------------------------------------

Next ==
  \/ \E t \in Threads, m \in Mutexes :
       Lock(t, m) \/ Unlock(t, m) \/ LockOrTimeout(t, m)
  \/ \E t \in Threads : LockOrTimeoutEnd(t) \/ Timeout(t) \/ WaitOrTimeoutEnd(t)
  \/ \E t \in Threads, m \in Mutexes, c \in Condvars :
       Wait(t, c, m) \/ WaitOrTimeout(t, c, m)
  \/ \E t \in Threads, c \in Condvars : MutexlessWait(t, c)
  \/ \E c \in Condvars : Signal(c) \/ Broadcast(c)

Spec == Init /\ [][Next]_vars

\* A runnable thread runs (ReadyRuns of module Scheduler) and its critical
\* sections end; a device that is waited for signals.
Fairness ==
  /\ \A t \in Threads, m \in Mutexes : SF_vars(Unlock(t, m))
  /\ \A c \in Condvars : WF_vars(Signal(c))

FairSpec == Spec /\ Fairness

-----------------------------------------------------------------------------
(* Properties.                                                             *)

\* The variables have their types.
TypeOK ==
  /\ locked \in [Mutexes -> BOOLEAN]
  /\ mq \in [Mutexes -> Seq(Threads)]
  /\ cq \in [Condvars -> Seq(Threads)]
  /\ sleeping \in SUBSET Threads
  /\ verdict \in [Threads -> BOOLEAN]
  /\ doing \in [Threads -> [op : Ops, on : Mutexes] \cup {Nothing}]
  /\ holders \in [Mutexes -> SUBSET Threads]

\* A mutex is never given to two threads, across hand-offs to waiters.
MutualExclusion == \A m \in Mutexes : \A t, u \in holders[m] : t = u

\* _locked says whether somebody has the mutex, the moments of a hand-off
\* included.
LockedWhenHeld == \A m \in Mutexes : locked[m] <=> holders[m] # {}

\* No waiter is forgotten: somebody has the mutex it waits for and will wake
\* it, even where timed locks have broken mutual exclusion.
WaitersHaveHolder == \A m \in Mutexes : mq[m] # <<>> => holders[m] # {}

\* What mutex_lock_or_timeout is about to return is right: a thread whose
\* timeout raced with an unlock got the mutex exactly if it returns TRUE.
VerdictIsTrue ==
  \A t \in Threads :
    Woken(t, "lock_or_timeout") => (verdict[t] <=> t \in holders[doing[t].on])

\* No starvation: a thread queued on a mutex gets it.
WaiterGetsMutex ==
  \A t \in Threads, m \in Mutexes : t \in ToSet(mq[m]) ~> t \in holders[m]

=============================================================================
