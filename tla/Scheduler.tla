------------------------------ MODULE Scheduler ------------------------------
(***************************************************************************)
(* The kernel's thread scheduler, src/thread.cpp, on the uniprocessor the  *)
(* kernel runs on.                                                         *)
(*                                                                         *)
(* Every primitive runs with interrupts disabled from its first line to    *)
(* the context switch or return that ends it, so a primitive is one action *)
(* unless it wakes threads and then goes on: condvar_broadcast, the loop   *)
(* of the timer, and the waits that first hand a mutex over.  Those are    *)
(* sequences of steps during which "mode" is not "run": nothing else may   *)
(* happen until they end.                                                  *)
(*                                                                         *)
(* Time.  The code keeps absolute times (_timeout, _end_of_quantum) and    *)
(* compares them with the count of clock interrupts (irq8).  The model     *)
(* keeps what is left of them, which Tick counts down to 0: "left <= 0"    *)
(* is the code's "!less_time(now, t->_timeout)".  "pit" is the count in    *)
(* the PIT, a second clock that the scheduler reloads at each switch.      *)
(***************************************************************************)
EXTENDS PrioQueue

CONSTANTS Threads,     \* thread control blocks, the two permanent ones included
          Idle,        \* rtlib.cpp's idle thread, which only ever yields
          Primordial,  \* the thread sched_setup creates
          WaitQueues,  \* wait queues other than readyq: mutexes and condvars
          Prio,        \* Prio[t] is t->_prio
          Quantum,     \* Quantum[t] is t->_quantum
          MaxDelay,    \* bound on the delay of a sleep or of a timed wait
          ScanLimit    \* nodes an insertion may pass: 5 in queue.h

ASSUME ThreadsAssumption ==
  /\ Idle \in Threads /\ Primordial \in Threads /\ Idle # Primordial
  /\ Prio \in [Threads -> Nat] /\ Prio[Primordial] >= Prio[Idle]
  /\ Quantum \in [Threads -> Nat \ {0}]
  /\ MaxDelay \in Nat /\ ScanLimit \in Nat

VARIABLES
  current,        \* sched_current_thread
  readyq,         \* readyq, the head first; the running thread stays in it
  sleepq,         \* sleepq, the head first
  waitq,          \* waitq[q]: the threads on the wait queue q
  left,           \* left[t]: clock ticks before t->_timeout
  didNotTimeout,  \* didNotTimeout[t]: t->_did_not_timeout
  quantum,        \* clock ticks before the running thread's _end_of_quantum
  pit,            \* pulses before the PIT raises irq0
  mode,           \* "run", or what is in progress: "timer", "broadcast",
                  \* "handoff"; or "panic"
  waking,         \* {q} while a broadcast on q or a hand-off of q is in progress
  scan,           \* nodes passed by the longest insertion of the last step
  stage           \* stage[t]: where t is in its life

vars == <<current, readyq, sleepq, waitq, left, didNotTimeout, quantum, pit,
          mode, waking, scan, stage>>

Stages == {"new", "live", "terminated", "announced", "gone"}

-----------------------------------------------------------------------------
(* Queues: BEFORE compares priorities in the wait queues (readyq is one)   *)
(* and timeouts in the sleep queue.                                        *)

\* Mutant: a node goes before its equals too.
OutrankedOrEqual(t) == {u \in Threads : Prio[t] >= Prio[u]}

Outranked(t) == {u \in Threads : Prio[t] > Prio[u]}
LaterThan(d) == {u \in Threads : d < left[u]}

PrioPassed(t, q)  == Passed(q, Outranked(t))
SleepPassed(d, q) == Passed(q, LaterThan(d))

WaitInsert(t, q)     == QInsert(t, q, Outranked(t))
SleepInsert(t, d, q) == QInsert(t, q, LaterThan(d))

\* The wait queues without t: t->_next/_prev say which one it was on.
OffWaitQueues(t) == [q \in WaitQueues |-> QRemove(t, waitq[q])]

-----------------------------------------------------------------------------
(* The scheduler's internal routines.                                      *)

\* A primitive starts when interrupts are enabled, no earlier primitive is in
\* a loop, and none walked past ScanLimit nodes: queue.h then spins for ever.
Running == mode = "run" /\ scan <= ScanLimit

\* _sched_set_timer: load the PIT so that irq0 comes in n ticks; the 2 counts
\* added to them are part of what a pulse stands for.
SetTimer(n) == pit' = n

\* _sched_resume_next_thread: run the head of the ready queue rq.
ResumeNext(rq) ==
  /\ readyq' = rq
  /\ waking' = {}
  /\ IF rq = <<>>
     THEN mode' = "panic" /\ UNCHANGED <<current, quantum, pit>>
     ELSE /\ mode' = "run"
          /\ current' = Head(rq)
          /\ quantum' = Quantum[Head(rq)]
          /\ SetTimer(Quantum[Head(rq)])

\* _sched_switch_to_next_thread, the ready queue being rq.
SwitchToNext(rq) ==
  LET rest == QRemove(current, rq)
  IN  /\ ResumeNext(WaitInsert(current, rest))
      /\ scan' = PrioPassed(current, rest)

\* _sched_yield_if_necessary, the ready queue being rq after an insertion
\* that passed n nodes.
YieldIfNecessary(rq, n) ==
  IF Head(rq) # current
  THEN LET rest == QRemove(current, rq)
       IN  /\ ResumeNext(WaitInsert(current, rest))
           /\ scan' = IF n > PrioPassed(current, rest)
                      THEN n ELSE PrioPassed(current, rest)
  ELSE /\ readyq' = rq
       /\ waking' = {}
       /\ mode' = "run"
       /\ scan' = n
       /\ UNCHANGED <<current, quantum, pit>>

\* The waking sequence: off the sleep queue, off the wait queue (the one
\* _sched_reschedule_thread leaves), and onto the ready queue.
\* Mutant: the thread stays on the queue that it waits on.
WakeOffSleep(t) == sleepq' = QRemove(t, sleepq) /\ UNCHANGED waitq

WakeOff(t) == /\ sleepq' = QRemove(t, sleepq)
              /\ waitq'  = OffWaitQueues(t)

WakeInto(t) == WaitInsert(t, readyq)

-----------------------------------------------------------------------------
(* Boot: sched_setup queues the primordial thread, and rtlib.cpp starts    *)
(* the idle thread before anything can wait or sleep.                      *)

Init ==
  /\ current = Primordial
  /\ readyq = <<Primordial, Idle>>
  /\ sleepq = <<>>
  /\ waitq = [q \in WaitQueues |-> <<>>]
  /\ left = [t \in Threads |-> 0]
  /\ didNotTimeout = [t \in Threads |-> TRUE]
  /\ quantum = Quantum[Primordial]
  /\ pit = Quantum[Primordial]
  /\ mode = "run"
  /\ waking = {}
  /\ scan = 0
  /\ stage = [t \in Threads |-> IF t \in {Primordial, Idle}
                                THEN "live" ELSE "new"]

-----------------------------------------------------------------------------
(* What the running thread may call.  The idle thread only yields.         *)

\* Mutant: an idle thread that may sleep or wait.
SuspendableIdle == stage[current] = "live"

Suspendable == current # Idle /\ stage[current] = "live"

Calling == Running /\ Suspendable

\* The start of condvar_wait and condvar_wait_or_timeout when the mutex q has
\* waiters: it goes to the first of them, and nobody looks whether that one
\* outranks the running thread.
HandOff(q) ==
  /\ Calling
  /\ waitq[q] # <<>>
  /\ LET t == Head(waitq[q])
     IN  /\ WakeOff(t)
         /\ readyq' = WakeInto(t)
         /\ scan' = PrioPassed(t, readyq)
  /\ mode' = "handoff"
  /\ waking' = {q}
  /\ UNCHANGED <<current, left, didNotTimeout, quantum, pit, stage>>

\* condvar_wait_or_timeout returns when it finds the timeout past.
HandOffEnd ==
  /\ mode = "handoff" /\ scan <= ScanLimit
  /\ mode' = "run"
  /\ waking' = {}
  /\ UNCHANGED <<current, readyq, sleepq, waitq, left, didNotTimeout, quantum,
                 pit, scan, stage>>

HandingOff == mode = "handoff" /\ scan <= ScanLimit /\ Suspendable

\* thread_yield
Yield ==
  /\ Running
  /\ stage[current] = "live"
  /\ SwitchToNext(readyq)
  /\ UNCHANGED <<sleepq, waitq, left, didNotTimeout, stage>>

\* thread_sleep and thread_sleep_seconds: to sleep for d ticks.
Sleep(d) ==
  /\ Calling
  /\ left' = [left EXCEPT ![current] = d]
  /\ sleepq' = SleepInsert(current, d, sleepq)
  /\ scan' = SleepPassed(d, sleepq)
  /\ ResumeNext(QRemove(current, readyq))
  /\ UNCHANGED <<waitq, didNotTimeout, stage>>

\* _sched_suspend_on_wait_queue, under every untimed wait.  condvar_wait asks
\* again for the mutex that it has handed over.
Wait(q) ==
  /\ Calling \/ (HandingOff /\ q \in waking)
  /\ waitq' = [waitq EXCEPT ![q] = WaitInsert(current, @)]
  /\ scan' = PrioPassed(current, waitq[q])
  /\ ResumeNext(QRemove(current, readyq))
  /\ UNCHANGED <<sleepq, left, didNotTimeout, stage>>

\* The waiting part of mutex_lock_or_timeout and condvar_wait_or_timeout,
\* which both return before it unless the timeout is in the future.
TimedWait(q, d) ==
  /\ Calling \/ (HandingOff /\ q \notin waking)
  /\ d > 0
  /\ left' = [left EXCEPT ![current] = d]
  /\ didNotTimeout' = [didNotTimeout EXCEPT ![current] = TRUE]
  /\ waitq' = [waitq EXCEPT ![q] = WaitInsert(current, @)]
  /\ sleepq' = SleepInsert(current, d, sleepq)
  /\ scan' = IF PrioPassed(current, waitq[q]) > SleepPassed(d, sleepq)
             THEN PrioPassed(current, waitq[q]) ELSE SleepPassed(d, sleepq)
  /\ ResumeNext(QRemove(current, readyq))
  /\ UNCHANGED stage

\* Waking the head of q: condvar_signal, condvar_mutexless_signal and the
\* hand-off of mutex_unlock.  An interrupt handler does this too, so whatever
\* thread is running, the idle thread included, may be the one interrupted.
Signal(q) ==
  /\ Running
  /\ waitq[q] # <<>>
  /\ LET t == Head(waitq[q])
     IN  /\ WakeOff(t)
         /\ YieldIfNecessary(WakeInto(t), PrioPassed(t, readyq))
  /\ UNCHANGED <<left, didNotTimeout, stage>>

\* condvar_broadcast(q), one step per thread woken.  An exiting thread
\* broadcasts on its _joiners.
BroadcastBegin(q) ==
  /\ Running
  /\ current # Idle
  /\ stage[current] \in {"live", "terminated"}
  /\ mode' = "broadcast"
  /\ waking' = {q}
  /\ stage' = [stage EXCEPT ![current] = IF @ = "terminated"
                                         THEN "announced" ELSE @]
  /\ UNCHANGED <<current, readyq, sleepq, waitq, left, didNotTimeout, quantum,
                 pit, scan>>

BroadcastWake ==
  /\ mode = "broadcast" /\ scan <= ScanLimit
  /\ \E q \in waking :
       /\ waitq[q] # <<>>
       /\ LET t == Head(waitq[q])
          IN  /\ WakeOff(t)
              /\ readyq' = WakeInto(t)
              /\ scan' = PrioPassed(t, readyq)
  /\ UNCHANGED <<current, left, didNotTimeout, quantum, pit, mode, waking, stage>>

BroadcastEnd ==
  /\ mode = "broadcast" /\ scan <= ScanLimit
  /\ \A q \in waking : waitq[q] = <<>>
  /\ YieldIfNecessary(readyq, scan)
  /\ UNCHANGED <<sleepq, waitq, left, didNotTimeout, stage>>

\* thread_start
Start(t) ==
  /\ Calling
  /\ stage[t] = "new"
  /\ stage' = [stage EXCEPT ![t] = "live"]
  /\ YieldIfNecessary(WakeInto(t), PrioPassed(t, readyq))
  /\ UNCHANGED <<sleepq, waitq, left, didNotTimeout>>

\* _sched_run_thread once thread_run returned: set _terminated with
\* interrupts enabled, broadcast (BroadcastBegin, above), and then Leave.
Terminate ==
  /\ Calling
  /\ current # Primordial
  /\ stage' = [stage EXCEPT ![current] = "terminated"]
  /\ UNCHANGED <<current, readyq, sleepq, waitq, left, didNotTimeout, quantum,
                 pit, mode, waking, scan>>

Leave ==
  /\ Running
  /\ stage[current] = "announced"
  /\ stage' = [stage EXCEPT ![current] = "gone"]
  /\ scan' = 0
  /\ ResumeNext(QRemove(current, readyq))
  /\ UNCHANGED <<sleepq, waitq, left, didNotTimeout>>

-----------------------------------------------------------------------------
(* Interrupts.                                                             *)

\* Mutant: a time left that runs below zero.
TickUnder ==
  /\ Running
  /\ left' = [t \in Threads |-> left[t] - 1]
  /\ UNCHANGED <<current, readyq, sleepq, waitq, didNotTimeout, quantum, pit,
                 mode, waking, scan, stage>>

\* irq8: the clock advances.
Tick ==
  /\ Running
  /\ left' = [t \in Threads |-> IF left[t] > 0 THEN left[t] - 1 ELSE 0]
  /\ quantum' = IF quantum > 0 THEN quantum - 1 ELSE 0
  /\ UNCHANGED <<current, readyq, sleepq, waitq, didNotTimeout, pit, mode,
                 waking, scan, stage>>

\* A pulse of the PIT's own clock, faster or slower than irq8.
PitPulse ==
  /\ Running
  /\ pit > 0
  /\ pit' = pit - 1
  /\ UNCHANGED <<current, readyq, sleepq, waitq, left, didNotTimeout, quantum,
                 mode, waking, scan, stage>>

\* irq0: _sched_timer_elapsed, one step per sleeper woken.
TimerBegin ==
  /\ Running
  /\ pit = 0
  /\ mode' = "timer"
  /\ UNCHANGED <<current, readyq, sleepq, waitq, left, didNotTimeout, quantum,
                 pit, waking, scan, stage>>

\* Mutants: a sleeper is woken early; one whose time is just up is not woken.
ExpiredEarly  == sleepq # <<>>
ExpiredStrict == sleepq # <<>> /\ left[Head(sleepq)] < 0

Expired == sleepq # <<>> /\ left[Head(sleepq)] <= 0

TimerWake ==
  /\ mode = "timer" /\ scan <= ScanLimit
  /\ Expired
  /\ LET t == Head(sleepq)
     IN  /\ didNotTimeout' = [didNotTimeout EXCEPT ![t] = FALSE]
         /\ WakeOff(t)
         /\ readyq' = WakeInto(t)
         /\ scan' = PrioPassed(t, readyq)
  /\ UNCHANGED <<current, left, quantum, pit, mode, waking, stage>>

\* The timer is fast: rearm it for what is left.  Otherwise switch.
TimerEnd ==
  /\ mode = "timer" /\ scan <= ScanLimit
  /\ ~Expired
  /\ IF quantum > 0
     THEN /\ SetTimer(quantum)
          /\ mode' = "run"
          /\ UNCHANGED <<current, readyq, quantum, waking, scan>>
     ELSE SwitchToNext(readyq)
  /\ UNCHANGED <<sleepq, waitq, left, didNotTimeout, stage>>

-----------------------------------------------------------------------------

Next ==
  \/ Yield
  \/ \E d \in 0..MaxDelay : Sleep(d)
  \/ \E q \in WaitQueues :
       Wait(q) \/ Signal(q) \/ BroadcastBegin(q) \/ HandOff(q)
  \/ \E q \in WaitQueues, d \in 1..MaxDelay : TimedWait(q, d)
  \/ BroadcastWake \/ BroadcastEnd \/ HandOffEnd
  \/ \E t \in Threads : Start(t)
  \/ Terminate \/ Leave
  \/ Tick \/ PitPulse
  \/ TimerBegin \/ TimerWake \/ TimerEnd

Spec == Init /\ [][Next]_vars

\* Interrupt requests are latched by the PIC, so a clock that keeps running
\* is served however often interrupts are disabled in between (SF); the loops
\* run to their end, and so does a thread that is on its way out (WF).
Fairness ==
  /\ SF_vars(Tick) /\ SF_vars(PitPulse) /\ SF_vars(TimerBegin)
  /\ WF_vars(TimerWake) /\ WF_vars(TimerEnd)
  /\ WF_vars(BroadcastWake) /\ WF_vars(BroadcastEnd) /\ WF_vars(HandOffEnd)

FairSpec == Spec /\ Fairness

-----------------------------------------------------------------------------
(* Properties.                                                             *)

OnWaitQueue(t) == \E q \in WaitQueues : t \in ToSet(waitq[q])

\* The variables have their types.
TypeOK ==
  /\ current \in Threads
  /\ readyq \in Seq(Threads)
  /\ sleepq \in Seq(Threads)
  /\ waitq \in [WaitQueues -> Seq(Threads)]
  /\ left \in [Threads -> 0..MaxDelay]
  /\ didNotTimeout \in [Threads -> BOOLEAN]
  /\ quantum \in Nat
  /\ pit \in Nat
  /\ mode \in {"run", "timer", "broadcast", "handoff", "panic"}
  /\ waking \in SUBSET WaitQueues
  /\ scan \in Nat
  /\ stage \in [Threads -> Stages]

\* No thread is lost or queued twice, whatever order the removals and
\* insertions of thread.cpp come in: a started thread is in the ready queue,
\* or on one wait queue, or asleep (or both: a timed wait), at one place of
\* each, and a thread that was not started or has left is nowhere.
NoDuplicates == /\ IsInjective(readyq)
                /\ IsInjective(sleepq)
                /\ \A q \in WaitQueues : IsInjective(waitq[q])

OneWaitQueue == \A q, r \in WaitQueues :
                  q # r => ToSet(waitq[q]) \cap ToSet(waitq[r]) = {}

Placement ==
  /\ NoDuplicates
  /\ OneWaitQueue
  /\ \A t \in Threads :
       /\ t \in ToSet(readyq) <=> /\ stage[t] \notin {"new", "gone"}
                                  /\ t \notin ToSet(sleepq)
                                  /\ ~OnWaitQueue(t)
       /\ stage[t] # "live" => t \notin ToSet(sleepq) /\ ~OnWaitQueue(t)

\* panic(L"Deadlock detected") of _sched_resume_next_thread is unreachable:
\* a running thread and the idle thread are always in the ready queue.
NoDeadlockPanic == /\ mode # "panic"
                   /\ Idle \in ToSet(readyq)
                   /\ current \in ToSet(readyq)

\* When the timer handler returns, no sleeper whose time is up is left asleep.
TimerWakesAll ==
  [][mode = "timer" /\ mode' = "run"
       => \A t \in ToSet(sleepq') : left'[t] > 0]_vars

\* The verdict of a timed wait (_did_not_timeout, which the primitives return
\* to their caller) is settled at the moment the thread is woken: a thread
\* woken by a signal whose timeout passes before it runs still returns TRUE.
VerdictIsFinal ==
  [][\A t \in Threads :
       /\ didNotTimeout[t] /\ ~didNotTimeout'[t]
            => t \in ToSet(sleepq) /\ left[t] = 0
       /\ t \in ToSet(sleepq) \ ToSet(sleepq')
            => ~didNotTimeout'[t] \/ OnWaitQueue(t)]_vars

\* A thread is resumed only when no ready thread outranks it.
ResumesBest ==
  [][current' # current
       => \A t \in ToSet(readyq') : Prio[t] <= Prio[current']]_vars

\* No thread monopolises the processor: a ready thread runs, whatever its
\* equals do, unless a ready thread outranks it.
ReadyRuns ==
  \A t \in Threads :
    t \in ToSet(readyq) ~> \/ current = t
                          \/ \E u \in ToSet(readyq) : Prio[u] > Prio[t]

=============================================================================
