--------------------------- MODULE SchedulerProofs ---------------------------
(***************************************************************************)
(* Safety of the scheduler for any number of threads and wait queues, any  *)
(* priorities, quanta and delays.                                          *)
(*                                                                         *)
(* The inductive invariant Inv is type correctness, the placement of every *)
(* thread, and the two facts that keep the ready queue from running empty: *)
(* the idle thread never leaves it (it only yields), and neither does the  *)
(* running thread except by the step that resumes another.                 *)
(***************************************************************************)
EXTENDS Scheduler, PrioQueueProofs

IdleLives == stage[Idle] = "live"

Inv == TypeOK /\ Placement /\ NoDeadlockPanic /\ IdleLives

-----------------------------------------------------------------------------
(* The internal routines.                                                  *)

LEMMA PrioPassedNat ==
  ASSUME NEW q \in Seq(Threads), NEW t
  PROVE  PrioPassed(t, q) \in Nat
BY PassedSpec, LenProperties DEF PrioPassed

LEMMA SleepPassedNat ==
  ASSUME NEW q \in Seq(Threads), NEW d
  PROVE  SleepPassed(d, q) \in Nat
BY PassedSpec, LenProperties DEF SleepPassed

LEMMA WaitInsertSpec ==
  ASSUME NEW q \in Seq(Threads), NEW t \in Threads
  PROVE  /\ WaitInsert(t, q) \in Seq(Threads)
         /\ WaitInsert(t, q) # <<>>
         /\ ToSet(WaitInsert(t, q)) = ToSet(q) \cup {t}
         /\ IsInjective(q) /\ t \notin ToSet(q) => IsInjective(WaitInsert(t, q))
BY QInsertSpec DEF WaitInsert

LEMMA SleepInsertSpec ==
  ASSUME NEW q \in Seq(Threads), NEW t \in Threads, NEW d
  PROVE  /\ SleepInsert(t, d, q) \in Seq(Threads)
         /\ ToSet(SleepInsert(t, d, q)) = ToSet(q) \cup {t}
         /\ IsInjective(q) /\ t \notin ToSet(q)
              => IsInjective(SleepInsert(t, d, q))
BY QInsertSpec DEF SleepInsert

LEMMA HeadInSet ==
  ASSUME NEW S, NEW q \in Seq(S), q # <<>>
  PROVE  Head(q) \in ToSet(q) /\ Head(q) \in S
<1>1. Len(q) \in Nat /\ Len(q) # 0 /\ DOMAIN q = 1..Len(q)
  BY EmptySeq, LenProperties
<1>2. Head(q) = q[1] /\ 1 \in DOMAIN q
  BY <1>1, HeadTailProperties
<1>3. QED
  BY <1>1, <1>2, ElementOfSeq DEF ToSet

LEMMA SetOfSeq ==
  ASSUME NEW S, NEW q \in Seq(S)
  PROVE  ToSet(q) \subseteq S
BY ElementOfSeq, LenProperties DEF ToSet

(* _sched_resume_next_thread does not panic when somebody is ready.        *)
LEMMA ResumeNextSpec ==
  ASSUME NEW rq \in Seq(Threads), NEW t \in ToSet(rq), ResumeNext(rq)
  PROVE  /\ readyq' = rq /\ waking' = {} /\ mode' = "run"
         /\ current' \in ToSet(rq) /\ current' \in Threads
         /\ quantum' \in Nat /\ pit' \in Nat
<1>1. rq # <<>>
  BY DEF ToSet
<1>2. current' \in ToSet(rq) /\ current' \in Threads
  BY <1>1, HeadInSet DEF ResumeNext, SetTimer
<1>3. QED
  BY <1>1, <1>2, HeadInSet, ThreadsAssumption DEF ResumeNext, SetTimer

(* Moving the running thread behind its equals keeps the ready set.        *)
LEMMA RequeueSpec ==
  ASSUME NEW rq \in Seq(Threads), IsInjective(rq), current \in ToSet(rq),
         current \in Threads,
         ResumeNext(WaitInsert(current, QRemove(current, rq)))
  PROVE  /\ readyq' \in Seq(Threads) /\ IsInjective(readyq')
         /\ ToSet(readyq') = ToSet(rq)
         /\ waking' = {} /\ mode' = "run"
         /\ current' \in ToSet(readyq') /\ current' \in Threads
         /\ quantum' \in Nat /\ pit' \in Nat
         /\ QRemove(current, rq) \in Seq(Threads)
<1> DEFINE rest == QRemove(current, rq)
<1>1. /\ rest \in Seq(Threads) /\ IsInjective(rest)
      /\ ToSet(rest) = ToSet(rq) \ {current}
  BY QRemoveSpec
<1>2. /\ WaitInsert(current, rest) \in Seq(Threads)
      /\ IsInjective(WaitInsert(current, rest))
      /\ ToSet(WaitInsert(current, rest)) = ToSet(rq)
  <2> HIDE DEF rest
  <2>1. current \notin ToSet(rest) /\ ToSet(rest) \cup {current} = ToSet(rq)
    BY <1>1
  <2>2. QED
    BY <1>1, <2>1, WaitInsertSpec
<1>3. QED
  BY <1>1, <1>2, ResumeNextSpec

LEMMA SwitchToNextSpec ==
  ASSUME TypeOK, NoDeadlockPanic, IsInjective(readyq), SwitchToNext(readyq)
  PROVE  /\ readyq' \in Seq(Threads) /\ IsInjective(readyq')
         /\ ToSet(readyq') = ToSet(readyq)
         /\ waking' = {} /\ mode' = "run"
         /\ current' \in ToSet(readyq') /\ current' \in Threads
         /\ quantum' \in Nat /\ pit' \in Nat /\ scan' \in Nat
<1>1. /\ ResumeNext(WaitInsert(current, QRemove(current, readyq)))
      /\ scan' = PrioPassed(current, QRemove(current, readyq))
  BY DEF SwitchToNext
<1>2. readyq \in Seq(Threads) /\ current \in Threads /\ current \in ToSet(readyq)
  BY DEF TypeOK, NoDeadlockPanic
<1>3. QED
  BY <1>1, <1>2, RequeueSpec, PrioPassedNat

LEMMA YieldIfNecessarySpec ==
  ASSUME TypeOK, NEW rq \in Seq(Threads), IsInjective(rq), current \in ToSet(rq),
         NEW n \in Nat, YieldIfNecessary(rq, n)
  PROVE  /\ readyq' \in Seq(Threads) /\ IsInjective(readyq')
         /\ ToSet(readyq') = ToSet(rq)
         /\ waking' = {} /\ mode' = "run"
         /\ current' \in ToSet(readyq') /\ current' \in Threads
         /\ quantum' \in Nat /\ pit' \in Nat /\ scan' \in Nat
<1>1. CASE Head(rq) = current
  BY <1>1 DEF YieldIfNecessary, TypeOK
<1>2. CASE Head(rq) # current
  <2>1. /\ ResumeNext(WaitInsert(current, QRemove(current, rq)))
        /\ scan' = IF n > PrioPassed(current, QRemove(current, rq))
                   THEN n ELSE PrioPassed(current, QRemove(current, rq))
    BY <1>2 DEF YieldIfNecessary
  <2>2. current \in Threads
    BY DEF TypeOK
  <2>3. QED
    BY <2>1, <2>2, RequeueSpec, PrioPassedNat
<1>3. QED
  BY <1>1, <1>2

-----------------------------------------------------------------------------
(* Three ways in which a step moves threads, each of which keeps Placement.*)

(* Nobody moves; a running thread may be on its way out.                   *)
LEMMA KeepSet ==
  ASSUME TypeOK, Placement, UNCHANGED <<sleepq, waitq>>,
         IsInjective(readyq'), ToSet(readyq') = ToSet(readyq),
         \A t \in Threads :
           /\ stage'[t] \in {"new", "gone"} <=> stage[t] \in {"new", "gone"}
           /\ stage'[t] # "live" => stage[t] # "live" \/ t \in ToSet(readyq)
  PROVE  Placement'
<1>1. NoDuplicates' /\ OneWaitQueue'
  BY DEF Placement, NoDuplicates, OneWaitQueue
<1>2. \A t \in Threads : OnWaitQueue(t)' <=> OnWaitQueue(t)
  BY DEF OnWaitQueue
<1>3. QED
  BY <1>1, <1>2 DEF Placement

(* A thread is taken off the sleep and wait queues and made ready.         *)
LEMMA OffWaitQueuesSpec ==
  ASSUME TypeOK, Placement, NEW t
  PROVE  /\ OffWaitQueues(t) \in [WaitQueues -> Seq(Threads)]
         /\ \A q \in WaitQueues :
              /\ IsInjective(OffWaitQueues(t)[q])
              /\ ToSet(OffWaitQueues(t)[q]) = ToSet(waitq[q]) \ {t}
<1>1. ASSUME NEW q \in WaitQueues
      PROVE  /\ QRemove(t, waitq[q]) \in Seq(Threads)
             /\ IsInjective(QRemove(t, waitq[q]))
             /\ ToSet(QRemove(t, waitq[q])) = ToSet(waitq[q]) \ {t}
  <2>1. waitq[q] \in Seq(Threads) /\ IsInjective(waitq[q])
    BY DEF TypeOK, Placement, NoDuplicates
  <2>2. QED
    BY <2>1, QRemoveSpec
<1>2. QED
  BY <1>1 DEF OffWaitQueues

LEMMA WakeSet ==
  ASSUME TypeOK, Placement, NEW t \in Threads,
         t \in ToSet(sleepq) \/ OnWaitQueue(t), WakeOff(t),
         IsInjective(readyq'), ToSet(readyq') = ToSet(readyq) \cup {t},
         stage' = stage
  PROVE  /\ Placement'
         /\ sleepq' \in Seq(Threads)
         /\ waitq' \in [WaitQueues -> Seq(Threads)]
<1>1. /\ sleepq' \in Seq(Threads) /\ IsInjective(sleepq')
      /\ ToSet(sleepq') = ToSet(sleepq) \ {t}
  BY QRemoveSpec DEF WakeOff, TypeOK, Placement, NoDuplicates
<1>2. /\ waitq' \in [WaitQueues -> Seq(Threads)]
      /\ \A q \in WaitQueues : /\ IsInjective(waitq'[q])
                                /\ ToSet(waitq'[q]) = ToSet(waitq[q]) \ {t}
  BY OffWaitQueuesSpec DEF WakeOff
<1>3. NoDuplicates'
  BY <1>1, <1>2 DEF NoDuplicates
<1>4. OneWaitQueue'
  BY <1>2 DEF OneWaitQueue, Placement
<1>5. \A u \in Threads : OnWaitQueue(u)' <=> OnWaitQueue(u) /\ u # t
  BY <1>2 DEF OnWaitQueue
<1>6. stage[t] = "live"
  BY DEF Placement
<1>7. QED
  BY <1>1, <1>2, <1>3, <1>4, <1>5, <1>6 DEF Placement

(* The running thread leaves the ready queue, for the queues W (at most    *)
(* one), for the sleep queue, or both.                                     *)
LEMMA SuspendSet ==
  ASSUME TypeOK, Placement, current \in ToSet(readyq), stage[current] = "live",
         IsInjective(readyq'), ToSet(readyq') = ToSet(readyq) \ {current},
         NEW W \in SUBSET WaitQueues, \A q, r \in W : q = r,
         IsInjective(sleepq'),
         ToSet(sleepq') \in {ToSet(sleepq), ToSet(sleepq) \cup {current}},
         \A q \in WaitQueues :
           /\ IsInjective(waitq'[q])
           /\ ToSet(waitq'[q]) = IF q \in W THEN ToSet(waitq[q]) \cup {current}
                                            ELSE ToSet(waitq[q]),
         W = {} => current \in ToSet(sleepq'),
         stage' = stage
  PROVE  Placement'
<1>1. NoDuplicates'
  BY DEF NoDuplicates
<1>2. current \in Threads /\ current \notin ToSet(sleepq) /\ ~OnWaitQueue(current)
  BY DEF TypeOK, Placement
<1>3. OneWaitQueue'
  <2>1. ASSUME NEW q \in WaitQueues, NEW r \in WaitQueues, q # r
        PROVE  ToSet(waitq'[q]) \cap ToSet(waitq'[r]) = {}
    <3>1. ToSet(waitq[q]) \cap ToSet(waitq[r]) = {}
      BY <2>1 DEF Placement, OneWaitQueue
    <3>2. current \notin ToSet(waitq[q]) /\ current \notin ToSet(waitq[r])
      BY <1>2 DEF OnWaitQueue
    <3>3. q \notin W \/ r \notin W
      BY <2>1
    <3>4. QED
      BY <3>1, <3>2, <3>3
  <2>2. QED
    BY <2>1 DEF OneWaitQueue
<1>4. \A u \in Threads :
        OnWaitQueue(u)' <=> OnWaitQueue(u) \/ (u = current /\ W # {})
  BY DEF OnWaitQueue
<1>5. QED
  BY <1>1, <1>2, <1>3, <1>4 DEF Placement

-----------------------------------------------------------------------------
(* The steps.                                                              *)

LEMMA InitInv == Init => Inv
<1> SUFFICES ASSUME Init PROVE Inv
  OBVIOUS
<1>1. readyq \in Seq(Threads) /\ ToSet(readyq) = {Primordial, Idle}
  BY ThreadsAssumption DEF Init, ToSet
<1>2. IsInjective(readyq)
  BY ThreadsAssumption DEF Init, IsInjective
<1>3. TypeOK
  <2>1. <<>> \in Seq(Threads)
    BY EmptySeq
  <2>2. QED
    BY <1>1, <2>1, ThreadsAssumption DEF Init, TypeOK, Stages
<1>4. ToSet(sleepq) = {} /\ IsInjective(sleepq)
  BY DEF Init, ToSet, IsInjective
<1>5. \A q \in WaitQueues : ToSet(waitq[q]) = {} /\ IsInjective(waitq[q])
  BY DEF Init, ToSet, IsInjective
<1>6. NoDuplicates /\ OneWaitQueue /\ \A t : ~OnWaitQueue(t)
  BY <1>2, <1>4, <1>5 DEF NoDuplicates, OneWaitQueue, OnWaitQueue
<1>7. Placement
  BY <1>1, <1>4, <1>6 DEF Placement, Init
<1>8. NoDeadlockPanic /\ IdleLives
  BY <1>1, ThreadsAssumption DEF NoDeadlockPanic, IdleLives, Init
<1>9. QED
  BY <1>3, <1>7, <1>8 DEF Inv

LEMMA YieldInv == Inv /\ Yield => Inv'
<1> SUFFICES ASSUME Inv, Yield PROVE Inv'
  OBVIOUS
<1> USE DEF Inv
<1>1. /\ SwitchToNext(readyq) /\ IsInjective(readyq)
      /\ UNCHANGED <<sleepq, waitq, left, didNotTimeout, stage>>
  BY DEF Yield, Placement, NoDuplicates
<1>2. /\ readyq' \in Seq(Threads) /\ IsInjective(readyq')
      /\ ToSet(readyq') = ToSet(readyq) /\ waking' = {} /\ mode' = "run"
      /\ current' \in ToSet(readyq') /\ current' \in Threads
      /\ quantum' \in Nat /\ pit' \in Nat /\ scan' \in Nat
  BY <1>1, SwitchToNextSpec
<1>3. TypeOK'
  BY <1>1, <1>2 DEF TypeOK
<1>4. Placement'
  BY <1>1, <1>2, KeepSet
<1>5. QED
  BY <1>1, <1>2, <1>3, <1>4 DEF NoDeadlockPanic, IdleLives

(* What the running thread leaves behind when it suspends itself.          *)
LEMMA SuspendReady ==
  ASSUME Inv, current # Idle, ResumeNext(QRemove(current, readyq))
  PROVE  /\ readyq' \in Seq(Threads) /\ IsInjective(readyq')
         /\ ToSet(readyq') = ToSet(readyq) \ {current}
         /\ waking' = {} /\ mode' = "run"
         /\ current' \in ToSet(readyq') /\ current' \in Threads
         /\ quantum' \in Nat /\ pit' \in Nat
         /\ Idle \in ToSet(readyq')
<1>1. /\ readyq \in Seq(Threads) /\ IsInjective(readyq)
      /\ Idle \in ToSet(readyq) /\ current # Idle
  BY DEF Inv, TypeOK, Placement, NoDuplicates, NoDeadlockPanic
<1>2. /\ QRemove(current, readyq) \in Seq(Threads)
      /\ IsInjective(QRemove(current, readyq))
      /\ ToSet(QRemove(current, readyq)) = ToSet(readyq) \ {current}
  BY <1>1, QRemoveSpec
<1>3. QED
  BY <1>1, <1>2, ResumeNextSpec

LEMMA SleepInv == ASSUME NEW d \in 0..MaxDelay, Inv, Sleep(d) PROVE Inv'
<1> USE DEF Inv
<1>1. /\ Suspendable /\ ResumeNext(QRemove(current, readyq))
      /\ sleepq' = SleepInsert(current, d, sleepq)
      /\ scan' = SleepPassed(d, sleepq)
      /\ left' = [left EXCEPT ![current] = d]
      /\ UNCHANGED <<waitq, didNotTimeout, stage>>
  BY DEF Sleep, Calling
<1>2. /\ readyq' \in Seq(Threads) /\ IsInjective(readyq')
      /\ ToSet(readyq') = ToSet(readyq) \ {current}
      /\ waking' = {} /\ mode' = "run"
      /\ current' \in ToSet(readyq') /\ current' \in Threads
      /\ quantum' \in Nat /\ pit' \in Nat /\ Idle \in ToSet(readyq')
  BY <1>1, SuspendReady DEF Suspendable
<1>3. /\ current \in Threads /\ current \in ToSet(readyq)
      /\ stage[current] = "live" /\ current \notin ToSet(sleepq)
      /\ sleepq \in Seq(Threads) /\ IsInjective(sleepq)
      /\ \A q \in WaitQueues : IsInjective(waitq[q])
  BY <1>1 DEF Suspendable, TypeOK, Placement, NoDeadlockPanic, NoDuplicates
<1>4. /\ sleepq' \in Seq(Threads) /\ IsInjective(sleepq')
      /\ ToSet(sleepq') = ToSet(sleepq) \cup {current}
  BY <1>1, <1>3, SleepInsertSpec
<1>5. TypeOK'
  BY <1>1, <1>2, <1>3, <1>4, SleepPassedNat DEF TypeOK
<1>6. Placement'
  <2> PICK W \in SUBSET WaitQueues : W = {}
    OBVIOUS
  <2>1. \A q \in WaitQueues :
          /\ IsInjective(waitq'[q])
          /\ ToSet(waitq'[q]) = IF q \in W THEN ToSet(waitq[q]) \cup {current}
                                ELSE ToSet(waitq[q])
    BY <1>1, <1>3
  <2>2. QED
    BY <1>1, <1>2, <1>3, <1>4, <2>1, SuspendSet
<1>7. QED
  BY <1>1, <1>2, <1>5, <1>6 DEF NoDeadlockPanic, IdleLives

LEMMA WaitInv == ASSUME NEW q \in WaitQueues, Inv, Wait(q) PROVE Inv'
<1> USE DEF Inv
<1>1. /\ Suspendable /\ ResumeNext(QRemove(current, readyq))
      /\ waitq' = [waitq EXCEPT ![q] = WaitInsert(current, @)]
      /\ scan' = PrioPassed(current, waitq[q])
      /\ UNCHANGED <<sleepq, left, didNotTimeout, stage>>
  BY DEF Wait, Calling, HandingOff
<1>2. /\ readyq' \in Seq(Threads) /\ IsInjective(readyq')
      /\ ToSet(readyq') = ToSet(readyq) \ {current}
      /\ waking' = {} /\ mode' = "run"
      /\ current' \in ToSet(readyq') /\ current' \in Threads
      /\ quantum' \in Nat /\ pit' \in Nat /\ Idle \in ToSet(readyq')
  BY <1>1, SuspendReady DEF Suspendable
<1>3. /\ current \in Threads /\ current \in ToSet(readyq)
      /\ stage[current] = "live" /\ IsInjective(sleepq)
      /\ \A r \in WaitQueues : /\ IsInjective(waitq[r])
                                /\ waitq[r] \in Seq(Threads)
                                /\ current \notin ToSet(waitq[r])
  BY <1>1 DEF Suspendable, TypeOK, Placement, NoDeadlockPanic, NoDuplicates, OnWaitQueue
<1>4. /\ WaitInsert(current, waitq[q]) \in Seq(Threads)
      /\ IsInjective(WaitInsert(current, waitq[q]))
      /\ ToSet(WaitInsert(current, waitq[q])) = ToSet(waitq[q]) \cup {current}
  BY <1>3, WaitInsertSpec
<1>5. TypeOK'
  BY <1>1, <1>2, <1>3, <1>4, PrioPassedNat DEF TypeOK
<1>6. Placement'
  <2>1. \A r \in WaitQueues :
          /\ IsInjective(waitq'[r])
          /\ ToSet(waitq'[r]) = IF r \in {q} THEN ToSet(waitq[r]) \cup {current}
                                ELSE ToSet(waitq[r])
    BY <1>1, <1>3, <1>4 DEF TypeOK
  <2>2. QED
    BY <1>1, <1>2, <1>3, <2>1, SuspendSet
<1>7. QED
  BY <1>1, <1>2, <1>5, <1>6 DEF NoDeadlockPanic, IdleLives

LEMMA TimedWaitInv ==
  ASSUME NEW q \in WaitQueues, NEW d \in 1..MaxDelay, Inv, TimedWait(q, d)
  PROVE  Inv'
<1> USE DEF Inv
<1>1. /\ Suspendable /\ ResumeNext(QRemove(current, readyq))
      /\ left' = [left EXCEPT ![current] = d]
      /\ didNotTimeout' = [didNotTimeout EXCEPT ![current] = TRUE]
      /\ waitq' = [waitq EXCEPT ![q] = WaitInsert(current, @)]
      /\ sleepq' = SleepInsert(current, d, sleepq)
      /\ scan' \in {PrioPassed(current, waitq[q]), SleepPassed(d, sleepq)}
      /\ UNCHANGED stage
  BY DEF TimedWait, Calling, HandingOff
<1>2. /\ readyq' \in Seq(Threads) /\ IsInjective(readyq')
      /\ ToSet(readyq') = ToSet(readyq) \ {current}
      /\ waking' = {} /\ mode' = "run"
      /\ current' \in ToSet(readyq') /\ current' \in Threads
      /\ quantum' \in Nat /\ pit' \in Nat /\ Idle \in ToSet(readyq')
  BY <1>1, SuspendReady DEF Suspendable
<1>3. /\ current \in Threads /\ current \in ToSet(readyq)
      /\ stage[current] = "live" /\ current \notin ToSet(sleepq)
      /\ sleepq \in Seq(Threads) /\ IsInjective(sleepq)
      /\ \A r \in WaitQueues : /\ IsInjective(waitq[r])
                                /\ waitq[r] \in Seq(Threads)
                                /\ current \notin ToSet(waitq[r])
  BY <1>1 DEF Suspendable, TypeOK, Placement, NoDeadlockPanic, NoDuplicates, OnWaitQueue
<1>4. /\ WaitInsert(current, waitq[q]) \in Seq(Threads)
      /\ IsInjective(WaitInsert(current, waitq[q]))
      /\ ToSet(WaitInsert(current, waitq[q])) = ToSet(waitq[q]) \cup {current}
  BY <1>3, WaitInsertSpec
<1>5. /\ sleepq' \in Seq(Threads) /\ IsInjective(sleepq')
      /\ ToSet(sleepq') = ToSet(sleepq) \cup {current}
  BY <1>1, <1>3, SleepInsertSpec
<1>6. TypeOK'
  <2>1. scan' \in Nat
    BY <1>1, <1>3, PrioPassedNat, SleepPassedNat
  <2>2. d \in 0..MaxDelay
    BY ThreadsAssumption
  <2>3. QED
    BY <1>1, <1>2, <1>3, <1>4, <1>5, <2>1, <2>2 DEF TypeOK
<1>7. Placement'
  <2>1. \A r \in WaitQueues :
          /\ IsInjective(waitq'[r])
          /\ ToSet(waitq'[r]) = IF r \in {q} THEN ToSet(waitq[r]) \cup {current}
                                ELSE ToSet(waitq[r])
    BY <1>1, <1>3, <1>4 DEF TypeOK
  <2>2. QED
    BY <1>1, <1>2, <1>3, <1>5, <2>1, SuspendSet
<1>8. QED
  BY <1>1, <1>2, <1>6, <1>7 DEF NoDeadlockPanic, IdleLives

(* The thread a wake-up takes off a queue, and the ready queue it makes.   *)
LEMMA WakeReady ==
  ASSUME Inv, NEW t \in Threads, t \in ToSet(sleepq) \/ OnWaitQueue(t)
  PROVE  /\ WakeInto(t) \in Seq(Threads) /\ IsInjective(WakeInto(t))
         /\ ToSet(WakeInto(t)) = ToSet(readyq) \cup {t}
         /\ current \in ToSet(WakeInto(t))
         /\ PrioPassed(t, readyq) \in Nat
<1>1. /\ readyq \in Seq(Threads) /\ IsInjective(readyq)
      /\ current \in ToSet(readyq) /\ t \notin ToSet(readyq)
  BY DEF Inv, TypeOK, Placement, NoDuplicates, NoDeadlockPanic
<1>2. QED
  BY <1>1, WaitInsertSpec, PrioPassedNat DEF WakeInto

LEMMA WaiterWaits ==
  ASSUME TypeOK, NEW q \in WaitQueues, waitq[q] # <<>>
  PROVE  Head(waitq[q]) \in Threads /\ OnWaitQueue(Head(waitq[q]))
<1>1. waitq[q] \in Seq(Threads)
  BY DEF TypeOK
<1>2. QED
  BY <1>1, HeadInSet DEF OnWaitQueue

LEMMA SignalInv == ASSUME NEW q \in WaitQueues, Inv, Signal(q) PROVE Inv'
<1> USE DEF Inv
<1> DEFINE t == Head(waitq[q])
<1>1. /\ WakeOff(t) /\ YieldIfNecessary(WakeInto(t), PrioPassed(t, readyq))
      /\ UNCHANGED <<left, didNotTimeout, stage>>
  BY DEF Signal
<1>2. t \in Threads /\ OnWaitQueue(t)
  BY WaiterWaits DEF Signal
<1> HIDE DEF t
<1>3. /\ WakeInto(t) \in Seq(Threads) /\ IsInjective(WakeInto(t))
      /\ ToSet(WakeInto(t)) = ToSet(readyq) \cup {t}
      /\ current \in ToSet(WakeInto(t)) /\ PrioPassed(t, readyq) \in Nat
  BY <1>2, WakeReady
<1>4. /\ readyq' \in Seq(Threads) /\ IsInjective(readyq')
      /\ ToSet(readyq') = ToSet(readyq) \cup {t}
      /\ waking' = {} /\ mode' = "run"
      /\ current' \in ToSet(readyq') /\ current' \in Threads
      /\ quantum' \in Nat /\ pit' \in Nat /\ scan' \in Nat
  BY <1>1, <1>3, YieldIfNecessarySpec
<1>5. /\ Placement' /\ sleepq' \in Seq(Threads)
      /\ waitq' \in [WaitQueues -> Seq(Threads)]
  BY <1>1, <1>2, <1>4, WakeSet
<1>6. TypeOK'
  BY <1>1, <1>4, <1>5 DEF TypeOK
<1>7. QED
  BY <1>1, <1>4, <1>5, <1>6 DEF NoDeadlockPanic, IdleLives

LEMMA BroadcastBeginInv ==
  ASSUME NEW q \in WaitQueues, Inv, BroadcastBegin(q) PROVE Inv'
<1> USE DEF Inv
<1>1. TypeOK'
  BY DEF BroadcastBegin, TypeOK, Stages
<1>2. Placement'
  <2>1. \A t \in Threads :
          /\ stage'[t] \in {"new", "gone"} <=> stage[t] \in {"new", "gone"}
          /\ stage'[t] # "live" => stage[t] # "live"
    BY DEF BroadcastBegin, TypeOK
  <2>2. UNCHANGED <<sleepq, waitq, readyq>>
    BY DEF BroadcastBegin
  <2>3. QED
    BY <2>1, <2>2, KeepSet DEF Placement, NoDuplicates
<1>3. QED
  BY <1>1, <1>2, ThreadsAssumption
  DEF BroadcastBegin, NoDeadlockPanic, IdleLives, TypeOK

LEMMA BroadcastWakeInv == ASSUME Inv, BroadcastWake PROVE Inv'
<1> USE DEF Inv
<1>1. PICK q \in waking :
        /\ waitq[q] # <<>>
        /\ WakeOff(Head(waitq[q]))
        /\ readyq' = WakeInto(Head(waitq[q]))
        /\ scan' = PrioPassed(Head(waitq[q]), readyq)
  BY DEF BroadcastWake
<1>2. UNCHANGED <<current, left, didNotTimeout, quantum, pit, mode, waking, stage>>
  BY DEF BroadcastWake
<1> DEFINE t == Head(waitq[q])
<1>3. t \in Threads /\ OnWaitQueue(t)
  BY <1>1, WaiterWaits DEF TypeOK
<1>4. WakeOff(t) /\ readyq' = WakeInto(t) /\ scan' = PrioPassed(t, readyq)
  BY <1>1
<1> HIDE DEF t
<1>5. /\ WakeInto(t) \in Seq(Threads) /\ IsInjective(WakeInto(t))
      /\ ToSet(WakeInto(t)) = ToSet(readyq) \cup {t}
      /\ current \in ToSet(WakeInto(t)) /\ PrioPassed(t, readyq) \in Nat
  BY <1>3, WakeReady
<1>6. /\ Placement' /\ sleepq' \in Seq(Threads)
      /\ waitq' \in [WaitQueues -> Seq(Threads)]
  BY <1>2, <1>3, <1>4, <1>5, WakeSet
<1>7. TypeOK'
  BY <1>2, <1>4, <1>5, <1>6 DEF TypeOK
<1>8. QED
  BY <1>2, <1>4, <1>5, <1>6, <1>7 DEF NoDeadlockPanic, IdleLives

LEMMA HandOffInv == ASSUME NEW q \in WaitQueues, Inv, HandOff(q) PROVE Inv'
<1> USE DEF Inv
<1> DEFINE t == Head(waitq[q])
<1>1. /\ WakeOff(t) /\ readyq' = WakeInto(t) /\ scan' = PrioPassed(t, readyq)
      /\ mode' = "handoff" /\ waking' = {q}
      /\ UNCHANGED <<current, left, didNotTimeout, quantum, pit, stage>>
  BY DEF HandOff
<1>2. t \in Threads /\ OnWaitQueue(t)
  BY WaiterWaits DEF HandOff
<1> HIDE DEF t
<1>3. /\ WakeInto(t) \in Seq(Threads) /\ IsInjective(WakeInto(t))
      /\ ToSet(WakeInto(t)) = ToSet(readyq) \cup {t}
      /\ current \in ToSet(WakeInto(t)) /\ PrioPassed(t, readyq) \in Nat
  BY <1>2, WakeReady
<1>4. /\ Placement' /\ sleepq' \in Seq(Threads)
      /\ waitq' \in [WaitQueues -> Seq(Threads)]
  BY <1>1, <1>2, <1>3, WakeSet
<1>5. TypeOK'
  BY <1>1, <1>3, <1>4 DEF TypeOK
<1>6. QED
  BY <1>1, <1>3, <1>4, <1>5 DEF NoDeadlockPanic, IdleLives

LEMMA BroadcastEndInv == ASSUME Inv, BroadcastEnd PROVE Inv'
<1> USE DEF Inv
<1>1. /\ YieldIfNecessary(readyq, scan)
      /\ UNCHANGED <<sleepq, waitq, left, didNotTimeout, stage>>
      /\ readyq \in Seq(Threads) /\ IsInjective(readyq) /\ scan \in Nat
      /\ current \in ToSet(readyq)
  BY DEF BroadcastEnd, TypeOK, Placement, NoDuplicates, NoDeadlockPanic
<1>2. /\ readyq' \in Seq(Threads) /\ IsInjective(readyq')
      /\ ToSet(readyq') = ToSet(readyq) /\ waking' = {} /\ mode' = "run"
      /\ current' \in ToSet(readyq') /\ current' \in Threads
      /\ quantum' \in Nat /\ pit' \in Nat /\ scan' \in Nat
  BY <1>1, YieldIfNecessarySpec
<1>3. TypeOK'
  BY <1>1, <1>2 DEF TypeOK
<1>4. Placement'
  BY <1>1, <1>2, KeepSet
<1>5. QED
  BY <1>1, <1>2, <1>3, <1>4 DEF NoDeadlockPanic, IdleLives

LEMMA StartInv == ASSUME NEW t \in Threads, Inv, Start(t) PROVE Inv'
<1> USE DEF Inv
<1>1. /\ YieldIfNecessary(WakeInto(t), PrioPassed(t, readyq))
      /\ stage[t] = "new" /\ stage' = [stage EXCEPT ![t] = "live"]
      /\ UNCHANGED <<sleepq, waitq, left, didNotTimeout>>
  BY DEF Start
<1>2. /\ readyq \in Seq(Threads) /\ IsInjective(readyq)
      /\ current \in ToSet(readyq) /\ t \notin ToSet(readyq)
      /\ t \notin ToSet(sleepq) /\ ~OnWaitQueue(t)
  BY <1>1 DEF TypeOK, Placement, NoDuplicates, NoDeadlockPanic
<1>3. /\ WakeInto(t) \in Seq(Threads) /\ IsInjective(WakeInto(t))
      /\ ToSet(WakeInto(t)) = ToSet(readyq) \cup {t}
      /\ PrioPassed(t, readyq) \in Nat
  BY <1>2, WaitInsertSpec, PrioPassedNat DEF WakeInto
<1>4. /\ readyq' \in Seq(Threads) /\ IsInjective(readyq')
      /\ ToSet(readyq') = ToSet(readyq) \cup {t}
      /\ waking' = {} /\ mode' = "run"
      /\ current' \in ToSet(readyq') /\ current' \in Threads
      /\ quantum' \in Nat /\ pit' \in Nat /\ scan' \in Nat
  BY <1>1, <1>2, <1>3, YieldIfNecessarySpec
<1>5. TypeOK'
  BY <1>1, <1>4 DEF TypeOK, Stages
<1>6. Placement'
  <2>1. NoDuplicates' /\ OneWaitQueue'
    BY <1>1, <1>4 DEF Placement, NoDuplicates, OneWaitQueue
  <2>2. \A u \in Threads : OnWaitQueue(u)' <=> OnWaitQueue(u)
    BY <1>1 DEF OnWaitQueue
  <2>3. \A u \in Threads : stage'[u] = IF u = t THEN "live" ELSE stage[u]
    BY <1>1 DEF TypeOK
  <2>4. QED
    BY <1>1, <1>2, <1>4, <2>1, <2>2, <2>3 DEF Placement
<1>7. QED
  BY <1>1, <1>4, <1>5, <1>6 DEF NoDeadlockPanic, IdleLives, TypeOK

LEMMA TerminateInv == ASSUME Inv, Terminate PROVE Inv'
<1> USE DEF Inv
<1>1. TypeOK'
  BY DEF Terminate, TypeOK, Stages
<1>2. Placement'
  <2>1. \A t \in Threads :
          /\ stage'[t] \in {"new", "gone"} <=> stage[t] \in {"new", "gone"}
          /\ stage'[t] # "live" => stage[t] # "live" \/ t \in ToSet(readyq)
    BY DEF Terminate, TypeOK, Calling, Suspendable, NoDeadlockPanic
  <2>2. UNCHANGED <<sleepq, waitq, readyq>>
    BY DEF Terminate
  <2>3. QED
    BY <2>1, <2>2, KeepSet DEF Placement, NoDuplicates
<1>3. QED
  BY <1>1, <1>2, ThreadsAssumption
  DEF Terminate, Calling, Suspendable, NoDeadlockPanic, IdleLives, TypeOK

LEMMA LeaveInv == ASSUME Inv, Leave PROVE Inv'
<1> USE DEF Inv
<1>1. /\ ResumeNext(QRemove(current, readyq)) /\ scan' = 0
      /\ stage[current] = "announced"
      /\ stage' = [stage EXCEPT ![current] = "gone"]
      /\ UNCHANGED <<sleepq, waitq, left, didNotTimeout>>
  BY DEF Leave
<1>2. /\ current \in Threads /\ current # Idle
      /\ current \notin ToSet(sleepq) /\ ~OnWaitQueue(current)
      /\ readyq \in Seq(Threads) /\ IsInjective(readyq)
  BY <1>1 DEF IdleLives, TypeOK, Placement, NoDuplicates
<1>3. /\ QRemove(current, readyq) \in Seq(Threads)
      /\ IsInjective(QRemove(current, readyq))
      /\ ToSet(QRemove(current, readyq)) = ToSet(readyq) \ {current}
  BY <1>2, QRemoveSpec
<1>4. Idle \in ToSet(QRemove(current, readyq))
  BY <1>2, <1>3 DEF NoDeadlockPanic
<1>5. /\ readyq' \in Seq(Threads) /\ IsInjective(readyq')
      /\ ToSet(readyq') = ToSet(readyq) \ {current}
      /\ waking' = {} /\ mode' = "run"
      /\ current' \in ToSet(readyq') /\ current' \in Threads
      /\ quantum' \in Nat /\ pit' \in Nat /\ Idle \in ToSet(readyq')
  BY <1>1, <1>3, <1>4, ResumeNextSpec
<1>6. TypeOK'
  BY <1>1, <1>2, <1>5 DEF TypeOK, Stages
<1>7. Placement'
  <2>1. NoDuplicates' /\ OneWaitQueue'
    BY <1>1, <1>5 DEF Placement, NoDuplicates, OneWaitQueue
  <2>2. \A u \in Threads : OnWaitQueue(u)' <=> OnWaitQueue(u)
    BY <1>1 DEF OnWaitQueue
  <2>3. \A u \in Threads : stage'[u] = IF u = current THEN "gone" ELSE stage[u]
    BY <1>1 DEF TypeOK
  <2>4. QED
    BY <1>1, <1>2, <1>5, <2>1, <2>2, <2>3 DEF Placement
<1>8. QED
  BY <1>1, <1>2, <1>5, <1>6, <1>7, ThreadsAssumption
  DEF NoDeadlockPanic, IdleLives, TypeOK

(* Steps that move no thread at all.                                       *)
LEMMA StillInv ==
  ASSUME Inv, UNCHANGED <<current, readyq, sleepq, waitq, stage>>,
         TypeOK', mode' # "panic"
  PROVE  Inv'
<1>1. Placement'
  BY KeepSet DEF Inv, Placement, NoDuplicates
<1>2. QED
  BY <1>1 DEF Inv, NoDeadlockPanic, IdleLives

LEMMA ClockInv ==
  ASSUME Inv, Tick \/ PitPulse \/ TimerBegin \/ HandOffEnd
  PROVE  Inv'
<1>1. CASE Tick
  <2>1. TypeOK'
    <3>1. /\ left' = [t \in Threads |-> IF left[t] > 0 THEN left[t] - 1 ELSE 0]
          /\ quantum' = IF quantum > 0 THEN quantum - 1 ELSE 0
          /\ UNCHANGED <<current, readyq, sleepq, waitq, didNotTimeout, pit,
                         mode, waking, scan, stage>>
      BY <1>1 DEF Tick
    <3>2. \A t \in Threads : left[t] \in 0..MaxDelay
      BY DEF Inv, TypeOK
    <3>3. left' \in [Threads -> 0..MaxDelay]
      BY <3>1, <3>2, ThreadsAssumption
    <3>4. quantum' \in Nat
      BY <3>1 DEF Inv, TypeOK
    <3>5. QED
      BY <3>1, <3>3, <3>4 DEF Inv, TypeOK
  <2>2. QED
    BY <1>1, <2>1, StillInv DEF Inv, Tick, NoDeadlockPanic
<1>2. CASE PitPulse
  <2>1. TypeOK'
    BY <1>2 DEF Inv, PitPulse, TypeOK
  <2>2. QED
    BY <1>2, <2>1, StillInv DEF Inv, PitPulse, NoDeadlockPanic
<1>3. CASE TimerBegin
  <2>1. TypeOK'
    BY <1>3 DEF Inv, TimerBegin, TypeOK
  <2>2. QED
    BY <1>3, <2>1, StillInv DEF Inv, TimerBegin
<1>4. CASE HandOffEnd
  <2>1. TypeOK'
    BY <1>4 DEF Inv, HandOffEnd, TypeOK
  <2>2. QED
    BY <1>4, <2>1, StillInv DEF Inv, HandOffEnd
<1>5. QED
  BY <1>1, <1>2, <1>3, <1>4

LEMMA TimerWakeInv == ASSUME Inv, TimerWake PROVE Inv'
<1> USE DEF Inv
<1> DEFINE t == Head(sleepq)
<1>1. /\ WakeOff(t) /\ readyq' = WakeInto(t) /\ scan' = PrioPassed(t, readyq)
      /\ didNotTimeout' = [didNotTimeout EXCEPT ![t] = FALSE]
      /\ UNCHANGED <<current, left, quantum, pit, mode, waking, stage>>
  BY DEF TimerWake
<1>2. t \in Threads /\ t \in ToSet(sleepq)
  BY HeadInSet DEF TimerWake, Expired, TypeOK
<1> HIDE DEF t
<1>3. /\ WakeInto(t) \in Seq(Threads) /\ IsInjective(WakeInto(t))
      /\ ToSet(WakeInto(t)) = ToSet(readyq) \cup {t}
      /\ current \in ToSet(WakeInto(t)) /\ PrioPassed(t, readyq) \in Nat
  BY <1>2, WakeReady
<1>4. /\ Placement' /\ sleepq' \in Seq(Threads)
      /\ waitq' \in [WaitQueues -> Seq(Threads)]
  BY <1>1, <1>2, <1>3, WakeSet
<1>5. TypeOK'
  BY <1>1, <1>2, <1>3, <1>4 DEF TypeOK
<1>6. QED
  BY <1>1, <1>3, <1>4, <1>5 DEF NoDeadlockPanic, IdleLives

LEMMA TimerEndInv == ASSUME Inv, TimerEnd PROVE Inv'
<1> USE DEF Inv
<1>1. CASE quantum > 0
  <2>1. /\ UNCHANGED <<current, readyq, sleepq, waitq, stage>>
        /\ mode' = "run" /\ TypeOK'
    BY <1>1 DEF TimerEnd, SetTimer, TypeOK
  <2>2. QED
    BY <2>1, StillInv
<1>2. CASE ~(quantum > 0)
  <2>1. /\ SwitchToNext(readyq) /\ IsInjective(readyq)
        /\ UNCHANGED <<sleepq, waitq, left, didNotTimeout, stage>>
    BY <1>2 DEF TimerEnd, SetTimer, Placement, NoDuplicates
  <2>2. /\ readyq' \in Seq(Threads) /\ IsInjective(readyq')
        /\ ToSet(readyq') = ToSet(readyq) /\ waking' = {} /\ mode' = "run"
        /\ current' \in ToSet(readyq') /\ current' \in Threads
        /\ quantum' \in Nat /\ pit' \in Nat /\ scan' \in Nat
    BY <2>1, SwitchToNextSpec
  <2>3. TypeOK'
    BY <2>1, <2>2 DEF TypeOK
  <2>4. Placement'
    BY <2>1, <2>2, KeepSet
  <2>5. QED
    BY <2>1, <2>2, <2>3, <2>4 DEF NoDeadlockPanic, IdleLives
<1>3. QED
  BY <1>1, <1>2

LEMMA NextInv == Inv /\ [Next]_vars => Inv'
<1> SUFFICES ASSUME Inv, [Next]_vars PROVE Inv'
  OBVIOUS
<1>1. CASE Yield
  BY <1>1, YieldInv
<1>2. CASE \E d \in 0..MaxDelay : Sleep(d)
  BY <1>2, SleepInv
<1>3. CASE \E q \in WaitQueues :
             Wait(q) \/ Signal(q) \/ BroadcastBegin(q) \/ HandOff(q)
  BY <1>3, WaitInv, SignalInv, BroadcastBeginInv, HandOffInv
<1>4. CASE \E q \in WaitQueues, d \in 1..MaxDelay : TimedWait(q, d)
  BY <1>4, TimedWaitInv
<1>5. CASE BroadcastWake \/ BroadcastEnd
  BY <1>5, BroadcastWakeInv, BroadcastEndInv
<1>6. CASE \E t \in Threads : Start(t)
  BY <1>6, StartInv
<1>7. CASE Terminate \/ Leave
  BY <1>7, TerminateInv, LeaveInv
<1>8. CASE Tick \/ PitPulse \/ TimerBegin \/ HandOffEnd
  BY <1>8, ClockInv
<1>9. CASE TimerWake \/ TimerEnd
  BY <1>9, TimerWakeInv, TimerEndInv
<1>10. CASE UNCHANGED vars
  <2>1. UNCHANGED <<current, readyq, sleepq, waitq, left, didNotTimeout, quantum,
                    pit, mode, waking, scan, stage>>
    BY <1>10 DEF vars
  <2>2. TypeOK' /\ mode' # "panic"
    BY <2>1 DEF Inv, TypeOK, NoDeadlockPanic
  <2>3. QED
    BY <2>1, <2>2, StillInv
<1>11. QED
  BY <1>1, <1>2, <1>3, <1>4, <1>5, <1>6, <1>7, <1>8, <1>9, <1>10 DEF Next

-----------------------------------------------------------------------------

LEMMA Safety == Spec => []Inv
<1>1. QED
  BY InitInv, NextInv, PTL DEF Spec

(* The variables of the scheduler always have their types.                 *)
THEOREM TypeCorrect == Spec => []TypeOK
<1>1. Inv => TypeOK
  BY DEF Inv
<1>2. QED
  BY <1>1, Safety, PTL

(* Every thread that has started and not left is in exactly one place: no  *)
(* sequence of suspensions, signals, broadcasts and timeouts loses it or   *)
(* queues it twice.                                                        *)
THEOREM NoThreadLost == Spec => []Placement
<1>1. Inv => Placement
  BY DEF Inv
<1>2. QED
  BY <1>1, Safety, PTL

(* "Deadlock detected" is never raised: the ready queue always holds the   *)
(* idle thread, and the thread that runs.                                  *)
THEOREM NeverPanics == Spec => []NoDeadlockPanic
<1>1. Inv => NoDeadlockPanic
  BY DEF Inv
<1>2. QED
  BY <1>1, Safety, PTL

-----------------------------------------------------------------------------
(* What a step may never do.  The order of the queues is what the action   *)
(* properties rest on: the ready queue by priority, the sleep queue by the *)
(* time left, which Sleep and TimedWait change only for a thread that does *)
(* not sleep, and Tick changes for all without changing the order.         *)

ByPrio == {p \in Threads \X Threads : Prio[p[1]] >= Prio[p[2]]}
Soonest(l) == {p \in Threads \X Threads : l[p[1]] <= l[p[2]]}

InOrder == Ordered(readyq, ByPrio) /\ Ordered(sleepq, Soonest(left))

LEMMA WaitInsertOrdered ==
  ASSUME NEW q \in Seq(Threads), NEW t \in Threads, Ordered(q, ByPrio)
  PROVE  Ordered(WaitInsert(t, q), ByPrio)
<1>1. \A a, b \in Threads : <<a, b>> \in ByPrio <=> Prio[a] >= Prio[b]
  BY DEF ByPrio
<1>2. \A a \in Threads : Prio[a] \in Nat
  BY ThreadsAssumption
<1>3. \A a, b, c \in Threads :
        <<a, b>> \in ByPrio /\ <<b, c>> \in ByPrio => <<a, c>> \in ByPrio
  BY <1>1, <1>2
<1>4. \A a \in Threads : IF a \in Outranked(t) THEN <<t, a>> \in ByPrio
                                            ELSE <<a, t>> \in ByPrio
  BY <1>1, <1>2 DEF Outranked
<1>5. QED
  BY <1>3, <1>4, InsertOrdered DEF WaitInsert

(* Nothing but the time left of the threads that sleep matters.            *)
LEMMA SoonestOf ==
  ASSUME NEW q \in Seq(Threads), NEW l, NEW k, Ordered(q, Soonest(l)),
         \A t, u \in ToSet(q) : l[t] <= l[u] => k[t] <= k[u]
  PROVE  Ordered(q, Soonest(k))
<1>1. \A i \in DOMAIN q : q[i] \in Threads /\ q[i] \in ToSet(q)
  BY ElementOfSeq, LenProperties DEF ToSet
<1>2. ASSUME NEW i \in DOMAIN q, NEW j \in DOMAIN q, i < j
      PROVE  <<q[i], q[j]>> \in Soonest(k)
  <2>1. <<q[i], q[j]>> \in Soonest(l)
    BY <1>2 DEF Ordered
  <2>2. QED
    BY <1>1, <2>1 DEF Soonest
<1>3. QED
  BY <1>2 DEF Ordered

LEMMA SleepInsertOrdered ==
  ASSUME TypeOK, NEW t \in Threads, t \notin ToSet(sleepq), NEW d \in 0..MaxDelay,
         Ordered(sleepq, Soonest(left)), left' = [left EXCEPT ![t] = d]
  PROVE  Ordered(SleepInsert(t, d, sleepq), Soonest(left'))
<1>1. /\ sleepq \in Seq(Threads) /\ ToSet(sleepq) \subseteq Threads
      /\ left' \in [Threads -> Int] /\ d \in Int
      /\ \A a \in Threads : left'[a] = IF a = t THEN d ELSE left[a]
  BY SetOfSeq, ThreadsAssumption DEF TypeOK
<1>2. Ordered(sleepq, Soonest(left'))
  BY <1>1, SoonestOf
<1>3. PICK l \in [Threads -> Int] : l = left'
  BY <1>1
<1>4. \A a, b \in Threads : <<a, b>> \in Soonest(l) <=> l[a] <= l[b]
  BY DEF Soonest
<1>5. \A a \in Threads : l[a] \in Int
  BY <1>3
<1>6. \A a, b, c \in Threads : <<a, b>> \in Soonest(l) /\ <<b, c>> \in Soonest(l)
                                => <<a, c>> \in Soonest(l)
  BY <1>4, <1>5
<1>7. \A a \in Threads : IF a \in LaterThan(d) THEN <<t, a>> \in Soonest(l)
                                              ELSE <<a, t>> \in Soonest(l)
  <2> SUFFICES ASSUME NEW a \in Threads
               PROVE  IF a \in LaterThan(d) THEN <<t, a>> \in Soonest(l)
                                             ELSE <<a, t>> \in Soonest(l)
    OBVIOUS
  <2>1. l[t] = d /\ (a = t \/ l[a] = left[a])
    BY <1>1, <1>3
  <2>2. a \in LaterThan(d) <=> d < left[a]
    BY DEF LaterThan
  <2>3. QED
    BY <1>1, <1>4, <1>5, <2>1, <2>2
<1>8. QED
  BY <1>1, <1>2, <1>3, <1>6, <1>7, InsertOrdered DEF SleepInsert

(* The thread that a step resumes is the head of the ready queue it leaves.*)
Resumed == current' # current => readyq' # <<>> /\ current' = Head(readyq')

LEMMA ResumeNextOrdered ==
  ASSUME NEW rq, rq # <<>>, Ordered(rq, ByPrio), ResumeNext(rq)
  PROVE  Ordered(readyq', ByPrio) /\ Resumed
BY DEF ResumeNext, Resumed

LEMMA RequeueOrdered ==
  ASSUME NEW rq \in Seq(Threads), Ordered(rq, ByPrio), current \in Threads,
         ResumeNext(WaitInsert(current, QRemove(current, rq)))
  PROVE  Ordered(readyq', ByPrio) /\ Resumed
<1> DEFINE rest == QRemove(current, rq)
<1>1. rest \in Seq(Threads) /\ Ordered(rest, ByPrio)
  BY QRemoveSpec, RemoveOrdered
<1> HIDE DEF rest
<1>2. WaitInsert(current, rest) # <<>> /\ Ordered(WaitInsert(current, rest), ByPrio)
  BY <1>1, WaitInsertSpec, WaitInsertOrdered
<1>3. ResumeNext(WaitInsert(current, rest))
  BY DEF rest
<1>4. QED
  BY <1>2, <1>3, ResumeNextOrdered

LEMMA YieldIfNecessaryOrdered ==
  ASSUME NEW rq \in Seq(Threads), Ordered(rq, ByPrio), current \in Threads,
         NEW n, YieldIfNecessary(rq, n)
  PROVE  Ordered(readyq', ByPrio) /\ Resumed
<1>1. CASE Head(rq) = current
  BY <1>1 DEF YieldIfNecessary, Resumed
<1>2. CASE Head(rq) # current
  <2>1. ResumeNext(WaitInsert(current, QRemove(current, rq)))
    BY <1>2 DEF YieldIfNecessary
  <2>2. QED
    BY <2>1, RequeueOrdered
<1>3. QED
  BY <1>1, <1>2

LEMMA WakeIntoOrdered ==
  ASSUME TypeOK, NEW t \in Threads, Ordered(readyq, ByPrio)
  PROVE  WakeInto(t) \in Seq(Threads) /\ Ordered(WakeInto(t), ByPrio)
BY WaitInsertSpec, WaitInsertOrdered DEF WakeInto, TypeOK

LEMMA SuspendOrdered ==
  ASSUME Inv, Ordered(readyq, ByPrio), current # Idle,
         ResumeNext(QRemove(current, readyq))
  PROVE  Ordered(readyq', ByPrio) /\ Resumed
<1>1. /\ readyq \in Seq(Threads) /\ IsInjective(readyq)
      /\ Idle \in ToSet(readyq)
  BY DEF Inv, TypeOK, Placement, NoDuplicates, NoDeadlockPanic
<1>2. Idle \in ToSet(QRemove(current, readyq))
  BY <1>1, QRemoveSpec
<1>3. QRemove(current, readyq) # <<>>
  BY <1>2 DEF ToSet
<1>4. QED
  BY <1>1, <1>3, RemoveOrdered, ResumeNextOrdered

LEMMA ReadyStep ==
  ASSUME Inv, Ordered(readyq, ByPrio), [Next]_vars
  PROVE  Ordered(readyq', ByPrio) /\ Resumed
<1>1. current \in Threads /\ readyq \in Seq(Threads)
  BY DEF Inv, TypeOK
<1>2. ASSUME SwitchToNext(readyq) PROVE Ordered(readyq', ByPrio) /\ Resumed
  BY <1>1, <1>2, RequeueOrdered DEF SwitchToNext
<1>3. ASSUME ResumeNext(QRemove(current, readyq)), Suspendable
      PROVE  Ordered(readyq', ByPrio) /\ Resumed
  BY <1>3, SuspendOrdered DEF Suspendable
<1>4. ASSUME UNCHANGED <<readyq, current>>
      PROVE  Ordered(readyq', ByPrio) /\ Resumed
  BY <1>4 DEF Resumed
<1>5. ASSUME NEW t \in Threads, readyq' = WakeInto(t), current' = current
      PROVE  Ordered(readyq', ByPrio) /\ Resumed
  BY <1>5, WakeIntoOrdered DEF Inv, Resumed
<1>6. ASSUME NEW t \in Threads, NEW n, YieldIfNecessary(WakeInto(t), n)
      PROVE  Ordered(readyq', ByPrio) /\ Resumed
  BY <1>1, <1>6, WakeIntoOrdered, YieldIfNecessaryOrdered DEF Inv
<1>7. CASE Yield
  BY <1>2, <1>7 DEF Yield
<1>8. CASE \E d \in 0..MaxDelay : Sleep(d)
  BY <1>3, <1>8 DEF Sleep, Calling
<1>9. CASE \E q \in WaitQueues : Wait(q)
  BY <1>3, <1>9 DEF Wait, Calling, HandingOff
<1>10. CASE \E q \in WaitQueues, d \in 1..MaxDelay : TimedWait(q, d)
  BY <1>3, <1>10 DEF TimedWait, Calling, HandingOff
<1>11. CASE \E q \in WaitQueues : Signal(q)
  BY <1>6, <1>11, WaiterWaits DEF Signal, Inv
<1>12. CASE \E q \in WaitQueues : HandOff(q)
  BY <1>5, <1>12, WaiterWaits DEF HandOff, Inv
<1>13. CASE BroadcastWake
  <2>1. PICK q \in waking : waitq[q] # <<>> /\ readyq' = WakeInto(Head(waitq[q]))
    BY <1>13 DEF BroadcastWake
  <2>2. Head(waitq[q]) \in Threads /\ current' = current
    BY <1>13, <2>1, WaiterWaits DEF BroadcastWake, Inv, TypeOK
  <2>3. QED
    BY <1>5, <2>1, <2>2
<1>14. CASE BroadcastEnd
  BY <1>1, <1>14, YieldIfNecessaryOrdered DEF BroadcastEnd
<1>15. CASE \E t \in Threads : Start(t)
  BY <1>6, <1>15 DEF Start
<1>16. CASE Leave
  BY <1>16, SuspendOrdered DEF Leave, Inv, IdleLives
<1>17. CASE TimerWake
  <2>1. /\ Head(sleepq) \in Threads /\ readyq' = WakeInto(Head(sleepq))
        /\ current' = current
    BY <1>17, HeadInSet DEF TimerWake, Expired, Inv, TypeOK
  <2>2. QED
    BY <1>5, <2>1
<1>18. CASE TimerEnd
  BY <1>2, <1>4, <1>18 DEF TimerEnd
<1>19. CASE \/ Tick \/ PitPulse \/ TimerBegin \/ HandOffEnd \/ Terminate
            \/ \E q \in WaitQueues : BroadcastBegin(q)
  BY <1>4, <1>19
  DEF Tick, PitPulse, TimerBegin, HandOffEnd, Terminate, BroadcastBegin
<1>20. CASE UNCHANGED vars
  BY <1>4, <1>20 DEF vars
<1>21. QED
  BY <1>7, <1>8, <1>9, <1>10, <1>11, <1>12, <1>13, <1>14, <1>15, <1>16, <1>17,
     <1>18, <1>19, <1>20 DEF Next

LEMMA SleepStep ==
  ASSUME Inv, Ordered(sleepq, Soonest(left)), [Next]_vars
  PROVE  Ordered(sleepq', Soonest(left'))
<1>1. /\ sleepq \in Seq(Threads)
      /\ current \notin ToSet(sleepq)
  BY DEF Inv, TypeOK, Placement, NoDeadlockPanic
<1>2. ASSUME UNCHANGED <<sleepq, left>> PROVE Ordered(sleepq', Soonest(left'))
  BY <1>2
<1>3. ASSUME NEW t, WakeOff(t), UNCHANGED left
      PROVE  Ordered(sleepq', Soonest(left'))
  BY <1>1, <1>3, RemoveOrdered DEF WakeOff
<1>4. ASSUME NEW d \in 0..MaxDelay, sleepq' = SleepInsert(current, d, sleepq),
             left' = [left EXCEPT ![current] = d]
      PROVE  Ordered(sleepq', Soonest(left'))
  BY <1>1, <1>4, SleepInsertOrdered DEF Inv, TypeOK
<1>5. CASE \E d \in 0..MaxDelay : Sleep(d)
  BY <1>4, <1>5 DEF Sleep
<1>6. CASE \E q \in WaitQueues, d \in 1..MaxDelay : TimedWait(q, d)
  <2>1. PICK q \in WaitQueues, d \in 1..MaxDelay : TimedWait(q, d)
    BY <1>6
  <2>2. d \in 0..MaxDelay
    BY ThreadsAssumption
  <2>3. QED
    BY <1>4, <2>1, <2>2 DEF TimedWait
<1>7. CASE \E q \in WaitQueues : Signal(q) \/ HandOff(q)
  BY <1>3, <1>7 DEF Signal, HandOff
<1>8. CASE BroadcastWake \/ TimerWake
  BY <1>3, <1>8 DEF BroadcastWake, TimerWake
<1>9. CASE Tick
  <2>1. /\ sleepq' = sleepq /\ ToSet(sleepq) \subseteq Threads
        /\ left' = [t \in Threads |-> IF left[t] > 0 THEN left[t] - 1 ELSE 0]
    BY <1>1, <1>9, SetOfSeq DEF Tick
  <2>2. \A t \in Threads : left[t] \in Nat
    BY ThreadsAssumption DEF Inv, TypeOK
  <2>3. \A t, u \in ToSet(sleepq) : left[t] <= left[u] => left'[t] <= left'[u]
    BY <2>1, <2>2
  <2>4. Ordered(sleepq, Soonest(left'))
    BY <1>1, <2>3, SoonestOf
  <2>5. QED
    BY <2>1, <2>4
<1>10. CASE \/ Yield \/ BroadcastEnd \/ HandOffEnd \/ Terminate \/ Leave
            \/ PitPulse \/ TimerBegin \/ TimerEnd
            \/ \E q \in WaitQueues : Wait(q) \/ BroadcastBegin(q)
            \/ \E t \in Threads : Start(t)
  BY <1>2, <1>10 DEF Yield, BroadcastEnd, HandOffEnd, Terminate, Leave, PitPulse,
                     TimerBegin, TimerEnd, Wait, BroadcastBegin, Start
<1>11. CASE UNCHANGED vars
  BY <1>2, <1>11 DEF vars
<1>12. QED
  BY <1>5, <1>6, <1>7, <1>8, <1>9, <1>10, <1>11 DEF Next

LEMMA AlwaysInOrder == Spec => [](Inv /\ InOrder)
<1>1. Init => Inv /\ InOrder
  <2> SUFFICES ASSUME Init PROVE InOrder
    BY InitInv
  <2>1. /\ Prio[Primordial] >= Prio[Idle] /\ Primordial \in Threads /\ Idle \in Threads
        /\ readyq = <<Primordial, Idle>> /\ sleepq = <<>>
    BY ThreadsAssumption DEF Init
  <2>2. Ordered(readyq, ByPrio)
    BY <2>1 DEF Ordered, ByPrio
  <2>3. Ordered(sleepq, Soonest(left))
    BY <2>1 DEF Ordered
  <2>4. QED
    BY <2>2, <2>3 DEF InOrder
<1>2. Inv /\ InOrder /\ [Next]_vars => (Inv /\ InOrder)'
  BY NextInv, ReadyStep, SleepStep DEF InOrder
<1>3. QED
  BY <1>1, <1>2, PTL DEF Spec

-----------------------------------------------------------------------------
(* A thread is resumed only when no ready thread outranks it: it is the    *)
(* head of a ready queue in order, whichever routine inserted into it.     *)
THEOREM BestRuns == Spec => ResumesBest
<1>1. Inv /\ InOrder /\ Inv' /\ [Next]_vars
        => [current' # current
              => \A t \in ToSet(readyq') : Prio[t] <= Prio[current']]_vars
  <2> SUFFICES ASSUME Inv, InOrder, Inv', [Next]_vars, current' # current,
                      NEW t \in ToSet(readyq')
               PROVE  Prio[t] <= Prio[current']
    OBVIOUS
  <2>1. /\ Ordered(readyq', ByPrio) /\ readyq' # <<>>
        /\ current' = Head(readyq') /\ readyq' \in Seq(Threads)
    BY ReadyStep DEF InOrder, Resumed, Inv, TypeOK
  <2>2. t = Head(readyq') \/ <<Head(readyq'), t>> \in ByPrio
    BY <2>1, HeadIsFirst
  <2>3. Prio[current'] \in Nat
    BY ThreadsAssumption DEF Inv, TypeOK
  <2>4. QED
    BY <2>1, <2>2, <2>3 DEF ByPrio
<1>2. QED
  BY <1>1, AlwaysInOrder, NextInv, PTL DEF Spec, ResumesBest

(* When the timer handler ends, every thread still asleep has time left:   *)
(* it looks only at the head of the sleep queue, which is in order.        *)
THEOREM AllWoken == Spec => TimerWakesAll
<1>1. Inv /\ InOrder /\ [Next]_vars
        => [mode = "timer" /\ mode' = "run"
              => \A t \in ToSet(sleepq') : left'[t] > 0]_vars
  <2> SUFFICES ASSUME Inv, InOrder, [Next]_vars, mode = "timer", mode' = "run",
                      NEW t \in ToSet(sleepq')
               PROVE  left'[t] > 0
    OBVIOUS
  <2>1. TimerEnd
    BY DEF Next, vars, Yield, Sleep, Wait, Signal, BroadcastBegin, HandOff,
           TimedWait, BroadcastWake, BroadcastEnd, HandOffEnd, Start, Terminate,
           Leave, Tick, PitPulse, TimerBegin, TimerWake, Calling, HandingOff, Running
  <2>2. ~Expired /\ sleepq' = sleepq /\ left' = left
    BY <2>1 DEF TimerEnd
  <2>3. sleepq \in Seq(Threads) /\ sleepq # <<>>
    BY <2>2 DEF Inv, TypeOK, ToSet
  <2>4. /\ t = Head(sleepq) \/ <<Head(sleepq), t>> \in Soonest(left)
        /\ t \in Threads /\ Head(sleepq) \in Threads
    BY <2>2, <2>3, HeadIsFirst, HeadInSet, SetOfSeq DEF InOrder
  <2>5. left[t] \in Nat /\ left[Head(sleepq)] \in Nat
    BY <2>4, ThreadsAssumption DEF Inv, TypeOK
  <2>6. QED
    BY <2>2, <2>3, <2>4, <2>5 DEF Expired, Soonest
<1>2. QED
  BY <1>1, AlwaysInOrder, PTL DEF Spec, TimerWakesAll

(* What the routines decide is final: only the timer says that a wait timed*)
(* out, of a thread whose time is up, and who leaves the sleep queue in any*)
(* other way was woken from a wait queue.                                  *)
THEOREM VerdictSettled == Spec => VerdictIsFinal
<1> DEFINE Settled(t) ==
             /\ didNotTimeout[t] /\ ~didNotTimeout'[t]
                  => t \in ToSet(sleepq) /\ left[t] = 0
             /\ t \in ToSet(sleepq) \ ToSet(sleepq')
                  => ~didNotTimeout'[t] \/ OnWaitQueue(t)
<1>1. Inv /\ [Next]_vars => [\A t \in Threads : Settled(t)]_vars
  <2> SUFFICES ASSUME Inv, [Next]_vars, NEW t \in Threads PROVE Settled(t)
    OBVIOUS
  <2>1. ASSUME UNCHANGED <<sleepq, didNotTimeout>> PROVE Settled(t)
    BY <2>1
  <2>2. ASSUME NEW u, OnWaitQueue(u), WakeOff(u), UNCHANGED didNotTimeout
        PROVE  Settled(t)
    <3>1. ToSet(sleepq') = ToSet(sleepq) \ {u}
      BY <2>2, QRemoveSpec DEF WakeOff, Inv, TypeOK, Placement, NoDuplicates
    <3>2. QED
      BY <2>2, <3>1
  <2>3. ASSUME NEW d, sleepq' = SleepInsert(current, d, sleepq),
               \/ UNCHANGED didNotTimeout
               \/ didNotTimeout' = [didNotTimeout EXCEPT ![current] = TRUE]
        PROVE  Settled(t)
    <3>1. ToSet(sleepq) \subseteq ToSet(sleepq')
      BY <2>3, SleepInsertSpec DEF Inv, TypeOK
    <3>2. didNotTimeout[t] => didNotTimeout'[t]
      BY <2>3 DEF Inv, TypeOK
    <3>3. QED
      BY <3>1, <3>2
  <2>4. CASE TimerWake
    <3> DEFINE u == Head(sleepq)
    <3>1. /\ didNotTimeout' = [didNotTimeout EXCEPT ![u] = FALSE]
          /\ sleepq' = QRemove(u, sleepq) /\ left[u] <= 0
      BY <2>4 DEF TimerWake, WakeOff, Expired
    <3>2. /\ u \in ToSet(sleepq) /\ u \in Threads
          /\ ToSet(sleepq') = ToSet(sleepq) \ {u}
      BY <2>4, <3>1, HeadInSet, QRemoveSpec
      DEF TimerWake, Expired, Inv, TypeOK, Placement, NoDuplicates
    <3> HIDE DEF u
    <3>3. left[u] = 0
      BY <3>1, <3>2, ThreadsAssumption DEF Inv, TypeOK
    <3>4. \A v \in Threads : didNotTimeout'[v] = IF v = u THEN FALSE
                                                   ELSE didNotTimeout[v]
      BY <3>1 DEF Inv, TypeOK
    <3>5. QED
      BY <3>2, <3>3, <3>4
  <2>5. CASE \E q \in WaitQueues : Signal(q) \/ HandOff(q)
    BY <2>2, <2>5, WaiterWaits DEF Signal, HandOff, Inv
  <2>6. CASE BroadcastWake
    <3>1. PICK q \in waking : waitq[q] # <<>> /\ WakeOff(Head(waitq[q]))
      BY <2>6 DEF BroadcastWake
    <3>2. OnWaitQueue(Head(waitq[q])) /\ UNCHANGED didNotTimeout
      BY <2>6, <3>1, WaiterWaits DEF BroadcastWake, Inv, TypeOK
    <3>3. QED
      BY <2>2, <3>1, <3>2
  <2>7. CASE \E d \in 0..MaxDelay : Sleep(d)
    BY <2>3, <2>7 DEF Sleep
  <2>8. CASE \E q \in WaitQueues, d \in 1..MaxDelay : TimedWait(q, d)
    BY <2>3, <2>8 DEF TimedWait
  <2>9. CASE \/ Yield \/ BroadcastEnd \/ HandOffEnd \/ Terminate \/ Leave
             \/ Tick \/ PitPulse \/ TimerBegin \/ TimerEnd
             \/ \E q \in WaitQueues : Wait(q) \/ BroadcastBegin(q)
             \/ \E u \in Threads : Start(u)
    BY <2>1, <2>9
    DEF Yield, BroadcastEnd, HandOffEnd, Terminate, Leave, Tick, PitPulse,
        TimerBegin, TimerEnd, Wait, BroadcastBegin, Start
  <2>10. CASE UNCHANGED vars
    BY <2>1, <2>10 DEF vars
  <2>11. QED
    BY <2>4, <2>5, <2>6, <2>7, <2>8, <2>9, <2>10 DEF Next
<1>2. QED
  BY <1>1, Safety, PTL DEF Spec, VerdictIsFinal

=============================================================================
