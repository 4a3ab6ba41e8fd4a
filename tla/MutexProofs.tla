----------------------------- MODULE MutexProofs -----------------------------
(***************************************************************************)
(* Mutexes with timed locks, for any number of threads, mutexes and        *)
(* condition variables, and any timeouts.  Exclusion is lost (see          *)
(* Exclusion below); what is left is that no waiter is forgotten and that  *)
(* nobody is told that it has a mutex which it was not given.              *)
(***************************************************************************)
EXTENDS Mutex, RwMutex, PrioQueueProofs, FiniteSetTheorems, SequenceTheorems,
        TLAPS

MutexOps == {"lock", "lock_or_timeout", "wait"}
TimedOps == {"lock_or_timeout", "wait_or_timeout"}

(* A mutex that is marked as locked has a holder to unlock it.             *)
LockedIsHeld == \A m \in Mutexes : locked[m] => holders[m] # {}

(* Who is queued on a mutex is in a primitive that asks for it, has not    *)
(* been given it, and has not timed out.                                   *)
QueuedWaits ==
  \A m \in Mutexes :
    /\ IsInjective(mq[m])
    /\ \A t \in ToSet(mq[m]) :
         /\ doing[t].op \in MutexOps /\ doing[t].on = m
         /\ t \notin holders[m]
         /\ doing[t].op = "lock_or_timeout" => verdict[t]

(* Who is queued on a condition variable has given its mutex up.           *)
CondWaits ==
  /\ \A c \in Condvars : \A t \in ToSet(cq[c]) :
       doing[t] = Nothing \/ doing[t].op = "wait_or_timeout"
  /\ \A t \in Threads : doing[t].op = "wait_or_timeout" => t \notin holders[doing[t].on]

(* A timeout comes to a thread that still waits.                           *)
AsleepWaits ==
  \A t \in sleeping :
    /\ doing[t].op \in TimedOps
    /\ doing[t].op = "lock_or_timeout" => t \in ToSet(mq[doing[t].on])
    /\ doing[t].op = "wait_or_timeout" => \E c \in Condvars : t \in ToSet(cq[c])

Inv == /\ TypeOK /\ WaitersHaveHolder /\ VerdictIsTrue
       /\ LockedIsHeld /\ QueuedWaits /\ CondWaits /\ AsleepWaits

-----------------------------------------------------------------------------
(* The queues.                                                             *)

LEMMA QHead ==
  ASSUME NEW q \in Seq(Threads), q # <<>>
  PROVE  /\ Head(q) \in ToSet(q) /\ Head(q) \in Threads /\ Tail(q) \in Seq(Threads)
         /\ IsInjective(q) => IsInjective(Tail(q)) /\ ToSet(Tail(q)) = ToSet(q) \ {Head(q)}
         /\ ToSet(Tail(q)) \subseteq ToSet(q) /\ ToSet(q) \ {Head(q)} \subseteq ToSet(Tail(q))
<1>1. /\ Tail(q) \in Seq(Threads) /\ Head(q) = q[1] /\ Head(q) \in Threads
      /\ Len(q) \in Nat /\ Len(q) > 0 /\ Len(Tail(q)) = Len(q) - 1
      /\ \A i \in 1..Len(Tail(q)) : Tail(q)[i] = q[i + 1]
  BY HeadTailProperties
<1>2. Head(q) \in ToSet(q) /\ ToSet(Tail(q)) \subseteq ToSet(q)
  BY <1>1 DEF ToSet
<1>3. ASSUME IsInjective(q) PROVE IsInjective(Tail(q)) /\ Head(q) \notin ToSet(Tail(q))
  BY <1>1, <1>3 DEF IsInjective, ToSet
<1>4. ToSet(q) \ {Head(q)} \subseteq ToSet(Tail(q))
  <2> SUFFICES ASSUME NEW i \in 1..Len(q), q[i] # Head(q) PROVE q[i] \in ToSet(Tail(q))
    BY DEF ToSet
  <2>1. i - 1 \in 1..Len(Tail(q)) /\ Tail(q)[i - 1] = q[i]
    BY <1>1
  <2>2. DOMAIN Tail(q) = 1..Len(Tail(q))
    BY <1>1
  <2>3. QED
    BY <2>1, <2>2 DEF ToSet
<1>5. QED
  BY <1>1, <1>2, <1>3, <1>4

LEMMA QAppend ==
  ASSUME NEW q \in Seq(Threads), NEW t \in Threads
  PROVE  /\ Append(q, t) \in Seq(Threads) /\ Append(q, t) # <<>>
         /\ ToSet(Append(q, t)) = ToSet(q) \cup {t}
         /\ IsInjective(q) /\ t \notin ToSet(q) => IsInjective(Append(q, t))
<1>1. /\ Append(q, t) \in Seq(Threads) /\ Len(Append(q, t)) = Len(q) + 1 /\ Len(q) \in Nat
      /\ \A i \in 1..Len(q) : Append(q, t)[i] = q[i]
      /\ Append(q, t)[Len(q) + 1] = t
  BY AppendProperties
<1>2. ToSet(Append(q, t)) = ToSet(q) \cup {t}
  <2>1. ToSet(Append(q, t)) \subseteq ToSet(q) \cup {t}
    BY <1>1 DEF ToSet
  <2>2. ToSet(q) \subseteq ToSet(Append(q, t)) /\ t \in ToSet(Append(q, t))
    BY <1>1 DEF ToSet
  <2>3. QED
    BY <2>1, <2>2
<1>3. IsInjective(q) /\ t \notin ToSet(q) => IsInjective(Append(q, t))
  BY <1>1 DEF IsInjective, ToSet
<1>4. Append(q, t) # <<>>
  BY <1>1
<1>5. QED
  BY <1>1, <1>2, <1>3, <1>4

(* A thread that is free is in no queue.                                   *)
LEMMA FreeIsFree ==
  ASSUME NEW t, Free(t)
  PROVE  /\ doing[t] = Nothing /\ doing[t].op = "nothing"
         /\ \A m \in Mutexes : t \notin ToSet(mq[m])
         /\ \A c \in Condvars : t \notin ToSet(cq[c])
BY DEF Free, Suspended, Nothing

LEMMA InitInv == Init => Inv
<1> SUFFICES ASSUME Init PROVE Inv
  OBVIOUS
<1>1. <<>> \in Seq(Threads) /\ ToSet(<<>>) = {} /\ IsInjective(<<>>)
  BY EmptySeq DEF ToSet, IsInjective
<1>2. TypeOK
  BY <1>1 DEF Init, EmptyQueue, TypeOK
<1>3. QED
  BY <1>1, <1>2
  DEF Init, EmptyQueue, Inv, WaitersHaveHolder, VerdictIsTrue, LockedIsHeld, QueuedWaits,
      CondWaits, AsleepWaits, Woken, Nothing

-----------------------------------------------------------------------------
(* Steps of one thread.                                                    *)

(* A mutex that is not marked is taken, while others may still have it.    *)
LEMMA AcquireInv ==
  ASSUME Inv, NEW t \in Threads, NEW m \in Mutexes, Acquire(t, m),
         \A n \in Mutexes : t \notin ToSet(mq[n]),
         doing[t].op \notin TimedOps \/ doing[t] = In("wait_or_timeout", m),
         t \notin sleeping,
         doing' = [doing EXCEPT ![t] = Nothing],
         UNCHANGED <<mq, cq, sleeping, verdict>>
  PROVE  Inv'
<1>1. \A n \in Mutexes :
        /\ holders'[n] = IF n = m THEN holders[m] \cup {t} ELSE holders[n]
        /\ locked'[n] = IF n = m THEN TRUE ELSE locked[n]
  BY DEF Inv, TypeOK, Acquire
<1>2. \A u \in Threads : doing'[u] = IF u = t THEN Nothing ELSE doing[u]
  BY DEF Inv, TypeOK
<1>3. TypeOK'
  BY DEF Inv, TypeOK, Acquire
<1>4. \A n \in Mutexes : ToSet(mq[n]) \subseteq Threads
  BY DEF Inv, TypeOK, ToSet
<1>5. WaitersHaveHolder' /\ LockedIsHeld'
  BY <1>1 DEF Inv, WaitersHaveHolder, LockedIsHeld
<1>6. VerdictIsTrue'
  <2> SUFFICES ASSUME NEW u \in Threads, Woken(u, "lock_or_timeout")'
               PROVE  verdict[u] <=> u \in holders'[doing'[u].on]
    BY DEF VerdictIsTrue
  <2>1. u # t /\ doing'[u] = doing[u] /\ doing[u].op = "lock_or_timeout"
    BY <1>2 DEF Woken, Nothing
  <2>2. Woken(u, "lock_or_timeout") /\ doing[u].on \in Mutexes
    BY <2>1 DEF Woken, Suspended, Inv, TypeOK, Nothing
  <2>3. QED
    BY <1>1, <2>1, <2>2 DEF Inv, VerdictIsTrue
<1>7. QueuedWaits'
  <2> SUFFICES ASSUME NEW n \in Mutexes, NEW u \in ToSet(mq[n])
               PROVE  /\ doing'[u] = doing[u] /\ verdict'[u] = verdict[u]
                      /\ u \notin holders[n] => u \notin holders'[n]
    BY DEF Inv, QueuedWaits
  <2>1. u \in Threads /\ u # t
    BY <1>4
  <2>2. QED
    BY <1>1, <1>2, <2>1
<1>8. CondWaits'
  <2>1. \A c \in Condvars : ToSet(cq[c]) \subseteq Threads
    BY DEF Inv, TypeOK, ToSet
  <2>2. \A c \in Condvars : \A u \in ToSet(cq'[c]) :
          doing'[u] = Nothing \/ doing'[u].op = "wait_or_timeout"
    BY <1>2, <2>1 DEF Inv, CondWaits
  <2>3. ASSUME NEW u \in Threads, doing'[u].op = "wait_or_timeout"
        PROVE  u \notin holders'[doing'[u].on]
    <3>1. u # t /\ doing'[u] = doing[u] /\ doing[u].on \in Mutexes
      BY <1>2, <2>3 DEF Nothing, Inv, TypeOK
    <3>2. QED
      BY <1>1, <2>3, <3>1 DEF Inv, CondWaits
  <2>4. QED
    BY <2>2, <2>3 DEF CondWaits
<1>9. AsleepWaits'
  BY <1>2 DEF Inv, AsleepWaits, TypeOK
<1>10. QED
  BY <1>3, <1>5, <1>6, <1>7, <1>8, <1>9 DEF Inv

(* Queueing on a mutex that is marked: mutex_lock, or a timed lock.        *)
LEMMA EnqueueInv ==
  ASSUME Inv, NEW t \in Threads, NEW m \in Mutexes, NEW op \in {"lock", "lock_or_timeout"},
         locked[m], t \notin holders[m], ~Suspended(t),
         mq' = [mq EXCEPT ![m] = Append(@, t)],
         doing' = [doing EXCEPT ![t] = In(op, m)],
         \/ op = "lock" /\ UNCHANGED <<sleeping, verdict>> /\ t \notin sleeping
         \/ /\ op = "lock_or_timeout"
            /\ sleeping' = sleeping \cup {t} /\ verdict' = [verdict EXCEPT ![t] = TRUE],
         UNCHANGED <<locked, cq, holders>>
  PROVE  Inv'
<1>1. /\ mq[m] \in Seq(Threads) /\ Append(mq[m], t) \in Seq(Threads)
      /\ ToSet(mq'[m]) = ToSet(mq[m]) \cup {t} /\ IsInjective(mq'[m])
      /\ \A n \in Mutexes : n # m => mq'[n] = mq[n]
  BY QAppend DEF Inv, TypeOK, QueuedWaits, Suspended
<1>2. In(op, m) \in [op : Ops, on : Mutexes] /\ In(op, m).op = op /\ In(op, m).on = m
  BY DEF In, Ops
<1>3. TypeOK'
  BY <1>1, <1>2 DEF Inv, TypeOK
<1>4. \A u \in Threads : /\ doing'[u] = IF u = t THEN In(op, m) ELSE doing[u]
                         /\ u # t => verdict'[u] = verdict[u]
                         /\ op = "lock_or_timeout" => verdict'[t]
  BY DEF Inv, TypeOK
<1>5. WaitersHaveHolder' /\ LockedIsHeld'
  BY <1>1 DEF Inv, WaitersHaveHolder, LockedIsHeld
<1>6. VerdictIsTrue'
  <2> SUFFICES ASSUME NEW u \in Threads, Woken(u, "lock_or_timeout")'
               PROVE  verdict'[u] <=> u \in holders[doing'[u].on]
    BY DEF VerdictIsTrue
  <2>1. u # t
    BY <1>1 DEF Woken, Suspended
  <2>2. Woken(u, "lock_or_timeout")
    BY <1>1, <1>4, <2>1 DEF Woken, Suspended
  <2>3. QED
    BY <1>4, <2>1, <2>2 DEF Inv, VerdictIsTrue
<1>7. \A n \in Mutexes : ToSet(mq[n]) \subseteq Threads
  BY DEF Inv, TypeOK, ToSet
<1>8. QueuedWaits'
  <2> SUFFICES ASSUME NEW n \in Mutexes
               PROVE  /\ IsInjective(mq'[n])
                      /\ \A u \in ToSet(mq'[n]) :
                           /\ doing'[u].op \in MutexOps /\ doing'[u].on = n
                           /\ u \notin holders'[n]
                           /\ doing'[u].op = "lock_or_timeout" => verdict'[u]
    BY DEF QueuedWaits
  <2>1. CASE n = m
    BY <1>1, <1>2, <1>4, <1>7, <2>1 DEF Inv, QueuedWaits, MutexOps
  <2>2. CASE n # m
    BY <1>1, <1>4, <1>7, <2>2 DEF Inv, QueuedWaits, Suspended
  <2>3. QED
    BY <2>1, <2>2
<1>9. CondWaits'
  <2>1. \A c \in Condvars : ToSet(cq[c]) \subseteq Threads /\ t \notin ToSet(cq[c])
    BY DEF Inv, TypeOK, ToSet, Suspended
  <2>2. QED
    BY <1>2, <1>4, <2>1 DEF Inv, CondWaits
<1>10. AsleepWaits'
  <2> SUFFICES ASSUME NEW u \in sleeping'
               PROVE  /\ doing'[u].op \in TimedOps
                      /\ doing'[u].op = "lock_or_timeout" => u \in ToSet(mq'[doing'[u].on])
                      /\ doing'[u].op = "wait_or_timeout" =>
                           \E c \in Condvars : u \in ToSet(cq'[c])
    BY DEF AsleepWaits
  <2>1. CASE u = t
    BY <1>1, <1>2, <1>4, <2>1 DEF TimedOps
  <2>2. CASE u # t
    <3>1. u \in sleeping /\ u \in Threads /\ doing'[u] = doing[u]
      BY <1>4, <2>2 DEF Inv, TypeOK
    <3>2. doing[u].op = "lock_or_timeout" => doing[u].on \in Mutexes
      BY <3>1 DEF Inv, TypeOK, Nothing
    <3>3. QED
      BY <1>1, <3>1, <3>2 DEF Inv, AsleepWaits
  <2>3. QED
    BY <2>1, <2>2
<1>11. QED
  BY <1>3, <1>5, <1>6, <1>8, <1>9, <1>10 DEF Inv

(* The end of a primitive that waited: t leaves it.                        *)
LEMMA LeaveInv ==
  ASSUME Inv, NEW t \in Threads, doing[t].op \in TimedOps, ~Suspended(t),
         doing' = [doing EXCEPT ![t] = Nothing],
         \/ UNCHANGED locked
         \/ /\ doing[t].op = "lock_or_timeout"
            /\ locked' = [locked EXCEPT ![doing[t].on] = verdict[t]],
         t \notin sleeping,
         UNCHANGED <<mq, cq, sleeping, verdict, holders>>
  PROVE  Inv'
<1>1. \A u \in Threads : doing'[u] = IF u = t THEN Nothing ELSE doing[u]
  BY DEF Inv, TypeOK
<1>2. doing[t].on \in Mutexes
  BY DEF Inv, TypeOK, Nothing, TimedOps
<1>3. TypeOK'
  BY <1>2 DEF Inv, TypeOK
<1>4. WaitersHaveHolder'
  BY DEF Inv, WaitersHaveHolder
<1>5. LockedIsHeld'
  BY <1>2 DEF Inv, TypeOK, LockedIsHeld, VerdictIsTrue, Woken
<1>6. VerdictIsTrue'
  <2> SUFFICES ASSUME NEW u \in Threads, Woken(u, "lock_or_timeout")'
               PROVE  Woken(u, "lock_or_timeout") /\ doing'[u] = doing[u]
    BY DEF Inv, VerdictIsTrue
  <2>1. QED
    BY <1>1 DEF Woken, Suspended, Nothing
<1>7. QueuedWaits'
  <2> SUFFICES ASSUME NEW n \in Mutexes, NEW u \in ToSet(mq[n])
               PROVE  doing'[u] = doing[u]
    BY DEF Inv, QueuedWaits
  <2>1. u \in Threads /\ u # t
    BY DEF Inv, TypeOK, ToSet, Suspended
  <2>2. QED
    BY <1>1, <2>1
<1>8. CondWaits'
  <2>1. \A c \in Condvars : \A u \in ToSet(cq[c]) : u \in Threads /\ u # t
    BY DEF Inv, TypeOK, ToSet, Suspended
  <2>2. QED
    BY <1>1, <2>1 DEF Inv, CondWaits, Nothing
<1>9. AsleepWaits'
  <2>1. \A u \in sleeping : u \in Threads /\ u # t
    BY DEF Inv, TypeOK
  <2>2. QED
    BY <1>1, <2>1 DEF Inv, AsleepWaits
<1>10. QED
  BY <1>3, <1>4, <1>5, <1>6, <1>7, <1>8, <1>9 DEF Inv

(* t gives the mutex m to the first of its waiters, w, and goes on to d.   *)
LEMMA HandInv ==
  ASSUME Inv, NEW t \in Threads, NEW m \in Mutexes, Free(t), t \in holders[m], mq[m] # <<>>,
         NEW w, w = Head(mq[m]),
         NEW d \in {Nothing, In("wait", m), In("wait_or_timeout", m)},
         holders' = [holders EXCEPT ![m] = (@ \ {t}) \cup {w}],
         doing' = [doing EXCEPT ![t] = d,
                                ![w] = IF @.op = "lock_or_timeout" THEN @ ELSE Nothing],
         mq' = [mq EXCEPT ![m] = IF d = In("wait", m) THEN Append(Tail(@), t) ELSE Tail(@)],
         sleeping' = (sleeping \ {w}) \cup (IF d = In("wait_or_timeout", m) THEN {t} ELSE {}),
         UNCHANGED locked \/ locked' = [locked EXCEPT ![m] = TRUE],
         UNCHANGED verdict \/ verdict' = [verdict EXCEPT ![t] = TRUE],
         cq' \in [Condvars -> Seq(Threads)],
         \A c \in Condvars : \A u \in ToSet(cq'[c]) :
           u \in ToSet(cq[c]) \/ (u = t /\ d = In("wait_or_timeout", m)),
         \A c \in Condvars : ToSet(cq[c]) \subseteq ToSet(cq'[c]),
         d = In("wait_or_timeout", m) => \E c \in Condvars : t \in ToSet(cq'[c])
  PROVE  Inv'
<1>1. /\ In("wait", m).op = "wait" /\ In("wait", m).on = m
      /\ In("wait_or_timeout", m).op = "wait_or_timeout" /\ In("wait_or_timeout", m).on = m
      /\ Nothing.op = "nothing" /\ In("wait", m) # In("wait_or_timeout", m)
      /\ Nothing # In("wait", m) /\ Nothing # In("wait_or_timeout", m)
      /\ In("wait", m) \in [op : Ops, on : Mutexes]
      /\ In("wait_or_timeout", m) \in [op : Ops, on : Mutexes]
  BY DEF In, Nothing, Ops
<1>2. /\ w \in ToSet(mq[m]) /\ w \in Threads /\ Tail(mq[m]) \in Seq(Threads)
      /\ IsInjective(Tail(mq[m])) /\ ToSet(Tail(mq[m])) = ToSet(mq[m]) \ {w}
  BY QHead DEF Inv, TypeOK, QueuedWaits
<1>3. /\ doing[t] = Nothing /\ \A n \in Mutexes : t \notin ToSet(mq[n])
      /\ \A c \in Condvars : t \notin ToSet(cq[c])
  BY FreeIsFree
<1>4. w # t
  BY <1>2, <1>3
<1>5. /\ mq'[m] \in Seq(Threads) /\ IsInjective(mq'[m])
      /\ ToSet(mq'[m]) = (ToSet(mq[m]) \ {w}) \cup (IF d = In("wait", m) THEN {t} ELSE {})
      /\ \A n \in Mutexes : n # m => mq'[n] = mq[n]
  <2>1. /\ mq'[m] = IF d = In("wait", m) THEN Append(Tail(mq[m]), t) ELSE Tail(mq[m])
        /\ \A n \in Mutexes : n # m => mq'[n] = mq[n]
    BY DEF Inv, TypeOK
  <2>2. t \notin ToSet(Tail(mq[m]))
    BY <1>2, <1>3
  <2>3. /\ Append(Tail(mq[m]), t) \in Seq(Threads) /\ IsInjective(Append(Tail(mq[m]), t))
        /\ ToSet(Append(Tail(mq[m]), t)) = (ToSet(mq[m]) \ {w}) \cup {t}
    BY <1>2, <2>2, QAppend
  <2>4. QED
    BY <1>2, <2>1, <2>3
<1>6. \A n \in Mutexes :
        /\ \A u : u \in holders'[n] <=> IF n = m THEN u = w \/ (u # t /\ u \in holders[m])
                                                ELSE u \in holders[n]
        /\ locked'[n] => n = m \/ locked[n]
  BY DEF Inv, TypeOK
<1>7. \A u \in Threads : doing'[u] =
        IF u = t THEN d
        ELSE IF u = w /\ doing[w].op # "lock_or_timeout" THEN Nothing ELSE doing[u]
  BY <1>2, <1>4 DEF Inv, TypeOK
<1>8. TypeOK'
  <2>1. mq' \in [Mutexes -> Seq(Threads)]
    BY <1>5 DEF Inv, TypeOK
  <2>2. doing' \in [Threads -> [op : Ops, on : Mutexes] \cup {Nothing}]
    BY <1>1, <1>2, <1>7 DEF Inv, TypeOK
  <2>3. holders' \in [Mutexes -> SUBSET Threads]
    BY <1>2 DEF Inv, TypeOK
  <2>4. QED
    BY <1>2, <2>1, <2>2, <2>3 DEF Inv, TypeOK
<1>9. WaitersHaveHolder' /\ LockedIsHeld'
  <2> SUFFICES ASSUME NEW n \in Mutexes
               PROVE  mq'[n] # <<>> \/ locked'[n] => holders'[n] # {}
    BY DEF WaitersHaveHolder, LockedIsHeld
  <2>1. CASE n = m
    BY <1>6, <2>1
  <2>2. CASE n # m
    BY <1>5, <1>6, <2>2 DEF Inv, WaitersHaveHolder, LockedIsHeld
  <2>3. QED
    BY <2>1, <2>2
<1>10. \A u \in Threads : u # t => verdict'[u] = verdict[u]
  BY DEF Inv, TypeOK
<1>11. doing[w].op \in MutexOps /\ doing[w].on = m /\ w \notin holders[m]
       /\ (doing[w].op = "lock_or_timeout" => verdict[w])
  BY <1>2 DEF Inv, QueuedWaits
<1>12. VerdictIsTrue'
  <2> SUFFICES ASSUME NEW u \in Threads, Woken(u, "lock_or_timeout")'
               PROVE  verdict'[u] <=> u \in holders'[doing'[u].on]
    BY DEF VerdictIsTrue
  <2>1. u # t /\ doing'[u] = doing[u] /\ doing[u].op = "lock_or_timeout"
    BY <1>1, <1>7 DEF Woken
  <2>2. doing[u].on \in Mutexes
    BY <2>1, <1>1 DEF Inv, TypeOK
  <2>3. CASE u = w
    BY <1>6, <1>10, <1>11, <2>1, <2>3
  <2>4. CASE u # w
    <3>1. \A n \in Mutexes : u \notin ToSet(mq[n])
      BY <1>5, <2>4 DEF Woken, Suspended
    <3>2. \A c \in Condvars : u \notin ToSet(cq[c])
      BY DEF Woken, Suspended
    <3>3. Woken(u, "lock_or_timeout")
      BY <2>1, <3>1, <3>2 DEF Woken, Suspended
    <3>4. QED
      BY <1>6, <1>10, <2>1, <2>2, <2>4, <3>3 DEF Inv, VerdictIsTrue
  <2>5. QED
    BY <2>3, <2>4
<1>13. \A n \in Mutexes : ToSet(mq[n]) \subseteq Threads
  BY DEF Inv, TypeOK, ToSet
<1>14. QueuedWaits'
  <2>1. \A n \in Mutexes : IsInjective(mq'[n])
    BY <1>5 DEF Inv, QueuedWaits
  <2>2. ASSUME NEW n \in Mutexes, NEW u \in ToSet(mq'[n])
        PROVE  /\ doing'[u].op \in MutexOps /\ doing'[u].on = n
               /\ u \notin holders'[n]
               /\ doing'[u].op = "lock_or_timeout" => verdict'[u]
    <3>1. CASE u = t
      <4>1. n = m /\ d = In("wait", m)
        BY <1>3, <1>5, <3>1
      <4>2. QED
        BY <1>1, <1>4, <1>6, <1>7, <3>1, <4>1 DEF MutexOps
    <3>2. CASE u # t
      <4>1. u \in ToSet(mq[n]) /\ u \in Threads
        BY <1>5, <1>13, <3>2
      <4>2. u # w
        BY <1>2, <1>5, <1>11, <3>2, <4>1 DEF Inv, QueuedWaits
      <4>3. QED
        <5>1. /\ doing[u].op \in MutexOps /\ doing[u].on = n /\ u \notin holders[n]
              /\ doing[u].op = "lock_or_timeout" => verdict[u]
          BY <4>1 DEF Inv, QueuedWaits
        <5>2. doing'[u] = doing[u] /\ verdict'[u] = verdict[u]
          BY <1>7, <1>10, <3>2, <4>1, <4>2
        <5>3. u \notin holders'[n]
          BY <1>6, <4>2, <5>1
        <5>4. QED
          BY <5>1, <5>2, <5>3
    <3>3. QED
      BY <3>1, <3>2
  <2>3. QED
    BY <2>1, <2>2 DEF QueuedWaits
<1>15. CondWaits'
  <2>1. ASSUME NEW c \in Condvars, NEW u \in ToSet(cq'[c])
        PROVE  doing'[u] = Nothing \/ doing'[u].op = "wait_or_timeout"
    <3>1. u \in Threads
      BY DEF ToSet
    <3>2. CASE u = t
      BY <1>1, <1>3, <1>7, <2>1, <3>2
    <3>3. CASE u # t
      <4>1. u \in ToSet(cq[c])
        BY <2>1, <3>3
      <4>2. doing[u] = Nothing \/ doing[u].op = "wait_or_timeout"
        BY <4>1 DEF Inv, CondWaits
      <4>3. doing'[u] = Nothing \/ doing'[u] = doing[u]
        BY <1>7, <3>1, <3>3
      <4>4. QED
        BY <4>2, <4>3
    <3>4. QED
      BY <3>2, <3>3
  <2>2. ASSUME NEW u \in Threads, doing'[u].op = "wait_or_timeout"
        PROVE  u \notin holders'[doing'[u].on]
    <3>1. CASE u = t
      BY <1>1, <1>4, <1>6, <1>7, <2>2, <3>1
    <3>2. CASE u # t
      <4>1. doing'[u] = doing[u] /\ u # w
        BY <1>1, <1>7, <1>11, <2>2, <3>2 DEF MutexOps
      <4>2. doing[u].on \in Mutexes
        BY <1>1, <2>2, <4>1 DEF Inv, TypeOK
      <4>3. QED
        BY <1>6, <2>2, <4>1, <4>2 DEF Inv, CondWaits
    <3>3. QED
      BY <3>1, <3>2
  <2>3. QED
    BY <2>1, <2>2 DEF CondWaits
<1>16. AsleepWaits'
  <2> SUFFICES ASSUME NEW u \in sleeping'
               PROVE  /\ doing'[u].op \in TimedOps
                      /\ doing'[u].op = "lock_or_timeout" => u \in ToSet(mq'[doing'[u].on])
                      /\ doing'[u].op = "wait_or_timeout" =>
                           \E c \in Condvars : u \in ToSet(cq'[c])
    BY DEF AsleepWaits
  <2>1. t \notin sleeping
    BY <1>1, <1>3 DEF Inv, AsleepWaits, TimedOps
  <2>2. CASE u = t
    BY <1>1, <1>4, <1>7, <2>1, <2>2 DEF TimedOps
  <2>3. CASE u # t
    <3>1. u \in sleeping /\ u # w /\ u \in Threads /\ doing'[u] = doing[u]
      BY <1>7, <2>3 DEF Inv, TypeOK
    <3>2. doing[u].op = "lock_or_timeout" => doing[u].on \in Mutexes
      BY <1>1, <3>1 DEF Inv, TypeOK
    <3>3. QED
      BY <1>5, <3>1, <3>2 DEF Inv, AsleepWaits
  <2>4. QED
    BY <2>2, <2>3
<1>17. QED
  BY <1>8, <1>9, <1>12, <1>14, <1>15, <1>16 DEF Inv


(* A mutex with no waiters is freed.                                       *)
LEMMA FreeInv ==
  ASSUME Inv, NEW t \in Threads, NEW m \in Mutexes, Free(t), t \in holders[m], mq[m] = <<>>,
         holders' = [holders EXCEPT ![m] = @ \ {t}],
         locked' = [locked EXCEPT ![m] = FALSE],
         UNCHANGED mq,
         \/ UNCHANGED <<doing, sleeping, verdict, cq>>
         \/ /\ doing' = [doing EXCEPT ![t] = In("wait_or_timeout", m)]
            /\ sleeping' = sleeping \cup {t}
            /\ verdict' = [verdict EXCEPT ![t] = TRUE]
            /\ \E c \in Condvars : cq' = [cq EXCEPT ![c] = Append(@, t)]
  PROVE  Inv'
<1>1. /\ In("wait_or_timeout", m).op = "wait_or_timeout" /\ In("wait_or_timeout", m).on = m
      /\ In("wait_or_timeout", m) \in [op : Ops, on : Mutexes]
  BY DEF In, Ops
<1>2. /\ doing[t] = Nothing /\ doing[t].op = "nothing"
      /\ \A n \in Mutexes : t \notin ToSet(mq[n])
  BY FreeIsFree
<1>3. \A n \in Mutexes :
        /\ \A u : u \in holders'[n] => u \in holders[n]
        /\ \A u : u # t /\ u \in holders[n] => u \in holders'[n]
        /\ n = m => t \notin holders'[n]
        /\ locked'[n] => n # m /\ locked[n]
        /\ n # m => holders'[n] = holders[n]
  BY DEF Inv, TypeOK
<1>4. \A u \in Threads : /\ u # t => doing'[u] = doing[u] /\ verdict'[u] = verdict[u]
                         /\ doing'[t] \in {doing[t], In("wait_or_timeout", m)}
  BY DEF Inv, TypeOK
<1>5. /\ cq' \in [Condvars -> Seq(Threads)]
      /\ \A c \in Condvars : /\ ToSet(cq[c]) \subseteq ToSet(cq'[c])
                             /\ \A u \in ToSet(cq'[c]) :
                                  u \in ToSet(cq[c])
                                    \/ (u = t /\ doing'[t].op = "wait_or_timeout")
      /\ doing'[t].op = "wait_or_timeout" => \E c \in Condvars : t \in ToSet(cq'[c])
  <2>1. CASE UNCHANGED <<doing, cq>>
    BY <1>2, <2>1 DEF Inv, TypeOK
  <2>2. CASE /\ doing' = [doing EXCEPT ![t] = In("wait_or_timeout", m)]
             /\ \E c \in Condvars : cq' = [cq EXCEPT ![c] = Append(@, t)]
    <3>1. PICK c \in Condvars : cq' = [cq EXCEPT ![c] = Append(@, t)]
      BY <2>2
    <3>2. Append(cq[c], t) \in Seq(Threads) /\ ToSet(Append(cq[c], t)) = ToSet(cq[c]) \cup {t}
      BY QAppend DEF Inv, TypeOK
    <3>3. doing'[t].op = "wait_or_timeout"
      BY <1>1, <2>2 DEF Inv, TypeOK
    <3>4. QED
      BY <3>1, <3>2, <3>3 DEF Inv, TypeOK
  <2>3. QED
    BY <2>1, <2>2
<1>6. TypeOK'
  <2>1. /\ doing' \in [Threads -> [op : Ops, on : Mutexes] \cup {Nothing}]
        /\ sleeping' \subseteq Threads /\ verdict' \in [Threads -> BOOLEAN]
    <3>1. CASE UNCHANGED <<doing, sleeping, verdict>>
      BY <3>1 DEF Inv, TypeOK
    <3>2. CASE /\ doing' = [doing EXCEPT ![t] = In("wait_or_timeout", m)]
               /\ sleeping' = sleeping \cup {t}
               /\ verdict' = [verdict EXCEPT ![t] = TRUE]
      BY <1>1, <3>2 DEF Inv, TypeOK
    <3>3. QED
      BY <3>1, <3>2
  <2>2. /\ holders' \in [Mutexes -> SUBSET Threads] /\ locked' \in [Mutexes -> BOOLEAN]
        /\ mq' \in [Mutexes -> Seq(Threads)]
    BY DEF Inv, TypeOK
  <2>3. QED
    BY <1>5, <2>1, <2>2 DEF TypeOK
<1>7. WaitersHaveHolder'
  BY <1>3 DEF Inv, WaitersHaveHolder
<1>8. LockedIsHeld'
  BY <1>3 DEF Inv, LockedIsHeld
<1>9. VerdictIsTrue'
  <2> SUFFICES ASSUME NEW u \in Threads, Woken(u, "lock_or_timeout")'
               PROVE  verdict'[u] <=> u \in holders'[doing'[u].on]
    BY DEF VerdictIsTrue
  <2>1. u # t /\ doing'[u] = doing[u] /\ verdict'[u] = verdict[u]
        /\ doing[u].op = "lock_or_timeout"
    BY <1>1, <1>2, <1>4 DEF Woken
  <2>2. Woken(u, "lock_or_timeout")
    BY <1>5, <2>1 DEF Woken, Suspended
  <2>3. doing[u].on \in Mutexes
    BY <2>1 DEF Inv, TypeOK, Nothing
  <2>4. QED
    BY <1>3, <2>1, <2>2, <2>3 DEF Inv, VerdictIsTrue
<1>10. QueuedWaits'
  <2> SUFFICES ASSUME NEW n \in Mutexes, NEW u \in ToSet(mq[n])
               PROVE  /\ doing'[u] = doing[u] /\ verdict'[u] = verdict[u]
                      /\ u \notin holders[n] => u \notin holders'[n]
    BY DEF Inv, QueuedWaits
  <2>1. u \in Threads /\ u # t
    BY <1>2 DEF Inv, TypeOK, ToSet
  <2>2. QED
    BY <1>3, <1>4, <2>1
<1>11. CondWaits'
  <2>1. ASSUME NEW c \in Condvars, NEW u \in ToSet(cq'[c])
        PROVE  doing'[u] = Nothing \/ doing'[u].op = "wait_or_timeout"
    <3>1. u \in Threads
      BY <1>5 DEF ToSet
    <3>2. CASE u = t
      BY <1>1, <1>2, <1>4, <3>2
    <3>3. CASE u # t
      BY <1>4, <1>5, <3>1, <3>3 DEF Inv, CondWaits
    <3>4. QED
      BY <3>2, <3>3
  <2>2. ASSUME NEW u \in Threads, doing'[u].op = "wait_or_timeout"
        PROVE  u \notin holders'[doing'[u].on]
    <3>1. CASE u = t
      BY <1>1, <1>2, <1>3, <1>4, <2>2, <3>1
    <3>2. CASE u # t
      <4>1. doing'[u] = doing[u] /\ doing[u].on \in Mutexes
        BY <1>4, <2>2, <3>2 DEF Inv, TypeOK, Nothing
      <4>2. QED
        BY <1>3, <2>2, <4>1 DEF Inv, CondWaits
    <3>3. QED
      BY <3>1, <3>2
  <2>3. QED
    BY <2>1, <2>2 DEF CondWaits
<1>12. AsleepWaits'
  <2> SUFFICES ASSUME NEW u \in sleeping'
               PROVE  /\ doing'[u].op \in TimedOps
                      /\ doing'[u].op = "lock_or_timeout" => u \in ToSet(mq[doing'[u].on])
                      /\ doing'[u].op = "wait_or_timeout" =>
                           \E c \in Condvars : u \in ToSet(cq'[c])
    BY DEF AsleepWaits
  <2>1. t \notin sleeping
    BY <1>2 DEF Inv, AsleepWaits, TimedOps
  <2>2. CASE u = t
    <3>1. doing'[t] = In("wait_or_timeout", m)
      BY <2>1, <2>2 DEF Inv, TypeOK
    <3>2. QED
      BY <1>1, <1>5, <2>2, <3>1 DEF TimedOps
  <2>3. CASE u # t
    <3>1. u \in sleeping /\ doing'[u] = doing[u]
      BY <1>4, <2>3 DEF Inv, TypeOK
    <3>2. QED
      BY <1>5, <3>1 DEF Inv, AsleepWaits
  <2>4. QED
    BY <2>2, <2>3
<1>13. QED
  BY <1>6, <1>7, <1>8, <1>9, <1>10, <1>11, <1>12 DEF Inv

-----------------------------------------------------------------------------
(* The primitives.                                                         *)

LEMMA LockInv ==
  ASSUME Inv, NEW t \in Threads, NEW m \in Mutexes, Lock(t, m) \/ LockOrTimeout(t, m)
  PROVE  Inv'
<1>1. /\ Free(t) /\ t \notin holders[m] /\ ~Suspended(t) /\ doing[t] = Nothing
      /\ doing[t].op = "nothing" /\ \A n \in Mutexes : t \notin ToSet(mq[n])
  BY FreeIsFree DEF Lock, LockOrTimeout, Free
<1>2. t \notin sleeping
  BY <1>1 DEF Inv, AsleepWaits, TimedOps
<1>3. CASE Acquire(t, m) /\ UNCHANGED <<mq, cq, sleeping, verdict, doing>>
  <2>1. doing' = [doing EXCEPT ![t] = Nothing]
    BY <1>1, <1>3 DEF Inv, TypeOK
  <2>2. QED
    BY <1>1, <1>2, <1>3, <2>1, AcquireInv DEF TimedOps
<1>4. CASE Lock(t, m) /\ locked[m] /\ UNCHANGED <<locked, holders>>
  <2>1. /\ mq' = [mq EXCEPT ![m] = Append(@, t)] /\ doing' = [doing EXCEPT ![t] = In("lock", m)]
        /\ UNCHANGED <<locked, cq, holders, sleeping, verdict>>
    BY <1>4 DEF Lock, Acquire
  <2>2. QED
    BY <1>1, <1>2, <1>4, <2>1, EnqueueInv
<1>5. CASE SleepOn(t, m)
  BY <1>1, <1>5, EnqueueInv DEF SleepOn
<1>6. QED
  BY <1>3, <1>4, <1>5 DEF Lock, LockOrTimeout

LEMMA GiveUpInv ==
  ASSUME Inv, NEW t \in Threads, NEW m \in Mutexes, Free(t), t \in holders[m],
         GiveUp(t, m), UNCHANGED <<cq, verdict>>
  PROVE  Inv'
<1>1. CASE mq[m] = <<>>
  BY <1>1, FreeInv DEF GiveUp
<1>2. CASE mq[m] # <<>>
  <2> DEFINE w == Head(mq[m])
  <2>1. /\ mq' = [mq EXCEPT ![m] = Tail(@)]
        /\ sleeping' = sleeping \ {w}
        /\ holders' = [holders EXCEPT ![m] = (@ \ {t}) \cup {w}]
        /\ doing' = [doing EXCEPT ![w] = IF @.op = "lock_or_timeout" THEN @ ELSE Nothing]
        /\ UNCHANGED locked
    BY <1>2 DEF GiveUp
  <2>2. doing = [doing EXCEPT ![t] = Nothing]
    BY FreeIsFree DEF Inv, TypeOK
  <2>3. /\ Nothing # In("wait", m) /\ Nothing # In("wait_or_timeout", m)
    BY DEF Nothing, In
  <2>4. /\ cq' \in [Condvars -> Seq(Threads)]
        /\ \A c \in Condvars : ToSet(cq'[c]) = ToSet(cq[c])
    BY DEF Inv, TypeOK
  <2>5. doing' = [doing EXCEPT ![t] = Nothing,
                               ![w] = IF @.op = "lock_or_timeout" THEN @ ELSE Nothing]
    BY <2>1, <2>2
  <2>6. /\ mq' = [mq EXCEPT ![m] = IF Nothing = In("wait", m) THEN Append(Tail(@), t)
                                   ELSE Tail(@)]
        /\ sleeping' = (sleeping \ {w})
                         \cup (IF Nothing = In("wait_or_timeout", m) THEN {t} ELSE {})
    BY <2>1, <2>3
  <2> HIDE DEF w
  <2>7. w = Head(mq[m])
    BY DEF w
  <2>8. QED
    BY <1>2, <2>1, <2>3, <2>4, <2>5, <2>6, <2>7, HandInv
<1>3. QED
  BY <1>1, <1>2

LEMMA WaitInv ==
  ASSUME Inv, NEW t \in Threads, NEW m \in Mutexes, NEW c \in Condvars, Wait(t, c, m)
  PROVE  Inv'
<1> DEFINE w == Head(mq[m])
<1>1. /\ Free(t) /\ t \in holders[m] /\ mq[m] # <<>>
      /\ mq' = [mq EXCEPT ![m] = Append(Tail(@), t)]
      /\ sleeping' = sleeping \ {w}
      /\ holders' = [holders EXCEPT ![m] = (@ \ {t}) \cup {w}]
      /\ doing' = [doing EXCEPT ![t] = In("wait", m),
                                ![w] = IF @.op = "lock_or_timeout" THEN @ ELSE Nothing]
      /\ locked' = [locked EXCEPT ![m] = TRUE]
      /\ UNCHANGED <<cq, verdict>>
  BY DEF Wait
<1>2. In("wait", m) # In("wait_or_timeout", m)
  BY DEF In
<1>3. sleeping' = (sleeping \ {w})
                    \cup (IF In("wait", m) = In("wait_or_timeout", m) THEN {t} ELSE {})
  BY <1>1, <1>2
<1>4. /\ cq' \in [Condvars -> Seq(Threads)]
      /\ \A d \in Condvars : ToSet(cq'[d]) = ToSet(cq[d])
  BY <1>1 DEF Inv, TypeOK
<1>5. mq' = [mq EXCEPT ![m] = IF In("wait", m) = In("wait", m) THEN Append(Tail(@), t)
                              ELSE Tail(@)]
  BY <1>1
<1> HIDE DEF w
<1>6. w = Head(mq[m])
  BY DEF w
<1>7. QED
  BY <1>1, <1>2, <1>3, <1>4, <1>5, <1>6, HandInv

LEMMA WaitOrTimeoutInv ==
  ASSUME Inv, NEW t \in Threads, NEW m \in Mutexes, NEW c \in Condvars,
         WaitOrTimeout(t, c, m)
  PROVE  Inv'
<1>1. Free(t) /\ t \in holders[m]
  BY DEF WaitOrTimeout
<1>2. CASE GiveUp(t, m) /\ UNCHANGED <<cq, verdict>>
  BY <1>1, <1>2, GiveUpInv
<1>3. CASE /\ cq' = [cq EXCEPT ![c] = Append(@, t)]
           /\ verdict' = [verdict EXCEPT ![t] = TRUE]
           /\ mq[m] = <<>>
           /\ locked' = [locked EXCEPT ![m] = FALSE]
           /\ holders' = [holders EXCEPT ![m] = @ \ {t}]
           /\ sleeping' = sleeping \cup {t}
           /\ doing' = [doing EXCEPT ![t] = In("wait_or_timeout", m)]
           /\ UNCHANGED mq
  BY <1>1, <1>3, FreeInv
<1> DEFINE w == Head(mq[m])
<1>4. CASE /\ cq' = [cq EXCEPT ![c] = Append(@, t)]
           /\ verdict' = [verdict EXCEPT ![t] = TRUE]
           /\ mq[m] # <<>>
           /\ mq' = [mq EXCEPT ![m] = Tail(@)]
           /\ holders' = [holders EXCEPT ![m] = (@ \ {t}) \cup {w}]
           /\ sleeping' = (sleeping \ {w}) \cup {t}
           /\ doing' = [doing EXCEPT ![t] = In("wait_or_timeout", m),
                                     ![w] = IF @.op = "lock_or_timeout" THEN @ ELSE Nothing]
           /\ UNCHANGED locked
  <2> DEFINE d == In("wait_or_timeout", m)
  <2>1. d # In("wait", m)
    BY DEF In
  <2>2. /\ mq' = [mq EXCEPT ![m] = IF d = In("wait", m) THEN Append(Tail(@), t) ELSE Tail(@)]
        /\ sleeping' = (sleeping \ {w})
                         \cup (IF d = In("wait_or_timeout", m) THEN {t} ELSE {})
    BY <1>4, <2>1
  <2>3. Append(cq[c], t) \in Seq(Threads) /\ ToSet(Append(cq[c], t)) = ToSet(cq[c]) \cup {t}
    BY QAppend DEF Inv, TypeOK
  <2>4. cq' \in [Condvars -> Seq(Threads)]
    BY <1>4, <2>3 DEF Inv, TypeOK
  <2>5. \A e \in Condvars : /\ ToSet(cq[e]) \subseteq ToSet(cq'[e])
                            /\ \A u \in ToSet(cq'[e]) : u \in ToSet(cq[e]) \/ u = t
    BY <1>4, <2>3 DEF Inv, TypeOK
  <2> HIDE DEF w
  <2>6. w = Head(mq[m])
    BY DEF w
  <2>7. \E e \in Condvars : t \in ToSet(cq'[e])
    BY <1>4, <2>3 DEF Inv, TypeOK
  <2>8. QED
    BY <1>1, <1>4, <2>2, <2>4, <2>5, <2>6, <2>7, HandInv
<1>5. QED
  BY <1>2, <1>3, <1>4 DEF WaitOrTimeout


(* What is left of a timed primitive when it runs again.                   *)
LEMMA WokenAwake ==
  ASSUME Inv, NEW t \in Threads, NEW op \in TimedOps, Woken(t, op)
  PROVE  /\ t \notin sleeping /\ ~Suspended(t) /\ doing[t].op = op
         /\ doing[t].on \in Mutexes /\ doing[t] = In(op, doing[t].on)
<1>1. ~Suspended(t) /\ doing[t].op = op
  BY DEF Woken
<1>2. doing[t] \in [op : Ops, on : Mutexes]
  BY <1>1 DEF Inv, TypeOK, Nothing, TimedOps
<1>3. doing[t].on \in Mutexes /\ doing[t] = In(op, doing[t].on)
  BY <1>1, <1>2 DEF In
<1>4. t \notin sleeping
  BY <1>1, <1>3 DEF Inv, AsleepWaits, Suspended, TimedOps
<1>5. QED
  BY <1>1, <1>3, <1>4

LEMMA EndInv ==
  ASSUME Inv, NEW t \in Threads, LockOrTimeoutEnd(t) \/ WaitOrTimeoutEnd(t)
  PROVE  Inv'
<1>1. CASE LockOrTimeoutEnd(t)
  BY <1>1, WokenAwake, LeaveInv DEF LockOrTimeoutEnd, TimedOps
<1>2. CASE WaitOrTimeoutEnd(t)
  <2> DEFINE m == doing[t].on
  <2>1. /\ t \notin sleeping /\ ~Suspended(t) /\ doing[t].op = "wait_or_timeout"
        /\ m \in Mutexes /\ doing[t] = In("wait_or_timeout", m)
    BY <1>2, WokenAwake DEF WaitOrTimeoutEnd, TimedOps
  <2>2. t \notin holders[m] /\ \A n \in Mutexes : t \notin ToSet(mq[n])
    BY <2>1 DEF Inv, CondWaits, Suspended
  <2>3. CASE /\ doing' = [doing EXCEPT ![t] = Nothing]
             /\ UNCHANGED <<locked, mq, holders, cq, sleeping, verdict>>
    BY <2>1, <2>3, LeaveInv DEF TimedOps
  <2>4. CASE /\ Acquire(t, m)
             /\ doing' = [doing EXCEPT ![t] = Nothing]
             /\ UNCHANGED <<mq, cq, sleeping, verdict>>
    <3> HIDE DEF m
    <3>1. QED
      BY <2>1, <2>2, <2>4, AcquireInv
  <2>5. CASE SleepOn(t, m)
    <3>1. /\ locked[m]
          /\ mq' = [mq EXCEPT ![m] = Append(@, t)]
          /\ sleeping' = sleeping \cup {t}
          /\ verdict' = [verdict EXCEPT ![t] = TRUE]
          /\ doing' = [doing EXCEPT ![t] = In("lock_or_timeout", m)]
          /\ UNCHANGED <<locked, cq, holders>>
      BY <2>5 DEF SleepOn
    <3> HIDE DEF m
    <3>2. QED
      BY <2>1, <2>2, <3>1, EnqueueInv
  <2>6. QED
    BY <1>2, <2>3, <2>4, <2>5 DEF WaitOrTimeoutEnd
<1>3. QED
  BY <1>1, <1>2

(* The timer takes a thread off its queue before it has its answer.        *)
LEMMA TimeoutInv ==
  ASSUME Inv, NEW t \in Threads, Timeout(t)
  PROVE  Inv'
<1>1. /\ t \in sleeping /\ sleeping' = sleeping \ {t}
      /\ verdict' = [verdict EXCEPT ![t] = FALSE]
      /\ mq' = [m \in Mutexes |-> QRemove(t, mq[m])]
      /\ cq' = [c \in Condvars |-> QRemove(t, cq[c])]
      /\ UNCHANGED <<locked, doing, holders>>
  BY DEF Timeout
<1>2. \A m \in Mutexes : /\ mq'[m] \in Seq(Threads) /\ IsInjective(mq'[m])
                         /\ ToSet(mq'[m]) = ToSet(mq[m]) \ {t}
  BY <1>1, QRemoveSpec DEF Inv, TypeOK, QueuedWaits
<1>3. \A c \in Condvars : /\ cq'[c] \in Seq(Threads)
                          /\ ToSet(cq'[c]) \subseteq ToSet(cq[c])
                          /\ ToSet(cq[c]) \ {t} \subseteq ToSet(cq'[c])
  BY <1>1, QRemoveSpec DEF Inv, TypeOK
<1>4. \A u \in Threads : verdict'[u] = IF u = t THEN FALSE ELSE verdict[u]
  BY <1>1 DEF Inv, TypeOK
<1>5. TypeOK'
  BY <1>1, <1>2, <1>3 DEF Inv, TypeOK
<1>6. WaitersHaveHolder' /\ LockedIsHeld'
  <2>1. \A m \in Mutexes : mq[m] = <<>> => mq'[m] = <<>>
    BY <1>1 DEF QRemove, ToSet
  <2>2. QED
    BY <1>1, <2>1 DEF Inv, WaitersHaveHolder, LockedIsHeld
<1>7. VerdictIsTrue'
  <2> SUFFICES ASSUME NEW u \in Threads, Woken(u, "lock_or_timeout")'
               PROVE  verdict'[u] <=> u \in holders[doing[u].on]
    BY <1>1 DEF VerdictIsTrue
  <2>1. doing[u].op = "lock_or_timeout"
    BY <1>1 DEF Woken
  <2>2. doing[u].on \in Mutexes
    BY <2>1 DEF Inv, TypeOK, Nothing
  <2>3. CASE u = t
    <3>1. t \in ToSet(mq[doing[t].on])
      BY <1>1, <2>1, <2>3 DEF Inv, AsleepWaits
    <3>2. t \notin holders[doing[t].on]
      BY <2>2, <2>3, <3>1 DEF Inv, QueuedWaits
    <3>3. QED
      BY <1>4, <2>3, <3>2
  <2>4. CASE u # t
    <3>1. Woken(u, "lock_or_timeout")
      BY <1>1, <1>2, <1>3, <2>4 DEF Woken, Suspended
    <3>2. QED
      BY <1>4, <2>4, <3>1 DEF Inv, VerdictIsTrue
  <2>5. QED
    BY <2>3, <2>4
<1>8. QueuedWaits'
  <2>1. \A m \in Mutexes : \A u \in ToSet(mq'[m]) : u \in ToSet(mq[m]) /\ verdict'[u] = verdict[u]
    <3> SUFFICES ASSUME NEW m \in Mutexes, NEW u \in ToSet(mq'[m])
                 PROVE  u \in ToSet(mq[m]) /\ verdict'[u] = verdict[u]
      OBVIOUS
    <3>1. u \in ToSet(mq[m]) /\ u # t
      BY <1>2
    <3>2. u \in Threads
      BY <3>1 DEF Inv, TypeOK, ToSet
    <3>3. QED
      BY <1>4, <3>1, <3>2
  <2>2. \A m \in Mutexes : IsInjective(mq'[m])
    BY <1>2
  <2>3. ASSUME NEW m \in Mutexes, NEW u \in ToSet(mq'[m])
        PROVE  /\ doing'[u].op \in MutexOps /\ doing'[u].on = m
               /\ u \notin holders'[m]
               /\ doing'[u].op = "lock_or_timeout" => verdict'[u]
    BY <1>1, <2>1 DEF Inv, QueuedWaits
  <2>4. QED
    BY <2>2, <2>3 DEF QueuedWaits
<1>9. CondWaits'
  BY <1>1, <1>3 DEF Inv, CondWaits
<1>10. AsleepWaits'
  <2> SUFFICES ASSUME NEW u \in sleeping, u # t
               PROVE  /\ doing[u].op \in TimedOps
                      /\ doing[u].op = "lock_or_timeout" => u \in ToSet(mq'[doing[u].on])
                      /\ doing[u].op = "wait_or_timeout" =>
                           \E c \in Condvars : u \in ToSet(cq'[c])
    BY <1>1 DEF AsleepWaits
  <2>1. u \in Threads
    BY DEF Inv, TypeOK
  <2>2. doing[u].op = "lock_or_timeout" => doing[u].on \in Mutexes
    BY <2>1 DEF Inv, TypeOK, Nothing
  <2>3. QED
    BY <1>2, <1>3, <2>2 DEF Inv, AsleepWaits
<1>11. QED
  BY <1>5, <1>6, <1>7, <1>8, <1>9, <1>10 DEF Inv

LEMMA CondvarInv ==
  ASSUME Inv, NEW c \in Condvars,
         (\E t \in Threads : MutexlessWait(t, c)) \/ Signal(c) \/ Broadcast(c)
  PROVE  Inv'
<1>1. UNCHANGED <<locked, mq, verdict, doing, holders>>
  BY DEF MutexlessWait, Signal, Broadcast
<1>2. /\ cq' \in [Condvars -> Seq(Threads)] /\ sleeping' \subseteq sleeping
      /\ \A e \in Condvars : /\ \A u \in ToSet(cq'[e]) : u \in ToSet(cq[e]) \/ Free(u)
                             /\ \A u \in ToSet(cq[e]) \cap sleeping' : u \in ToSet(cq'[e])
  <2>1. CASE \E t \in Threads : MutexlessWait(t, c)
    <3>1. PICK t \in Threads : MutexlessWait(t, c)
      BY <2>1
    <3>2. Append(cq[c], t) \in Seq(Threads) /\ ToSet(Append(cq[c], t)) = ToSet(cq[c]) \cup {t}
      BY QAppend DEF Inv, TypeOK
    <3>3. QED
      BY <3>1, <3>2 DEF MutexlessWait, Inv, TypeOK
  <2>2. CASE Signal(c)
    <3>1. /\ Tail(cq[c]) \in Seq(Threads) /\ ToSet(Tail(cq[c])) \subseteq ToSet(cq[c])
          /\ ToSet(cq[c]) \ {Head(cq[c])} \subseteq ToSet(Tail(cq[c]))
      BY <2>2, QHead DEF Signal, Inv, TypeOK
    <3>2. QED
      BY <2>2, <3>1 DEF Signal, Inv, TypeOK
  <2>3. CASE Broadcast(c)
    <3>1. <<>> \in Seq(Threads) /\ ToSet(<<>>) = {}
      BY EmptySeq DEF ToSet
    <3>2. QED
      BY <2>3, <3>1 DEF Broadcast, Inv, TypeOK
  <2>4. QED
    BY <2>1, <2>2, <2>3
<1>3. TypeOK' /\ WaitersHaveHolder' /\ LockedIsHeld' /\ QueuedWaits'
  BY <1>1, <1>2 DEF Inv, TypeOK, WaitersHaveHolder, LockedIsHeld, QueuedWaits
<1>4. CondWaits'
  BY <1>1, <1>2 DEF Inv, CondWaits, Free
<1>5. AsleepWaits'
  BY <1>1, <1>2 DEF Inv, AsleepWaits
<1>6. VerdictIsTrue'
  <2> SUFFICES ASSUME NEW u \in Threads, Woken(u, "lock_or_timeout")'
               PROVE  Woken(u, "lock_or_timeout")
    BY <1>1 DEF Inv, VerdictIsTrue
  <2>1. \A m \in Mutexes : u \notin ToSet(mq[m])
    BY <1>1 DEF Woken, Suspended
  <2>2. doing[u].op = "lock_or_timeout"
    BY <1>1 DEF Woken
  <2>3. \A e \in Condvars : u \notin ToSet(cq[e])
    BY <2>2 DEF Inv, CondWaits, Nothing
  <2>4. QED
    BY <2>1, <2>2, <2>3 DEF Woken, Suspended
<1>7. QED
  BY <1>3, <1>4, <1>5, <1>6 DEF Inv

LEMMA NextInv ==
  ASSUME Inv, [Next]_vars
  PROVE  Inv'
<1>1. ASSUME NEW t \in Threads, NEW m \in Mutexes, Unlock(t, m) PROVE Inv'
  BY <1>1, GiveUpInv DEF Unlock
<1>2. ASSUME UNCHANGED vars PROVE Inv'
  BY <1>2 DEF vars, Inv, TypeOK, WaitersHaveHolder, VerdictIsTrue, LockedIsHeld, QueuedWaits,
              CondWaits, AsleepWaits, Woken, Suspended
<1>3. QED
  BY <1>1, <1>2, LockInv, EndInv, TimeoutInv, WaitInv, WaitOrTimeoutInv, CondvarInv DEF Next

LEMMA Safety == Spec => []Inv
<1>1. Inv /\ [Next]_vars => Inv'
  BY NextInv
<1>2. QED
  BY InitInv, <1>1, PTL DEF Spec

-----------------------------------------------------------------------------

(* The variables have their types, whatever the timeouts.                  *)
THEOREM TypeCorrect == Spec => []TypeOK
BY Safety, PTL DEF Inv

(* No waiter is forgotten: whoever is queued on a mutex has a holder to    *)
(* wake it, though a timed lock that gives up clears _locked while others  *)
(* hold the mutex.                                                         *)
THEOREM NobodyForgotten == Spec => []WaitersHaveHolder
BY Safety, PTL DEF Inv

(* mutex_lock_or_timeout returns TRUE exactly if the mutex was given to    *)
(* its caller, in every race of a timeout with an unlock.                  *)
THEOREM AnswersTrue == Spec => []VerdictIsTrue
BY Safety, PTL DEF Inv

-----------------------------------------------------------------------------
(***************************************************************************)
(* Mutual exclusion for any number of threads, mutexes and condition       *)
(* variables, provided that no timeout given to mutex_lock_or_timeout or   *)
(* condvar_wait_or_timeout lies in the future (Sleepers = {}).  The proviso*)
(* cannot be dropped: a timed lock that gives up clears _locked, whoever   *)
(* has the mutex (thread.cpp:159).                                         *)
(***************************************************************************)

NeverSleeps ==
  /\ sleeping = {}
  /\ \A t \in Threads : doing[t].op \notin {"lock_or_timeout", "wait_or_timeout"}

UntimedInv == /\ TypeOK /\ NeverSleeps
              /\ MutualExclusion /\ LockedWhenHeld /\ WaitersHaveHolder

-----------------------------------------------------------------------------

LEMMA WaiterIsThread ==
  ASSUME TypeOK, NEW m \in Mutexes, mq[m] # <<>>
  PROVE  Head(mq[m]) \in Threads /\ Tail(mq[m]) \in Seq(Threads)
BY HeadTailProperties DEF TypeOK

LEMMA UntimedInit == Init => UntimedInv
<1> SUFFICES ASSUME Init PROVE UntimedInv
  OBVIOUS
<1>1. TypeOK
  BY EmptySeq DEF Init, EmptyQueue, TypeOK
<1>2. QED
  BY <1>1 DEF Init, EmptyQueue, UntimedInv, NeverSleeps, Nothing,
              MutualExclusion, LockedWhenHeld, WaitersHaveHolder

(* A mutex that is free is given to one thread.                            *)
LEMMA UntimedAcquire ==
  ASSUME UntimedInv, NEW t \in Threads, NEW m \in Mutexes, Acquire(t, m),
         UNCHANGED <<mq, cq, sleeping, verdict, doing>>
  PROVE  UntimedInv'
<1>1. TypeOK'
  BY DEF UntimedInv, TypeOK, Acquire
<1>2. NeverSleeps'
  BY DEF UntimedInv, NeverSleeps
<1>3. \A n \in Mutexes :
        /\ holders'[n] = IF n = m THEN {t} ELSE holders[n]
        /\ locked'[n] = IF n = m THEN TRUE ELSE locked[n]
  BY DEF UntimedInv, TypeOK, Acquire, LockedWhenHeld
<1>4. MutualExclusion' /\ LockedWhenHeld' /\ WaitersHaveHolder'
  BY <1>3 DEF UntimedInv, MutualExclusion, LockedWhenHeld, WaitersHaveHolder
<1>5. QED
  BY <1>1, <1>2, <1>4 DEF UntimedInv

(* Queueing on a mutex that somebody has.                                  *)
LEMMA UntimedEnqueue ==
  ASSUME UntimedInv, NEW t \in Threads, NEW m \in Mutexes, locked[m],
         mq' = [mq EXCEPT ![m] = Append(@, t)],
         doing' = [doing EXCEPT ![t] = In("lock", m)],
         UNCHANGED <<locked, cq, sleeping, verdict, holders>>
  PROVE  UntimedInv'
<1>1. Append(mq[m], t) \in Seq(Threads)
  BY AppendProperties DEF UntimedInv, TypeOK
<1>2. TypeOK'
  BY <1>1 DEF UntimedInv, TypeOK, In, Ops
<1>3. NeverSleeps'
  BY DEF UntimedInv, TypeOK, NeverSleeps, In
<1>4. WaitersHaveHolder'
  BY DEF UntimedInv, TypeOK, WaitersHaveHolder, LockedWhenHeld
<1>5. QED
  BY <1>2, <1>3, <1>4 DEF UntimedInv, MutualExclusion, LockedWhenHeld

(* Giving a mutex up hands it to one waiter, or frees it if there is none. *)
LEMMA UntimedGiveUp ==
  ASSUME UntimedInv, NEW t \in Threads, NEW m \in Mutexes, t \in holders[m],
         GiveUp(t, m), UNCHANGED <<cq, verdict>>
  PROVE  UntimedInv'
<1>1. holders[m] \ {t} = {}
  BY DEF UntimedInv, MutualExclusion
<1>2. CASE mq[m] = <<>>
  <2>1. /\ locked' = [locked EXCEPT ![m] = FALSE]
        /\ holders' = [holders EXCEPT ![m] = {}]
        /\ UNCHANGED <<mq, cq, sleeping, verdict, doing>>
    BY <1>1, <1>2 DEF GiveUp, UntimedInv, TypeOK
  <2>2. TypeOK'
    BY <2>1 DEF UntimedInv, TypeOK
  <2>3. MutualExclusion' /\ LockedWhenHeld' /\ WaitersHaveHolder'
    BY <1>2, <2>1
    DEF UntimedInv, TypeOK, MutualExclusion, LockedWhenHeld, WaitersHaveHolder
  <2>4. QED
    BY <2>1, <2>2, <2>3 DEF UntimedInv, NeverSleeps
<1>3. CASE mq[m] # <<>>
  <2> DEFINE w == Head(mq[m])
  <2>1. w \in Threads /\ Tail(mq[m]) \in Seq(Threads)
    BY <1>3, WaiterIsThread DEF UntimedInv
  <2>2. /\ mq' = [mq EXCEPT ![m] = Tail(@)]
        /\ sleeping' = {}
        /\ holders' = [holders EXCEPT ![m] = {w}]
        /\ doing' = [doing EXCEPT ![w] = Nothing]
        /\ UNCHANGED <<locked, cq, verdict>>
    BY <1>1, <1>3, <2>1 DEF GiveUp, UntimedInv, TypeOK, NeverSleeps
  <2> HIDE DEF w
  <2>3. TypeOK'
    BY <2>1, <2>2 DEF UntimedInv, TypeOK
  <2>4. NeverSleeps'
    BY <2>1, <2>2 DEF UntimedInv, TypeOK, NeverSleeps, Nothing
  <2>5. \A n \in Mutexes :
          /\ holders'[n] = IF n = m THEN {w} ELSE holders[n]
          /\ mq'[n] = IF n = m THEN Tail(mq[m]) ELSE mq[n]
    BY <2>2 DEF UntimedInv, TypeOK
  <2>6. MutualExclusion' /\ LockedWhenHeld' /\ WaitersHaveHolder'
    BY <2>2, <2>5 DEF UntimedInv, MutualExclusion, LockedWhenHeld, WaitersHaveHolder
  <2>7. QED
    BY <2>3, <2>4, <2>6 DEF UntimedInv
<1>4. QED
  BY <1>2, <1>3

(* condvar_wait exchanges the mutex with its first waiter.                 *)
LEMMA UntimedWait ==
  ASSUME UntimedInv, NEW t \in Threads, NEW m \in Mutexes, NEW c \in Condvars,
         Wait(t, c, m)
  PROVE  UntimedInv'
<1> DEFINE w == Head(mq[m])
<1>1. t \in holders[m] /\ mq[m] # <<>> /\ holders[m] \ {t} = {}
  BY DEF Wait, UntimedInv, MutualExclusion
<1>2. w \in Threads /\ Tail(mq[m]) \in Seq(Threads)
  BY <1>1, WaiterIsThread DEF UntimedInv
<1>3. Append(Tail(mq[m]), t) \in Seq(Threads)
  BY <1>2, AppendProperties
<1>4. /\ mq' = [mq EXCEPT ![m] = Append(Tail(@), t)]
      /\ sleeping' = {}
      /\ holders' = [holders EXCEPT ![m] = {w}]
      /\ locked' = [locked EXCEPT ![m] = TRUE]
      /\ UNCHANGED <<cq, verdict>>
  BY <1>1 DEF Wait, UntimedInv, TypeOK, NeverSleeps
<1>5. /\ doing' \in [Threads -> [op : Ops, on : Mutexes] \cup {Nothing}]
      /\ \A u \in Threads : doing'[u] \in {doing[u], In("wait", m), Nothing}
  <2>1. doing' = [doing EXCEPT ![t] = In("wait", m),
                               ![w] = IF @.op = "lock_or_timeout"
                                      THEN @ ELSE Nothing]
    BY DEF Wait
  <2>2. In("wait", m) \in [op : Ops, on : Mutexes]
    BY DEF In, Ops
  <2>3. QED
    BY <1>2, <2>1, <2>2 DEF UntimedInv, TypeOK
<1> HIDE DEF w
<1>6. TypeOK'
  BY <1>2, <1>3, <1>4, <1>5 DEF UntimedInv, TypeOK
<1>7. NeverSleeps'
  BY <1>4, <1>5 DEF UntimedInv, NeverSleeps, In, Nothing
<1>8. \A n \in Mutexes :
        /\ holders'[n] = IF n = m THEN {w} ELSE holders[n]
        /\ locked'[n] = IF n = m THEN TRUE ELSE locked[n]
        /\ n # m => mq'[n] = mq[n]
  BY <1>4 DEF UntimedInv, TypeOK
<1>9. MutualExclusion' /\ LockedWhenHeld' /\ WaitersHaveHolder'
  BY <1>8 DEF UntimedInv, MutualExclusion, LockedWhenHeld, WaitersHaveHolder
<1>10. QED
  BY <1>6, <1>7, <1>9 DEF UntimedInv

(* Waking threads from condition variables moves no mutex.                 *)
LEMMA UntimedCondvar ==
  ASSUME UntimedInv, NEW c \in Condvars,
         \/ \E t \in Threads : MutexlessWait(t, c)
         \/ Signal(c)
         \/ Broadcast(c)
  PROVE  UntimedInv'
<1>1. /\ UNCHANGED <<locked, mq, verdict, doing, holders>>
      /\ sleeping' = {}
  BY DEF MutexlessWait, Signal, Broadcast, UntimedInv, NeverSleeps
<1>2. cq' \in [Condvars -> Seq(Threads)]
  <2>1. CASE \E t \in Threads : MutexlessWait(t, c)
    BY <2>1, AppendProperties DEF MutexlessWait, UntimedInv, TypeOK
  <2>2. CASE Signal(c)
    <3>1. Tail(cq[c]) \in Seq(Threads)
      BY <2>2, HeadTailProperties DEF Signal, UntimedInv, TypeOK
    <3>2. QED
      BY <2>2, <3>1 DEF Signal, UntimedInv, TypeOK
  <2>3. CASE Broadcast(c)
    BY <2>3, EmptySeq DEF Broadcast, UntimedInv, TypeOK
  <2>4. QED
    BY <2>1, <2>2, <2>3
<1>3. TypeOK'
  BY <1>1, <1>2 DEF UntimedInv, TypeOK
<1>4. QED
  BY <1>1, <1>3 DEF UntimedInv, NeverSleeps, MutualExclusion, LockedWhenHeld,
                    WaitersHaveHolder

LEMMA UntimedNext ==
  ASSUME Sleepers = {}, UntimedInv, [Next]_vars
  PROVE  UntimedInv'
<1>1. ASSUME NEW t \in Threads, NEW m \in Mutexes, Lock(t, m) PROVE UntimedInv'
  BY <1>1, UntimedAcquire, UntimedEnqueue DEF Lock
<1>2. ASSUME NEW t \in Threads, NEW m \in Mutexes, Unlock(t, m) PROVE UntimedInv'
  BY <1>2, UntimedGiveUp DEF Unlock
<1>3. ASSUME NEW t \in Threads, NEW m \in Mutexes, LockOrTimeout(t, m) PROVE UntimedInv'
  BY <1>3, UntimedAcquire DEF LockOrTimeout, SleepOn
<1>4. ASSUME NEW t \in Threads,
             LockOrTimeoutEnd(t) \/ Timeout(t) \/ WaitOrTimeoutEnd(t)
      PROVE  FALSE
  BY <1>4 DEF LockOrTimeoutEnd, Timeout, WaitOrTimeoutEnd, Woken, UntimedInv, NeverSleeps
<1>5. ASSUME NEW t \in Threads, NEW m \in Mutexes, NEW c \in Condvars,
             WaitOrTimeout(t, c, m)
      PROVE  UntimedInv'
  BY <1>5, UntimedGiveUp DEF WaitOrTimeout
<1>6. CASE UNCHANGED vars
  BY <1>6 DEF vars, UntimedInv, TypeOK, NeverSleeps, MutualExclusion, LockedWhenHeld,
              WaitersHaveHolder
<1>7. QED
  BY <1>1, <1>2, <1>3, <1>4, <1>5, <1>6, UntimedWait, UntimedCondvar DEF Next

(* With no timeout in the future a mutex has at most one holder, _locked   *)
(* says whether it has one, and a queued thread waits for a holder.        *)
THEOREM Exclusion ==
  Sleepers = {} => (Spec => [](MutualExclusion /\ LockedWhenHeld
                                               /\ WaitersHaveHolder))
<1> SUFFICES ASSUME Sleepers = {}
             PROVE  Spec => [](MutualExclusion /\ LockedWhenHeld
                                               /\ WaitersHaveHolder)
  OBVIOUS
<1>1. Init => UntimedInv
  BY UntimedInit
<1>2. UntimedInv /\ [Next]_vars => UntimedInv'
  BY UntimedNext
<1>3. UntimedInv => MutualExclusion /\ LockedWhenHeld /\ WaitersHaveHolder
  BY DEF UntimedInv
<1>4. QED
  BY <1>1, <1>2, <1>3, PTL DEF Spec

-----------------------------------------------------------------------------
(***************************************************************************)
(* The reader-writer mutex, for any finite sets of readers and writers:    *)
(* exclusion, exact counting and no lost wake-up.  The tests of the code   *)
(* are made on the counters, so the invariant that keeps a writer alone    *)
(* has to say that the counters are exact.                                 *)
(***************************************************************************)

RwInv == RwTypeOK /\ CountersExact /\ LockedWhileWriting /\ WriterAlone

(* A writer that was woken and has not tested again yet.                   *)
Awake == \E w \in Clients : pc[w] = "wwait" /\ ~InQueue(w)

-----------------------------------------------------------------------------

LEMMA InFinite == \A S : IsFiniteSet(ThreadsAt(S)) /\ Cardinality(ThreadsAt(S)) \in Nat
<1>1. \A S : ThreadsAt(S) \subseteq Clients
  BY DEF ThreadsAt
<1>2. QED
  BY <1>1, ClientsAssumption, FS_Subset, FS_CardinalityType

(* How the population of a label changes when one thread moves.            *)
LEMMA Enters ==
  ASSUME RwTypeOK, NEW t \in Clients, NEW l, NEW k, Goto(t, l), pc[t] # k, l = k
  PROVE  Cardinality(ThreadsAt({k}))' = Cardinality(ThreadsAt({k})) + 1
<1>1. ThreadsAt({k})' = ThreadsAt({k}) \cup {t} /\ t \notin ThreadsAt({k})
  BY DEF ThreadsAt, Goto, RwTypeOK
<1>2. QED
  BY <1>1, InFinite, FS_AddElement

LEMMA Leaves ==
  ASSUME RwTypeOK, NEW t \in Clients, NEW l, NEW k, Goto(t, l), pc[t] = k, l # k
  PROVE  Cardinality(ThreadsAt({k}))' = Cardinality(ThreadsAt({k})) - 1
<1>1. ThreadsAt({k})' = ThreadsAt({k}) \ {t} /\ t \in ThreadsAt({k})
  BY DEF ThreadsAt, Goto, RwTypeOK
<1>2. QED
  BY <1>1, InFinite, FS_RemoveElement

LEMMA Stays ==
  ASSUME RwTypeOK, NEW t \in Clients, NEW l, NEW k, Goto(t, l), pc[t] = k <=> l = k
  PROVE  Cardinality(ThreadsAt({k}))' = Cardinality(ThreadsAt({k}))
<1>1. ThreadsAt({k})' = ThreadsAt({k})
  BY DEF ThreadsAt, Goto, RwTypeOK
<1>2. QED
  BY <1>1

LEMMA NobodyReads ==
  ASSUME CountersExact, readers = 0
  PROVE  \A t \in Clients : pc[t] # "reading"
<1>1. ThreadsAt({"reading"}) = {}
  BY InFinite, FS_EmptySet DEF CountersExact
<1>2. QED
  BY <1>1 DEF ThreadsAt

LEMMA SomebodyReads ==
  ASSUME CountersExact, NEW t \in Clients, pc[t] = "reading"
  PROVE  readers > 0
<1>1. t \in ThreadsAt({"reading"})
  BY DEF ThreadsAt
<1>2. QED
  BY <1>1, InFinite, FS_EmptySet DEF CountersExact

LEMMA WriterWaits ==
  ASSUME CountersExact, NEW t \in Clients, pc[t] = "wwait"
  PROVE  writerq > 0
<1>1. t \in ThreadsAt({"wwait"})
  BY DEF ThreadsAt
<1>2. QED
  BY <1>1, InFinite, FS_EmptySet DEF CountersExact

LEMMA WriterCounted ==
  ASSUME CountersExact, writerq > 0
  PROVE  \E t \in Clients : pc[t] = "wwait"
<1>1. ThreadsAt({"wwait"}) # {}
  BY InFinite, FS_EmptySet DEF CountersExact
<1>2. QED
  BY <1>1 DEF ThreadsAt

-----------------------------------------------------------------------------

LEMMA RwInitInv == RwInit => RwInv
<1> SUFFICES ASSUME RwInit PROVE RwInv
  OBVIOUS
<1>1. \A l \in {"reading", "wwait", "writing"} : ThreadsAt({l}) = {}
  BY DEF RwInit, ThreadsAt
<1>2. CountersExact
  BY <1>1, FS_EmptySet DEF RwInit, CountersExact
<1>3. RwTypeOK
  BY EmptySeq DEF RwInit, RwTypeOK
<1>4. QED
  BY <1>1, <1>2, <1>3 DEF RwInit, RwInv, LockedWhileWriting, WriterAlone

LEMMA ReadTestInv ==
  ASSUME RwInv, NEW t \in Clients, pc[t] \in {"out", "rwait"}, ReadTest(t)
  PROVE  RwInv'
<1> USE DEF RwInv
<1>1. CASE ReadBlocked
  <2>1. /\ queue' = Append(queue, t) /\ Goto(t, "rwait")
        /\ UNCHANGED <<rwLocked, readers, writerq>>
    BY <1>1 DEF ReadTest
  <2>2. RwTypeOK'
    BY <2>1, AppendProperties DEF RwTypeOK, Goto
  <2>3. CountersExact'
    BY <2>1, Stays DEF CountersExact
  <2>4. LockedWhileWriting'
    BY <2>1 DEF LockedWhileWriting, ThreadsAt, Goto, RwTypeOK
  <2>5. WriterAlone'
    BY <2>1 DEF WriterAlone, Goto, RwTypeOK
  <2>6. QED
    BY <2>2, <2>3, <2>4, <2>5
<1>2. CASE ~ReadBlocked
  <2>1. /\ readers' = readers + 1 /\ Goto(t, "reading")
        /\ UNCHANGED <<rwLocked, writerq, queue>>
    BY <1>2 DEF ReadTest
  <2>2. RwTypeOK'
    BY <2>1 DEF RwTypeOK, Goto
  <2>3. CountersExact'
    BY <2>1, Enters, Stays DEF CountersExact
  <2>4. \A u \in Clients : pc[u] # "writing"
    BY <1>2 DEF ReadBlocked, LockedWhileWriting, ThreadsAt
  <2>5. LockedWhileWriting' /\ WriterAlone'
    BY <2>1, <2>4 DEF LockedWhileWriting, WriterAlone, ThreadsAt, Goto, RwTypeOK
  <2>6. QED
    BY <2>2, <2>3, <2>5
<1>3. QED
  BY <1>1, <1>2

(* Taking the lock to write: nobody has it, and nobody reads.              *)
LEMMA WriteEnterInv ==
  ASSUME RwInv, NEW t \in Clients, pc[t] \in {"out", "wwait"},
         ~WriteBlocked, rwLocked' = TRUE, Goto(t, "writing"),
         UNCHANGED <<readers, queue>>,
         writerq' = IF pc[t] = "wwait" THEN writerq - 1 ELSE writerq
  PROVE  RwInv'
<1> USE DEF RwInv
<1>1. readers = 0 /\ ~rwLocked
  BY DEF RwTypeOK, WriteBlocked
<1>2. \A u \in Clients : pc[u] \notin {"reading", "writing"}
  BY <1>1, NobodyReads DEF LockedWhileWriting, ThreadsAt
<1>3. RwTypeOK'
  BY WriterWaits DEF RwTypeOK, Goto
<1>4. CountersExact'
  BY <1>2, Leaves, Stays DEF CountersExact
<1>5. LockedWhileWriting' /\ WriterAlone'
  BY <1>2 DEF LockedWhileWriting, WriterAlone, ThreadsAt, Goto, RwTypeOK
<1>6. QED
  BY <1>3, <1>4, <1>5

LEMMA WriteLockInv ==
  ASSUME RwInv, NEW t \in Clients, WriteLock(t)
  PROVE  RwInv'
<1> USE DEF RwInv
<1>1. CASE WriteBlocked
  <2>1. /\ pc[t] = "out" /\ writerq' = writerq + 1
        /\ queue' = Append(queue, t) /\ Goto(t, "wwait")
        /\ UNCHANGED <<rwLocked, readers>>
    BY <1>1 DEF WriteLock
  <2>2. RwTypeOK'
    BY <2>1, AppendProperties DEF RwTypeOK, Goto
  <2>3. CountersExact'
    BY <2>1, Enters, Stays DEF CountersExact
  <2>4. LockedWhileWriting'
    BY <2>1 DEF LockedWhileWriting, ThreadsAt, Goto, RwTypeOK
  <2>5. WriterAlone'
    BY <2>1 DEF WriterAlone, Goto, RwTypeOK
  <2>6. QED
    BY <2>2, <2>3, <2>4, <2>5
<1>2. CASE ~WriteBlocked
  BY <1>2, WriteEnterInv DEF WriteLock
<1>3. QED
  BY <1>1, <1>2

LEMMA WriteRetryInv ==
  ASSUME RwInv, NEW t \in Clients, WriteRetry(t)
  PROVE  RwInv'
<1> USE DEF RwInv
<1>1. CASE WriteBlocked
  <2>1. queue' = Append(queue, t) /\ UNCHANGED <<rwLocked, readers, writerq, pc>>
    BY <1>1 DEF WriteRetry
  <2>2. RwTypeOK'
    BY <2>1, AppendProperties DEF RwTypeOK
  <2>3. QED
    BY <2>1, <2>2 DEF CountersExact, ThreadsAt, LockedWhileWriting, WriterAlone
<1>2. CASE ~WriteBlocked
  BY <1>2, WriteEnterInv DEF WriteRetry
<1>3. QED
  BY <1>1, <1>2

LEMMA ReadUnlockInv ==
  ASSUME RwInv, NEW t \in Clients, ReadUnlock(t)
  PROVE  RwInv'
<1> USE DEF RwInv
<1>1. /\ pc[t] = "reading" /\ readers' = readers - 1 /\ queue' = <<>>
      /\ Goto(t, "out") /\ UNCHANGED <<rwLocked, writerq>>
  BY DEF ReadUnlock, WakeAll
<1>2. RwTypeOK'
  BY <1>1, SomebodyReads, EmptySeq DEF RwTypeOK, Goto
<1>3. CountersExact'
  BY <1>1, Leaves, Stays DEF CountersExact
<1>4. LockedWhileWriting'
  BY <1>1 DEF LockedWhileWriting, ThreadsAt, Goto, RwTypeOK
<1>5. WriterAlone'
  BY <1>1 DEF WriterAlone, Goto, RwTypeOK
<1>6. QED
  BY <1>2, <1>3, <1>4, <1>5

LEMMA WriteUnlockInv ==
  ASSUME RwInv, NEW t \in Clients, WriteUnlock(t)
  PROVE  RwInv'
<1> USE DEF RwInv
<1>1. /\ pc[t] = "writing" /\ rwLocked' = FALSE /\ queue' = <<>>
      /\ Goto(t, "out") /\ UNCHANGED <<readers, writerq>>
  BY DEF WriteUnlock, WakeAll, GiveBack
<1>2. RwTypeOK'
  BY <1>1, EmptySeq DEF RwTypeOK, Goto
<1>3. CountersExact'
  BY <1>1, Stays DEF CountersExact
<1>4. \A u \in Clients : pc'[u] # "writing"
  BY <1>1 DEF WriterAlone, Goto, RwTypeOK
<1>5. LockedWhileWriting' /\ WriterAlone'
  BY <1>1, <1>4 DEF LockedWhileWriting, WriterAlone, ThreadsAt
<1>6. QED
  BY <1>2, <1>3, <1>5

LEMMA RwNextInv == RwInv /\ [RwNext]_rwVars => RwInv'
<1> SUFFICES ASSUME RwInv, [RwNext]_rwVars PROVE RwInv'
  OBVIOUS
<1>1. ASSUME NEW t \in Readers, ReadLock(t) \/ ReadRetry(t) \/ ReadUnlock(t)
      PROVE  RwInv'
  BY <1>1, ReadTestInv, ReadUnlockInv DEF ReadLock, ReadRetry, Clients
<1>2. ASSUME NEW t \in Writers, WriteLock(t) \/ WriteRetry(t) \/ WriteUnlock(t)
      PROVE  RwInv'
  BY <1>2, WriteLockInv, WriteRetryInv, WriteUnlockInv DEF Clients
<1>3. CASE UNCHANGED rwVars
  BY <1>3 DEF rwVars, RwInv, RwTypeOK, CountersExact, ThreadsAt, LockedWhileWriting, WriterAlone
<1>4. QED
  BY <1>1, <1>2, <1>3 DEF RwNext

LEMMA RwSafety == RwSpec => []RwInv
BY RwInitInv, RwNextInv, PTL DEF RwSpec

(* A writer has the lock alone.                                            *)
THEOREM WritersExclude == RwSpec => []WriterAlone
<1>1. RwInv => WriterAlone
  BY DEF RwInv
<1>2. QED
  BY <1>1, RwSafety, PTL

(* _readers and _writerq count the readers and the waiting writers.        *)
THEOREM CountersCount == RwSpec => []CountersExact
<1>1. RwInv => CountersExact
  BY DEF RwInv
<1>2. QED
  BY <1>1, RwSafety, PTL

(* _locked is set exactly while a writer has the lock.                     *)
THEOREM LockedTrue == RwSpec => []LockedWhileWriting
<1>1. RwInv => LockedWhileWriting
  BY DEF RwInv
<1>2. QED
  BY <1>1, RwSafety, PTL

-----------------------------------------------------------------------------
(* No wake-up is lost.  A reader is suspended behind the waiting writers   *)
(* even when the lock is free: then one of them is awake, because the      *)
(* counter is exact and they cannot all be suspended for a free lock.      *)

LEMMA BlockedForCause ==
  ASSUME RwInv, SuspendedForCause, ReadBlocked
  PROVE  rwLocked \/ readers > 0 \/ Awake
<1>1. CASE writerq > 0
  <2>1. PICK w \in Clients : pc[w] = "wwait"
    BY <1>1, WriterCounted DEF RwInv
  <2>2. CASE InQueue(w)
    BY <2>2 DEF InQueue, SuspendedForCause, Awake, ToSet
  <2>3. QED
    BY <2>1, <2>2 DEF Awake
<1>2. QED
  BY <1>1 DEF ReadBlocked

LEMMA CauseNext ==
  ASSUME RwInv, SuspendedForCause, [RwNext]_rwVars
  PROVE  SuspendedForCause'
<1> USE DEF RwInv
<1>1. ASSUME NEW t \in Readers, ReadLock(t) \/ ReadRetry(t)
      PROVE  SuspendedForCause'
  <2>1. t \in Clients /\ pc[t] \in {"out", "rwait"} /\ ReadTest(t)
    BY <1>1 DEF ReadLock, ReadRetry, Clients
  <2>2. CASE ReadBlocked
    <3>1. /\ queue' = Append(queue, t) /\ Goto(t, "rwait")
          /\ UNCHANGED <<rwLocked, readers, writerq>>
      BY <2>1, <2>2 DEF ReadTest
    <3>2. ASSUME NEW w \in Clients, pc[w] = "wwait", ~InQueue(w)
          PROVE  pc'[w] = "wwait" /\ ~InQueue(w)'
      <4>1. w # t /\ pc'[w] = "wwait"
        BY <2>1, <3>1, <3>2 DEF Goto, RwTypeOK
      <4>2. ToSet(queue') = ToSet(queue) \cup {t}
        BY <2>1, <3>1, AppendProperties DEF RwTypeOK, ToSet
      <4>3. QED
        BY <3>2, <4>1, <4>2 DEF InQueue
    <3>3. QED
      BY <2>2, <3>1, <3>2, BlockedForCause DEF SuspendedForCause, Awake
  <2>3. CASE ~ReadBlocked
    BY <2>1, <2>3 DEF ReadTest, SuspendedForCause, RwTypeOK
  <2>4. QED
    BY <2>2, <2>3
<1>2. ASSUME NEW t \in Writers, WriteLock(t) \/ WriteRetry(t)
      PROVE  SuspendedForCause'
  BY <1>2 DEF WriteLock, WriteRetry, WriteBlocked, SuspendedForCause
<1>3. ASSUME NEW t \in Clients, ReadUnlock(t) \/ WriteUnlock(t)
      PROVE  SuspendedForCause'
  BY <1>3 DEF ReadUnlock, WriteUnlock, WakeAll, SuspendedForCause
<1>4. CASE UNCHANGED rwVars
  BY <1>4 DEF rwVars, SuspendedForCause, InQueue
<1>5. QED
  BY <1>1, <1>2, <1>3, <1>4 DEF RwNext, Clients

(* A suspended thread waits for one that has the lock or is about to.      *)
THEOREM NoWakeUpLost == RwSpec => []SuspendedForCause
<1>1. RwInit => SuspendedForCause
  BY DEF RwInit, SuspendedForCause
<1>2. QED
  BY <1>1, CauseNext, RwSafety, PTL DEF RwSpec

-----------------------------------------------------------------------------

(* No reader enters while a writer is waiting.                             *)
THEOREM WritersFirst == RwSpec => WriterPreference
<1> DEFINE Waits == ThreadsAt({"wwait"}) # {}
           NoReaderEnters == \A t \in Clients :
             pc[t] # "reading" /\ pc'[t] = "reading" => ThreadsAt({"wwait"}) = {}
<1>1. RwInv /\ [RwNext]_rwVars => [NoReaderEnters]_rwVars
  <2> SUFFICES ASSUME RwInv, RwNext, Waits,
                      NEW t \in Clients, pc[t] # "reading", pc'[t] = "reading"
               PROVE  FALSE
    OBVIOUS
  <2>1. writerq > 0
    BY WriterWaits DEF RwInv, ThreadsAt
  <2>2. ASSUME NEW u \in Readers, ReadLock(u) \/ ReadRetry(u)
        PROVE  FALSE
    BY <2>1, <2>2 DEF ReadLock, ReadRetry, ReadTest, ReadBlocked, Goto, RwInv, RwTypeOK
  <2>3. ASSUME NEW u \in Clients, ReadUnlock(u) \/ WriteLock(u)
                                   \/ WriteRetry(u) \/ WriteUnlock(u)
        PROVE  FALSE
    BY <2>3 DEF ReadUnlock, WriteLock, WriteRetry, WriteUnlock, Goto, RwInv, RwTypeOK
  <2>4. QED
    BY <2>2, <2>3 DEF RwNext, Clients
<1>2. QED
  BY <1>1, RwSafety, PTL DEF RwSpec, WriterPreference

=============================================================================
