\* Two permanent threads and two program threads, one of them of high
\* priority; two wait queues, delays of 0 and 1 tick.
CONSTANTS
  worker1 = worker1
  worker2 = worker2
  Threads = {idle, main, worker1, worker2}
  Idle = idle
  Primordial = main
  WaitQueues = {q1, q2}
  Prio <- MixedPrio
  Quantum <- UnitQuanta
  MaxDelay = 1
  ScanLimit = 5
SPECIFICATION FairSpec
INVARIANTS TypeOK Placement NoDeadlockPanic
PROPERTIES TimerWakesAll VerdictIsFinal ResumesBest ReadyRuns
