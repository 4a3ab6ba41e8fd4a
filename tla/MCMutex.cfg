\* Timeouts never in the future, as in the kernel's own calls.  One mutex:
\* with two, clients could deadlock by their locking order.
CONSTANTS
  t1 = t1
  t2 = t2
  t3 = t3
  Threads = {t1, t2, t3, t4}
  Mutexes = {m1}
  Condvars = {c1, c2}
  Sleepers = {}
SPECIFICATION FairSpec
INVARIANTS MutualExclusion
PROPERTIES WaiterGetsMutex
