\* Every thread may pass a timeout in the future.
CONSTANTS
  t1 = t1
  t2 = t2
  t3 = t3
  Threads = {t1, t2, t3}
  Mutexes = {m1}
  Condvars = {c1}
  Sleepers = {t1, t2, t3}
SPECIFICATION Spec
SYMMETRY ThreadSymmetry
INVARIANTS TypeOK WaitersHaveHolder VerdictIsTrue
