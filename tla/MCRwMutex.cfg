\* Two readers, two writers, and a thread that does both.
CONSTANTS
  r1 = r1
  r2 = r2
  w1 = w1
  w2 = w2
  both = both
  Readers = {r1, r2, both}
  Writers = {w1, w2, both}
SPECIFICATION RwFairSpec
INVARIANTS WriterAlone CountersExact SuspendedForCause
PROPERTIES WriterPreference WriterEnters
