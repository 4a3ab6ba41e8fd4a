\* Three threads, one of which writes, on two blocks; a sector that may fail.
\* The lock of a block may end up taken by nobody (flush_block unlocks it
\* as a plain mutex): the system may stop.
CONSTANTS
  t1 = t1
  t2 = t2
  t3 = t3
  Threads = {t1, t2, t3}
  Writers = {t1}
  Blocks = {b1, b2}
  Sectors = {s1, s2}
  BadSectors = {s2}
  NoSector = none
SPECIFICATION Spec
SYMMETRY ReaderSymmetry
CHECK_DEADLOCK FALSE
INVARIANTS TypeOK RefcountExact OwnSector LockExclusive CleanMeansWritten
