\* Two clients on one block.
CONSTANTS
  t1 = t1
  t2 = t2
  t3 = t3
  Threads = {t1, t2}
  Writers = {t1}
  Blocks = {b1}
  Sectors = {s1, s2}
  BadSectors = {}
  NoSector = none
SPECIFICATION Spec
CHECK_DEADLOCK FALSE
INVARIANTS FreeIsClean
