\* One client at a time, more sectors than blocks.
CONSTANTS
  t1 = t1
  t2 = t2
  t3 = t3
  Threads = {t1}
  Writers = {t1}
  Blocks = {b1, b2}
  Sectors = {s1, s2, s3}
  BadSectors = {}
  NoSector = none
SPECIFICATION Spec
INVARIANTS FreeIsClean
PROPERTIES ImplementsStore
