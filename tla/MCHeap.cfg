\* A request below MIN_ALLOC_SIZE, one that is not a multiple of 4, and one
\* whose block can be split.  The heap may be full with nothing to free left.
CONSTANTS
  HeapSize = 120
  Requests = {4, 9, 40}
  MinSplitDelta = 24
  Null = null
SPECIFICATION Spec
CHECK_DEADLOCK FALSE
INVARIANTS BlocksTile
PROPERTIES ImplementsAllocator
