\* No reader, one, or two, which poll.  late has two bits, so that they take it
\* round below 0 and back.
CONSTANTS
  Readers = {r1, r2}
  Chars = {"x", "y"}
  Length = 3
  LateRange = 4
  MaxWritten = 5
SPECIFICATION StreamSpec
CHECK_DEADLOCK FALSE
INVARIANTS Delivered
PROPERTIES RefusedOnlyBehind
