\* Three clients: one whose command is in progress, one that waits for the
\* entry and one that may take it between the wake-up of the second and its
\* retry; one of them is urgent.  Once IDE support is cut, every client may be
\* stuck.
CONSTANTS
  Clients = {c1, c2, c3}
  Urgent = {c1}
SPECIFICATION Spec
CHECK_DEADLOCK FALSE
INVARIANTS TypeOK EntryExact OwnResult
PROPERTIES CommandEnds
