------------------------------ MODULE Allocator ------------------------------
(***************************************************************************)
(* What src/heap.cpp promises to the callers of kmalloc, kfree and the C   *)
(* library's malloc and free: ranges of an arena, of at least the size     *)
(* asked for, that nobody else has until they are given back.              *)
(***************************************************************************)
EXTENDS Integers

CONSTANTS ArenaSize, \* heap->size
          Requests   \* the sizes clients ask for

VARIABLE lent  \* the ranges clients have: [at |-> first byte, size |-> length]

Ranges == [at : 0 .. ArenaSize, size : Requests]

Apart(r, s) == r.at + r.size <= s.at \/ s.at + s.size <= r.at

Init == lent = {}

\* Which range is lent is left open.
Malloc(r) ==
  /\ r \in Ranges
  /\ r.at + r.size <= ArenaSize
  /\ \A other \in lent : Apart(r, other)
  /\ lent' = lent \cup {r}

\* The ranges of the others are not disturbed.
Free(r) == r \in lent /\ lent' = lent \ {r}

Next == (\E r \in lent' : Malloc(r)) \/ (\E r \in lent : Free(r))

Spec == Init /\ [][Next]_lent

=============================================================================
