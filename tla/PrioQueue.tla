------------------------------ MODULE PrioQueue ------------------------------
(***************************************************************************)
(* The queues of src/include/queue.h (USE_DOUBLY_LINKED_LIST), on which    *)
(* thread.cpp keeps ready, waiting and sleeping threads: a sequence, head  *)
(* first.  The macro BEFORE(elem, node) is given as the set of the nodes   *)
(* that elem goes before.                                                  *)
(***************************************************************************)
EXTENDS Integers, SequencesExt

\* The number of nodes insert() walks past, from the tail, until it reaches
\* one that the new node does not go before, or the queue's own node.
Passed(q, later) ==
  CHOOSE n \in 0..Len(q) :
    /\ \A i \in (Len(q) - n + 1)..Len(q) : q[i] \in later
    /\ n < Len(q) => q[Len(q) - n] \notin later

\* Mutant: BEFORE is not consulted.
QInsertLast(elem, q, later) == Append(q, elem)

QInsert(elem, q, later) == InsertAt(q, Len(q) - Passed(q, later) + 1, elem)

\* A node that is on no queue is linked to itself: removing it changes nothing.
QRemove(elem, q) ==
  IF elem \in ToSet(q)
  THEN RemoveAt(q, CHOOSE i \in DOMAIN q : q[i] = elem)
  ELSE q

=============================================================================
