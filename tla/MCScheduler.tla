----------------------------- MODULE MCScheduler -----------------------------
(* Scheduler on small sets of threads, for TLC.                            *)
EXTENDS Scheduler

CONSTANTS worker1, worker2

\* The kernel's own build: every thread at normal_priority.
SamePrio == [t \in Threads |-> 200]

\* GAMBIT_HIGH_PRIO: a program thread at high_priority.
MixedPrio == [t \in Threads |-> IF t = worker1 THEN 300 ELSE 200]

\* One pulse, and two.
UnitQuanta == [t \in Threads |-> 1]
LongQuanta == [t \in Threads |-> 2]

=============================================================================
