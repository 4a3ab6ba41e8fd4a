------------------------------- MODULE MCMutex -------------------------------
(* Mutex on a few threads, for TLC.                                        *)
EXTENDS Mutex

CONSTANTS t1, t2, t3

ThreadSymmetry == Permutations(Threads)

=============================================================================
