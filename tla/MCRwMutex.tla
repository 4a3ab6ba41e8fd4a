------------------------------ MODULE MCRwMutex ------------------------------
(* RwMutex on a few threads, for TLC.                                      *)
EXTENDS RwMutex

CONSTANTS r1, r2, w1, w2, both

=============================================================================
