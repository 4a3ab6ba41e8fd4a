-------------------------------- MODULE MCHeap --------------------------------
(* Heap with a small heap, for TLC.                                        *)
EXTENDS Heap

=============================================================================
