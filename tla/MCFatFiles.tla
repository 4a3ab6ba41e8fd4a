------------------------------ MODULE MCFatFiles ------------------------------
(* FatFiles on a small volume, for TLC.                                    *)
EXTENDS FatFiles, TLC

\* No choice depends on which handle or which name it is.
Symmetry == Permutations(Handles) \cup Permutations(Names)

=============================================================================
