----------------------------- MODULE MCDiskCache -----------------------------
(* DiskCache on a few threads, blocks and sectors, for TLC.                *)
EXTENDS DiskCache

CONSTANTS t1, t2, t3

ReaderSymmetry == Permutations({t2, t3})

=============================================================================
