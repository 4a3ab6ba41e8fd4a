\* Three clusters besides the first one of the directory: a file of two
\* clusters and another file, or a directory of two and two files.
CONSTANTS
  LastCluster = 5
  Units = 2
  MaxLength = 3
  Names = {a, b}
  Handles = {h1, h2}
  RenameFreely = FALSE
SYMMETRY Symmetry
SPECIFICATION Spec
INVARIANTS TypeOK NoCrossLink LocatesEntry CursorTrue
