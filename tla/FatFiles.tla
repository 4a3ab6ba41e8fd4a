------------------------------- MODULE FatFiles -------------------------------
(***************************************************************************)
(* Files of a FAT32 volume: src/drivers/filesystem/fat.cpp, with the calls *)
(* of vfs.cpp that combine its operations.  Several handles may be open on *)
(* the same file, each with its own cursor, length and place of the        *)
(* directory entry; the operations run one after the other.                *)
(*                                                                         *)
(* Directory: the root one, whose names take one entry each.  Unit: a      *)
(* directory entry, and as much of a file; a read or a write moves one, a  *)
(* longer one repeats it.  The volume is never full: the search for a      *)
(* cluster would go on past the end of the table.                          *)
(***************************************************************************)
EXTENDS Integers, SequencesExt, FiniteSets

CONSTANTS LastCluster, \* the last cluster; the first one, 2, is the root's
          Units,       \* units in a cluster
          MaxLength,   \* bound on the length of a file
          Names, Handles,
          RenameFreely \* whether a file is renamed that is open, or to a name
                       \* that another one has

ASSUME FatAssumption ==
  /\ LastCluster \in Nat /\ LastCluster > 2 /\ Units \in Nat \ {0} /\ MaxLength \in Nat
  /\ IsFiniteSet(Handles) /\ Names \cap {"end", "unused", "other"} = {}
  /\ RenameFreely \in BOOLEAN

Root     == 2      \* FAT32_FIRST_CLUSTER
Clusters == Root .. LastCluster
Free     == 0
EOF      == -1     \* FAT_32_EOF

VARIABLES
  fat,   \* the table: the link of each cluster
  dir,   \* the entries of the directory, by position
  file,  \* file[h]: the fat_file of h
  links  \* the open chains, by first cluster: ref_count, remove_on_close

vars == <<fat, dir, file, links>>

\* Directory entries: DIR_Name[0] is 0 and all that follow are available; it
\* is FAT_UNUSED_ENTRY; it is the label, or what else the cluster held.
End     == [name |-> "end"]
Unused  == [name |-> "unused"]
Other   == [name |-> "other"]
Entry(n, first, length) == [name |-> n, first |-> first, length |-> length]

Closed == [first |-> Free]

\* Closed chains stay on the list; one that is not there is added as this.
NoReference == [refs |-> 0, remove |-> FALSE]

\* A volume without files, with or without a label in its directory.
Init ==
  /\ fat = [c \in Clusters |-> IF c = Root THEN EOF ELSE Free]
  /\ \E label \in {End, Other} : dir = [i \in 1 .. Units |-> IF i = 1 THEN label ELSE End]
  /\ file = [h \in Handles |-> Closed]
  /\ links = [c \in Clusters |-> NoReference]

IsOpen(h) == file[h] # Closed

-----------------------------------------------------------------------------
(* Clusters.                                                               *)

\* fat_32_find_first_empty_cluster
HasEmpty(table) == \E c \in Clusters : table[c] = Free
FirstEmpty(table) ==
  CHOOSE c \in Clusters : table[c] = Free /\ \A d \in Clusters : table[d] = Free => c <= d

\* fat_unlink_file: the loop never goes on to the next cluster, so only the
\* first one is freed; the others stay taken and belong to no file.
Unlink(table, c) == [table EXCEPT ![c] = Free]

\* The chain from c, as long as there are clusters: what its last one links to
\* is repeated.
Path(c) ==
  LET p[i \in 0 .. Cardinality(Clusters)] ==
        IF i = 0 THEN c ELSE IF p[i - 1] \in Clusters THEN fat[p[i - 1]] ELSE p[i - 1]
  IN  p

Members(c) == LET p == Path(c) IN {p[i] : i \in DOMAIN p} \cap Clusters

LastOf(c) == CHOOSE d \in Members(c) : fat[d] = EOF

-----------------------------------------------------------------------------
(* The directory.                                                          *)

\* fat_fetch_file: the entries up to the first end.
Visible(i) == \A j \in 1 .. i : dir[j] # End
Found(n)   == {i \in DOMAIN dir : Visible(i) /\ dir[i].name = n}
Fetch(n)   == CHOOSE i \in Found(n) : \A j \in Found(n) : i <= j

\* fat_fetch_first_empty_directory_position
Vacant == {i \in DOMAIN dir : dir[i] \in {End, Unused}}
Place  == IF Vacant = {} THEN Len(dir) + 1
          ELSE CHOOSE i \in Vacant : \A j \in Vacant : i <= j

\* fat_allocate_directory_entry, from the given state of the table, with the
\* slots changed that what names.  Past the last position the directory gets
\* a cluster, and what that one held is not cleared.
Allocate(table, entry, unuse) ==
  LET Without(d) == [i \in DOMAIN d |-> IF i = unuse THEN Unused ELSE d[i]]
  IN  IF Vacant # {}
      THEN fat' = table /\ dir' = Without([dir EXCEPT ![Place] = entry])
      ELSE /\ HasEmpty(table)
           /\ LET c == FirstEmpty(table)
              IN  fat' = [table EXCEPT ![LastOf(Root)] = c, ![c] = EOF]
           /\ \E old \in [1 .. Units - 1 -> {End, Unused, Other}] :
                dir' = Without(dir \o <<entry>> \o old)

-----------------------------------------------------------------------------
(* Opening.                                                                *)

\* A fat_file with its cursor at the start, as fat_reset_cursor leaves it.
\* astray: the cursor is known to have lost its place.
Opened(first, length, entry) ==
  [first |-> first, cur |-> first, spos |-> 0, pos |-> 0, length |-> length,
   entry |-> entry, astray |-> FALSE]

Referred(c) == [links EXCEPT ![c].refs = @ + 1]

\* The end of fat_file_open.
Enter(h, f) ==
  /\ file' = [file EXCEPT ![h] = f]
  /\ links' = Referred(f.first)

\* fat_file_open of a file that exists; MODE_APPEND's cursor, too, is back at
\* the start.
OpenOld(h, n) ==
  /\ ~IsOpen(h) /\ Found(n) # {}
  /\ LET e == dir[Fetch(n)] IN Enter(h, Opened(e.first, e.length, Fetch(n)))
  /\ UNCHANGED <<fat, dir>>

\* MODE_TRUNC, with fat_truncate_file.  A cursor of another handle may be left
\* in a cluster that is no longer in the chain.
OpenTruncated(h, n) ==
  /\ ~IsOpen(h) /\ Found(n) # {}
  /\ LET e == dir[Fetch(n)]
         Lost(g) == file[g].first = e.first /\ file[g].cur # e.first
     IN  /\ fat' = [Unlink(fat, e.first) EXCEPT ![e.first] = EOF]
         /\ dir' = [dir EXCEPT ![Fetch(n)].length = 0]
         /\ file' = [g \in Handles |->
                       IF g = h THEN Opened(e.first, 0, Fetch(n))
                       ELSE IF IsOpen(g) /\ Lost(g) THEN [file[g] EXCEPT !.astray = TRUE]
                       ELSE file[g]]
         /\ links' = Referred(e.first)

\* Mutant: the directory entry is written before the cluster is claimed.
CreateLate(h, n) ==
  /\ ~IsOpen(h) /\ Found(n) = {} /\ HasEmpty(fat)
  /\ LET c == FirstEmpty(fat)
     IN  /\ Enter(h, Opened(c, 0, Place))
         /\ IF Vacant # {}
            THEN /\ fat' = [fat EXCEPT ![c] = EOF]
                 /\ dir' = [dir EXCEPT ![Place] = Entry(n, c, 0)]
            ELSE /\ fat' = [fat EXCEPT ![LastOf(Root)] = c, ![c] = EOF]
                 /\ dir' = dir \o <<Entry(n, c, 0)>> \o [i \in 1 .. Units - 1 |-> End]

\* fat_32_create_empty_file, in the modes that create a file: its cluster is
\* claimed before the directory may need one.
Create(h, n) ==
  /\ ~IsOpen(h) /\ Found(n) = {} /\ HasEmpty(fat)
  /\ LET c == FirstEmpty(fat)
     IN  /\ Allocate([fat EXCEPT ![c] = EOF], Entry(n, c, 0), 0)
         /\ Enter(h, Opened(c, 0, Place))

\* What a restart loses: the handles and the open chains.
Forget ==
  /\ file' = [h \in Handles |-> Closed]
  /\ links' = [c \in Clusters |-> NoReference]

\* The power fails between the claim of the cluster and the directory entry:
\* nothing refers to the cluster.
FailInCreate(n) ==
  /\ Found(n) = {} /\ HasEmpty(fat)
  /\ fat' = [fat EXCEPT ![FirstEmpty(fat)] = EOF]
  /\ Forget
  /\ UNCHANGED dir

-----------------------------------------------------------------------------
(* The cursor.                                                             *)

\* next_FAT_section, n times or until the end of the chain
Skip(f, n) ==
  LET p == Path(f.cur)
      last == CHOOSE k \in (0 .. n) \cap DOMAIN p :
                p[k] \in Clusters /\ (k = n \/ p[k + 1] = EOF)
  IN  [ok |-> last = n,
       f |-> IF last = 0 THEN f ELSE [f EXCEPT !.cur = p[last], !.spos = 0]]

Reset(f) == [f EXCEPT !.cur = f.first, !.spos = 0, !.pos = 0, !.astray = FALSE]

\* Mutant: the walk starts where the cursor is.
FromCurrent(f, p) ==
  IF p > f.length THEN f
  ELSE LET walk == Skip(f, p \div Units)
       IN  [walk.f EXCEPT !.spos = p % Units, !.pos = p, !.astray = ~walk.ok]

\* fat_file_set_pos_from_start; the position is set though the walk failed.
FromStart(f, p) ==
  IF p > f.length THEN f
  ELSE LET walk == Skip(Reset(f), p \div Units)
       IN  [walk.f EXCEPT !.spos = @ + (p % Units), !.pos = p, !.astray = ~walk.ok]

\* Mutant: the end of the cluster is not looked for.
ForwardOn(f, n) == [f EXCEPT !.spos = @ + n, !.pos = @ + n]

\* fat_move_cursor.  A walk forwards that fails has moved the cursor to the
\* last cluster and left the position.
Forward(f, n) ==
  IF f.spos + n < Units THEN [f EXCEPT !.spos = @ + n, !.pos = @ + n]
  ELSE LET walk == Skip(f, (f.spos + n) \div Units)
       IN  IF walk.ok
           THEN [walk.f EXCEPT !.spos = (f.spos + n) % Units, !.pos = @ + n]
           ELSE [walk.f EXCEPT !.astray = @ \/ walk.f # f]

Backward(f, n) ==
  IF n > f.spos THEN FromStart(f, f.pos - n)
  ELSE [f EXCEPT !.spos = @ - n, !.pos = @ - n]

\* fat_set_to_absolute_position
Seek(h, p) ==
  /\ IsOpen(h) /\ p # file[h].pos
  /\ file' = [file EXCEPT ![h] = IF p = 0 THEN Reset(@)
                                 ELSE IF p > @.pos THEN Forward(@, p - @.pos)
                                 ELSE Backward(@, @.pos - p)]
  /\ UNCHANGED <<fat, dir, links>>

-----------------------------------------------------------------------------
(* Reading and writing.                                                    *)

Moved(f) == [f EXCEPT !.spos = @ + 1, !.pos = @ + 1]

\* fat_read_file.  With the position past the length, what is left is a huge
\* unsigned number.
Read(h) ==
  /\ IsOpen(h) /\ file[h].pos # file[h].length
  /\ LET f == file[h]
         next == IF f.spos < Units THEN [ok |-> TRUE, f |-> f] ELSE Skip(f, 1)
     IN  next.ok /\ file' = [file EXCEPT ![h] = Moved(next.f)]
  /\ UNCHANGED <<fat, dir, links>>

\* fat_update_file_length: whatever entry is at the place of the handle's gets
\* the length.
Lengthened(entry, length) ==
  IF entry.name \in Names THEN [entry EXCEPT !.length = length] ELSE entry

\* fat_write_file, at the end of the chain with another cluster.  What was
\* written counts for the length wherever it was written.
Write(h) ==
  LET f == file[h]
      Done(g) ==
        LET w == [Moved(g) EXCEPT !.length = @ + 1]
        IN  /\ file' = [file EXCEPT ![h] = w]
            /\ dir' = [dir EXCEPT ![f.entry] = Lengthened(@, w.length)]
  IN  /\ IsOpen(h) /\ f.length < MaxLength
      /\ \/ f.spos < Units /\ Done(f) /\ UNCHANGED fat
         \/ f.spos = Units /\ Skip(f, 1).ok /\ Done(Skip(f, 1).f) /\ UNCHANGED fat
         \/ /\ f.spos = Units /\ ~Skip(f, 1).ok /\ HasEmpty(fat)
            /\ LET c == FirstEmpty(fat)
               IN  /\ fat' = [fat EXCEPT ![f.cur] = c, ![c] = EOF]
                   /\ Done([f EXCEPT !.cur = c, !.spos = 0])
      /\ UNCHANGED links

-----------------------------------------------------------------------------
(* Closing, removing, renaming.                                            *)

\* fat_actual_remove with the place of the entry that the handle f has
ActualRemove(f) ==
  /\ fat' = Unlink(fat, f.first)
  /\ dir' = [dir EXCEPT ![f.entry] = Unused]
  /\ links' = [links EXCEPT ![f.first] = NoReference]

\* Mutant: the other handles do not count.
LeaveFirst(f, r) ==
  IF r.remove THEN ActualRemove(f)
  ELSE links' = [links EXCEPT ![f.first] = r] /\ UNCHANGED <<fat, dir>>

\* fat_close_file: r is the open chain of f's file with a reference less.
Leave(f, r) ==
  IF r.refs = 0 /\ r.remove THEN ActualRemove(f)
  ELSE links' = [links EXCEPT ![f.first] = r] /\ UNCHANGED <<fat, dir>>

Close(h) ==
  /\ IsOpen(h)
  /\ Leave(file[h], [links[file[h].first] EXCEPT !.refs = @ - 1])
  /\ file' = [file EXCEPT ![h] = Closed]

\* file_remove: opens the file, marks it and closes it.
FileRemove(n) ==
  /\ Found(n) # {}
  /\ LET f == Opened(dir[Fetch(n)].first, 0, Fetch(n))
     IN  Leave(f, [links[f.first] EXCEPT !.remove = TRUE])
  /\ UNCHANGED file

\* file_rename: an entry of the new name, which may be there already, then the
\* old one is unused.  Handles that are open keep the place of the old one.
FileRename(n, new) ==
  /\ Found(n) # {}
  /\ LET e == dir[Fetch(n)]
     IN  /\ RenameFreely \/ (links[e.first].refs = 0 /\ Found(new) = {})
         /\ Allocate(fat, [e EXCEPT !.name = new], Fetch(n))
  /\ UNCHANGED <<file, links>>

\* Between two operations everything is on the disk (module DiskCache).
Restart ==
  /\ Forget
  /\ UNCHANGED <<fat, dir>>

-----------------------------------------------------------------------------

Next ==
  \/ \E h \in Handles, n \in Names : OpenOld(h, n) \/ OpenTruncated(h, n) \/ Create(h, n)
  \/ \E h \in Handles : Read(h) \/ Write(h) \/ Close(h)
  \/ \E h \in Handles, p \in 0 .. MaxLength : Seek(h, p)
  \/ \E n \in Names : FileRemove(n) \/ FailInCreate(n)
  \/ \E n, new \in Names : FileRename(n, new)
  \/ Restart

Spec == Init /\ [][Next]_vars

-----------------------------------------------------------------------------
(* Properties.                                                             *)

Entries == {i \in DOMAIN dir : dir[i].name \in Names}

\* The variables have their types, and the directory has as many entries as
\* its clusters hold.
TypeOK ==
  /\ fat \in [Clusters -> Clusters \cup {Free, EOF}]
  /\ dir \in Seq({End, Unused, Other} \cup
                 [name : Names, first : Clusters, length : 0 .. MaxLength])
  /\ Len(dir) = Units * Cardinality(Members(Root))
  /\ \A h \in Handles : IsOpen(h) =>
       file[h] \in [first : Clusters, cur : Clusters, spos : 0 .. Units, pos : Nat,
                    length : 0 .. MaxLength, entry : DOMAIN dir, astray : BOOLEAN]
  /\ links \in [Clusters -> [refs : Nat, remove : BOOLEAN]]

\* The clusters of the files and of the directory form chains that end, and no
\* cluster is in two of them, whatever was created, removed, renamed or cut
\* short; nor is a cursor in a cluster that is free or another file's.
NoCrossLink ==
  LET Firsts == [i \in Entries |-> dir[i].first]
      EndsWell(c) == Path(c)[Cardinality(Clusters)] = EOF
  IN  /\ EndsWell(Root) /\ \A i \in Entries : EndsWell(Firsts[i])
      /\ \A i \in Entries : Members(Root) \cap Members(Firsts[i]) = {}
      /\ \A i, j \in Entries : i # j => Members(Firsts[i]) \cap Members(Firsts[j]) = {}
      /\ \A h \in Handles : IsOpen(h) =>
           /\ fat[file[h].cur] # Free /\ file[h].cur \notin Members(Root)
           /\ \A i \in Entries : file[h].cur \in Members(Firsts[i]) => Firsts[i] = file[h].first

\* An open handle still knows where the directory entry of its own file is,
\* which is what its writes and its last close overwrite; and the open chain
\* counts the handles, a file to be removed having at least one.
LocatesEntry ==
  /\ \A h \in Handles : IsOpen(h) =>
       /\ dir[file[h].entry].name \in Names
       /\ dir[file[h].entry].first = file[h].first
  /\ \A c \in Clusters :
       /\ links[c].refs = Cardinality({h \in Handles : file[h].first = c})
       /\ links[c].remove => links[c].refs > 0

\* A cursor is in the cluster of its chain, and at the offset in it, that its
\* position stands for; unless a walk to a position failed, or another handle
\* truncated the file.
CursorTrue ==
  \A h \in Handles : IsOpen(h) /\ ~file[h].astray =>
    LET f == file[h]
    IN  \E i \in 0 .. Cardinality(Clusters) :
          Path(f.first)[i] = f.cur /\ f.pos = i * Units + f.spos

=============================================================================
