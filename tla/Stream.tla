-------------------------------- MODULE Stream --------------------------------
(***************************************************************************)
(* The standard streams, src/drivers/filesystem/stdstream.cpp: a buffer    *)
(* that starts again from its first cell once all its readers have caught  *)
(* up, which a reader that comes later learns from the one bit _reset.     *)
(*                                                                         *)
(* A read or a write runs with interrupts disabled.  A write of several    *)
(* characters repeats that of one.  Readers do not block, and nobody waits *)
(* for readycv: they poll.  The readers are those that are there from the  *)
(* start, and they stay.  late is to count those that have not caught up,  *)
(* but a reader that polls and finds nothing counts as another one that    *)
(* has: unseen and recounted record who really came to the end, and        *)
(* whether somebody counted for another.                                   *)
(***************************************************************************)
EXTENDS Integers, SequencesExt, FiniteSets

CONSTANTS Readers, Chars,
          Length,     \* rs->len
          LateRange,  \* the values of rs->late, 2^16 in the code
          MaxWritten  \* bound on the characters written

ASSUME StreamAssumption ==
  /\ Length \in Nat /\ Length > 1 /\ LateRange \in Nat /\ MaxWritten \in Nat
  /\ IsFiniteSet(Readers) /\ Cardinality(Readers) < LateRange

VARIABLES
  buff, high, reset,  \* rs->buff, rs->high, rs->_reset
  late,               \* rs->late
  readers,            \* the readers; rs->readers is how many they are
  lo,                 \* lo[r]: the _lo of r's stream_file
  seen,               \* seen[r]: its _reset
  written,            \* the characters that writes accepted
  got,                \* got[r]: those that r read, as long as Orderly
  refused,            \* whether a write was refused
  unseen,             \* who has not come to the end since the last character
  recounted           \* whether one of several readers counted for another

streamVars == <<buff, high, reset, late, readers, lo, seen, written, got, refused,
                unseen, recounted>>

StreamInit ==
  /\ buff = [i \in 0 .. Length - 1 |-> "none"]
  /\ high = 0 /\ reset = FALSE /\ late = 0
  /\ readers \in SUBSET Readers
  /\ lo = [r \in Readers |-> 0] /\ seen = [r \in Readers |-> FALSE]
  /\ written = <<>>
  /\ got = [r \in Readers |-> <<>>]
  /\ refused = FALSE /\ unseen = {} /\ recounted = FALSE

\* stream_reset
StartOver == high' = 0 /\ reset' = ~reset

-----------------------------------------------------------------------------

\* Mutant: one reader is waited for.
OneReader == IF readers = {} THEN 0 ELSE 1

\* Mutant: the handle that writes is counted as well.
EveryHandle == Cardinality(readers) + 1

Everyone == Cardinality(readers)

Store(i, c) ==
  /\ buff' = [buff EXCEPT ![i] = c]
  /\ late' = Everyone
  /\ written' = Append(written, c)
  /\ unseen' = readers
  /\ UNCHANGED refused

\* stream_write of one character
StreamWrite(c) ==
  /\ Len(written) < MaxWritten
  /\ \/ high + 1 < Length /\ Store(high, c) /\ high' = high + 1 /\ UNCHANGED reset
     \/ /\ high + 1 >= Length /\ late = 0
        /\ Store(0, c) /\ high' = 1 /\ reset' = ~reset
     \/ /\ high + 1 >= Length /\ late # 0
        /\ high' = 0 /\ refused' = TRUE  \* MEM_ERROR
        /\ UNCHANGED <<buff, reset, late, written, unseen>>
  /\ UNCHANGED <<readers, lo, seen, got, recounted>>

\* Where r goes on reading, and how much there is.
Start(r)  == IF seen[r] # reset THEN 0 ELSE lo[r]
Unread(r) == (high - Start(r)) % Length
Cells(r, n) == [i \in 1 .. n |-> buff[(Start(r) + i - 1) % Length]]

After(r, n) == (Start(r) + n) % Length

\* r comes to the end although it did since the last character, while others
\* are still to come, or empties once more what is empty by taking late round.
CountsForAnother(r) ==
  readers # {r} /\ r \notin unseen /\ (high > 0 \/ late' = 0)

\* Up to here nothing was refused, and every reader counted for itself.
Orderly == ~refused /\ ~recounted

\* stream_read of at most count characters.  late has the width of its type:
\* with nothing there since the start or a restart, it goes below 0.
StreamRead(r, count) ==
  LET n == IF count < Unread(r) THEN count ELSE Unread(r)
  IN  /\ got' = IF Orderly THEN [got EXCEPT ![r] = @ \o Cells(r, n)] ELSE got
      /\ lo' = [lo EXCEPT ![r] = After(r, n)]
      /\ seen' = [seen EXCEPT ![r] = reset]
      /\ IF n = Unread(r)
         THEN /\ late' = (late - 1) % LateRange
              /\ IF late' = 0 THEN StartOver ELSE UNCHANGED <<high, reset>>
              /\ unseen' = unseen \ {r}
              /\ recounted' = (recounted \/ CountsForAnother(r))
         ELSE UNCHANGED <<late, high, reset, unseen, recounted>>
      /\ UNCHANGED <<buff, readers, written, refused>>

StreamNext ==
  \/ \E c \in Chars : StreamWrite(c)
  \/ \E r \in readers, count \in 1 .. Length : StreamRead(r, count)

StreamSpec == StreamInit /\ [][StreamNext]_streamVars

-----------------------------------------------------------------------------
(* Properties.                                                             *)

\* Until a write is refused, or one of several readers, polling, counts for
\* another, what a reader read and what it finds in the buffer is all that was
\* written, in order, however often the buffer starts again.
Delivered ==
  Orderly => \A r \in readers : got[r] \o Cells(r, Unread(r)) = written

\* However readers poll, the buffer is emptied without the restart that tells
\* them, which is what a refused write does, only while one of them has not come
\* to the end since the last character.
RefusedOnlyBehind ==
  [][high > 0 /\ high' = 0 /\ reset' = reset => unseen # {}]_streamVars

=============================================================================
