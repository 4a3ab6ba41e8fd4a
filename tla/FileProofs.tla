------------------------------ MODULE FileProofs ------------------------------
(***************************************************************************)
(* The standard streams and the files of a FAT volume, for streams and     *)
(* volumes of any size and for any readers and handles.                    *)
(***************************************************************************)
EXTENDS FatFiles, Stream, PrioQueueProofs, FiniteSetTheorems, SequenceTheorems,
        WellFoundedInduction, TLAPS

-----------------------------------------------------------------------------
(* Streams.                                                                *)

StreamTypes ==
  /\ high \in 0..Length - 1 /\ reset \in BOOLEAN /\ late \in Int
  /\ readers \in SUBSET Readers
  /\ lo \in [Readers -> 0..Length - 1] /\ seen \in [Readers -> BOOLEAN]
  /\ buff \in [0..Length - 1 -> Chars \cup {"none"}]
  /\ written \in Seq(Chars \cup {"none"})
  /\ got \in [Readers -> Seq(Chars \cup {"none"})]
  /\ refused \in BOOLEAN /\ recounted \in BOOLEAN /\ unseen \in SUBSET readers

(* What r read is the beginning of what was written, and the rest of it is *)
(* in the buffer, from where r goes on up to the end.                      *)
Follows(g, b, s, n, w) ==
  /\ s \in 0..n /\ Len(w) = Len(g) + (n - s)
  /\ \A i \in 1..Len(g) : g[i] = w[i]
  /\ \A i \in s..n - 1 : b[i] = w[Len(g) + (i - s) + 1]

Behind == {r \in readers : Start(r) # high}

(* Polling makes late run ahead, never stay behind: it never exceeds the   *)
(* readers that have not come to the end.  It is 0 only with the buffer    *)
(* empty, or nobody there to read it.                                      *)
LateRunsAhead ==
  /\ readers = {} => late = 0
  /\ high > 0 => /\ late \in 0..Cardinality(unseen)
                 /\ readers # {} => late > 0

(* As long as every reader counts for itself, late is how many are behind. *)
StreamInv ==
  /\ StreamTypes /\ LateRunsAhead
  /\ Orderly =>
       /\ \A r \in readers : Follows(got[r], buff, Start(r), high, written)
       /\ unseen = Behind
       /\ high > 0 => late = Cardinality(Behind)

Letters == Chars \cup {"none"}

LEMMA Fits ==
  ASSUME NEW N \in Nat, NEW n \in 0..N - 1
  PROVE  n % N = n
OBVIOUS

LEMMA Wraps ==
  ASSUME NEW N \in Nat, N > 0, NEW n \in Int
  PROVE  n % N \in 0..N - 1
OBVIOUS

(* In good order, r goes on reading at or before high.                     *)
LEMMA UnreadIs ==
  ASSUME StreamInv, Orderly, NEW r \in readers
  PROVE  /\ Start(r) \in 0..high /\ Unread(r) = high - Start(r)
         /\ \A n \in 0..high - Start(r) :
              /\ Cells(r, n) \in Seq(Letters) /\ Len(Cells(r, n)) = n
              /\ \A i \in 1..n : Cells(r, n)[i] = buff[Start(r) + (i - 1)]
              /\ After(r, n) = Start(r) + n
<1>1. /\ high \in 0..Length - 1 /\ Length \in Nat
      /\ buff \in [0..Length - 1 -> Letters]
      /\ Start(r) \in 0..high
  BY StreamAssumption DEF StreamInv, StreamTypes, Follows, Letters
<1>2. Unread(r) = high - Start(r)
  <2>1. high - Start(r) \in 0..Length - 1
    BY <1>1
  <2>2. QED
    BY <1>1, <2>1, Fits DEF Unread
<1>3. ASSUME NEW n \in 0..high - Start(r)
      PROVE  /\ Cells(r, n) \in Seq(Letters) /\ Len(Cells(r, n)) = n
             /\ \A i \in 1..n : Cells(r, n)[i] = buff[Start(r) + (i - 1)]
             /\ After(r, n) = Start(r) + n
  <2>1. ASSUME NEW i \in 1..n
        PROVE  /\ (Start(r) + i - 1) % Length = Start(r) + (i - 1)
               /\ Start(r) + (i - 1) \in 0..Length - 1
    <3>1. /\ Start(r) + i - 1 \in 0..Length - 1
          /\ Start(r) + i - 1 = Start(r) + (i - 1)
      BY <1>1
    <3>2. QED
      BY <1>1, <3>1, Fits
  <2>2. Cells(r, n) = [i \in 1..n |-> buff[Start(r) + (i - 1)]]
    BY <2>1 DEF Cells
  <2>3. Cells(r, n) \in [1..n -> Letters] /\ n \in Nat
    BY <1>1, <2>1, <2>2
  <2>4. Cells(r, n) \in Seq(Letters) /\ Len(Cells(r, n)) = n
    BY ONLY <2>3, IsASeq, LenProperties
  <2>5. After(r, n) = Start(r) + n
    <3>1. Start(r) + n \in 0..Length - 1
      BY <1>1
    <3>2. QED
      BY <1>1, <3>1, Fits DEF After
  <2>6. QED
    BY <2>2, <2>4, <2>5
<1>4. QED
  BY <1>1, <1>2, <1>3

LEMMA StreamInvDelivers == StreamInv => Delivered
<1> SUFFICES ASSUME StreamInv, Orderly, NEW r \in readers
             PROVE  got[r] \o Cells(r, Unread(r)) = written
  BY DEF Delivered
<1> DEFINE c == Cells(r, Unread(r))
           u == high - Start(r)
           g == got[r]
<1>1. /\ u \in Nat /\ Start(r) \in Int /\ c \in Seq(Letters) /\ Len(c) = u
      /\ \A i \in 1..u : c[i] = buff[Start(r) + (i - 1)]
  BY UnreadIs DEF StreamInv, StreamTypes
<1>2. /\ g \in Seq(Letters) /\ written \in Seq(Letters)
  BY DEF StreamInv, StreamTypes, Letters
<1>3. /\ Len(written) = Len(g) + u
      /\ \A i \in 1..Len(g) : g[i] = written[i]
      /\ \A i \in Start(r)..high - 1 :
           buff[i] = written[Len(g) + (i - Start(r)) + 1]
  BY DEF StreamInv, Follows
<1>4. Len(g) \in Nat /\ high \in Int
  BY <1>2, LenProperties DEF StreamInv, StreamTypes
<1> HIDE DEF c, g
<1>5. ASSUME NEW i \in 1..u PROVE c[i] = written[Len(g) + i]
  <2>1. /\ Start(r) + (i - 1) \in Start(r)..high - 1
        /\ Len(g) + ((Start(r) + (i - 1)) - Start(r)) + 1 = Len(g) + i
    BY <1>1, <1>4
  <2>2. QED
    BY <1>1, <1>3, <2>1
<1> HIDE DEF u
<1>6. /\ g \o c \in Seq(Letters) /\ Len(g \o c) = Len(written)
      /\ \A i \in 1..Len(g) + u : (g \o c)[i] = IF i <= Len(g) THEN g[i]
                                                ELSE c[i - Len(g)]
  BY <1>1, <1>2, <1>3, ConcatProperties
<1>7. ASSUME NEW i \in 1..Len(written) PROVE (g \o c)[i] = written[i]
  <2>1. CASE i <= Len(g)
    BY <1>1, <1>3, <1>4, <1>6, <2>1
  <2>2. CASE ~(i <= Len(g))
    <3>1. i - Len(g) \in 1..u /\ Len(g) + (i - Len(g)) = i /\ i \in 1..Len(g) + u
      BY <1>1, <1>3, <1>4, <2>2
    <3>2. QED
      BY <1>5, <1>6, <2>2, <3>1
  <2>3. QED
    BY <2>1, <2>2
<1>8. g \o c = written
  BY <1>2, <1>6, <1>7, SeqEqual
<1>9. QED
  BY <1>8 DEF c, g

LEMMA ReadersFinite ==
  ASSUME StreamTypes
  PROVE  /\ IsFiniteSet(readers) /\ IsFiniteSet(Behind)
         /\ Cardinality(readers) \in Nat /\ Cardinality(Behind) \in Nat
         /\ Cardinality(readers) < LateRange
         /\ Cardinality(readers) = 0 <=> readers = {}
         /\ Cardinality(Behind) = 0 <=> Behind = {}
<1>1. readers \subseteq Readers /\ Behind \subseteq readers
  BY DEF StreamTypes, Behind
<1>2. IsFiniteSet(readers) /\ Cardinality(readers) <= Cardinality(Readers)
  BY <1>1, StreamAssumption, FS_Subset
<1>3. IsFiniteSet(Behind)
  BY <1>1, <1>2, FS_Subset
<1>4. Cardinality(Readers) \in Nat /\ Cardinality(Readers) < LateRange
  BY StreamAssumption, FS_CardinalityType
<1>5. Cardinality(readers) \in Nat /\ Cardinality(Behind) \in Nat
  BY <1>2, <1>3, FS_CardinalityType
<1>6. /\ Cardinality(readers) = 0 <=> readers = {}
      /\ Cardinality(Behind) = 0 <=> Behind = {}
  BY <1>2, <1>3, FS_EmptySet
<1>7. QED
  BY <1>2, <1>3, <1>4, <1>5, <1>6, StreamAssumption

LEMMA UnseenFinite ==
  ASSUME StreamTypes
  PROVE  /\ IsFiniteSet(unseen) /\ Cardinality(unseen) \in Nat
         /\ Cardinality(unseen) <= Cardinality(readers)
         /\ Cardinality(unseen) = 0 <=> unseen = {}
<1>1. unseen \subseteq readers
  BY DEF StreamTypes
<1>2. IsFiniteSet(unseen) /\ Cardinality(unseen) <= Cardinality(readers)
  BY <1>1, ReadersFinite, FS_Subset
<1>3. QED
  BY <1>2, FS_CardinalityType, FS_EmptySet

LEMMA StreamInitInv == StreamInit => StreamInv
<1> SUFFICES ASSUME StreamInit PROVE StreamInv
  OBVIOUS
<1>1. StreamTypes
  BY StreamAssumption, EmptySeq DEF StreamInit, StreamTypes
<1>2. ASSUME NEW r \in readers PROVE Follows(got[r], buff, Start(r), high, written)
  <2>1. /\ got[r] = <<>> /\ written = <<>> /\ high = 0 /\ Start(r) = 0
    BY StreamAssumption DEF StreamInit, Start
  <2>2. QED
    BY <2>1 DEF Follows
<1>3. ~(high > 0) /\ late = 0
  BY DEF StreamInit
<1>4. unseen = Behind
  BY StreamAssumption DEF StreamInit, Behind, Start
<1>5. QED
  BY ONLY <1>1, <1>2, <1>3, <1>4 DEF StreamInv, LateRunsAhead

(* A character that fits in front of the end.                              *)
LEMMA StoreInv ==
  ASSUME StreamInv, NEW c \in Chars, high + 1 < Length, Store(high, c),
         high' = high + 1, UNCHANGED <<reset, readers, lo, seen, got, recounted>>
  PROVE  StreamInv'
<1>1. /\ high \in 0..Length - 1 /\ Length \in Nat /\ written \in Seq(Letters)
      /\ c \in Letters /\ readers \in SUBSET Readers
      /\ buff \in [0..Length - 1 -> Letters]
  BY StreamAssumption DEF StreamInv, StreamTypes, Letters
<1>2. /\ buff' = [buff EXCEPT ![high] = c] /\ late' = Cardinality(readers)
      /\ written' = Append(written, c) /\ refused' = refused
      /\ unseen' = readers /\ Orderly' = Orderly
  BY DEF Store, Everyone, Orderly
<1>3. StreamTypes'
  <2>1. /\ high' \in 0..Length - 1 /\ late' \in Int
        /\ buff' \in [0..Length - 1 -> Letters]
    BY <1>1, <1>2, ReadersFinite DEF StreamInv
  <2>2. written' \in Seq(Letters)
    BY <1>1, <1>2, AppendProperties
  <2>3. QED
    BY <1>2, <2>1, <2>2 DEF StreamInv, StreamTypes, Letters
<1>4. \A r \in readers : Start(r)' = Start(r)
  BY DEF Start
<1>5. ASSUME Orderly, NEW r \in readers
      PROVE  Follows(got[r], buff', Start(r), high', written')
  <2> DEFINE g == got[r]
             st == Start(r)
  <2>1. /\ st \in 0..high /\ Len(written) = Len(g) + (high - st)
        /\ \A i \in 1..Len(g) : g[i] = written[i]
        /\ \A i \in st..high - 1 : buff[i] = written[Len(g) + (i - st) + 1]
    BY <1>5 DEF StreamInv, Follows
  <2>2. Len(g) \in Nat /\ Len(written) \in Nat
    BY LenProperties DEF StreamInv, StreamTypes
  <2> HIDE DEF g, st
  <2>3. /\ Len(written') = Len(written) + 1
        /\ \A i \in 1..Len(written) : written'[i] = written[i]
        /\ written'[Len(written) + 1] = c
    BY <1>1, <1>2, AppendProperties
  <2>4. ASSUME NEW i \in st..high PROVE buff'[i] = written'[Len(g) + (i - st) + 1]
    <3>1. CASE i = high
      <4>1. Len(g) + (i - st) + 1 = Len(written) + 1
        BY <1>1, <2>1, <2>2, <3>1
      <4>2. QED
        BY <1>1, <1>2, <2>3, <3>1, <4>1
    <3>2. CASE i # high
      <4>1. /\ i \in st..high - 1 /\ i \in 0..Length - 1
            /\ Len(g) + (i - st) + 1 \in 1..Len(written)
        BY <1>1, <2>1, <2>2, <3>2
      <4>2. QED
        BY <1>1, <1>2, <2>1, <2>3, <3>2, <4>1
    <3>3. QED
      BY <3>1, <3>2
  <2>5. /\ st \in 0..high' /\ Len(written') = Len(g) + (high' - st)
        /\ high' - 1 = high
    <3>1. high \in Nat /\ high' = high + 1
      BY <1>1
    <3>2. QED
      BY ONLY <2>1, <2>2, <2>3, <3>1
  <2>6. ASSUME NEW i \in 1..Len(g) PROVE g[i] = written'[i]
    <3>1. high - st \in Nat
      BY <1>1, <2>1
    <3>2. i \in 1..Len(written)
      BY ONLY <2>1, <2>2, <3>1
    <3>3. g[i] = written[i] /\ written'[i] = written[i]
      BY ONLY <2>1, <2>3, <3>2
    <3>4. QED
      BY ONLY <3>3
  <2>7. Follows(g, buff', st, high', written')
    BY <2>4, <2>5, <2>6 DEF Follows
  <2>8. QED
    BY <2>7 DEF g, st
<1>6. ASSUME Orderly PROVE Behind' = readers
  <2>1. \A r \in readers : Start(r) \in 0..high
    BY <1>6 DEF StreamInv, Follows
  <2>2. \A r \in readers : Start(r)' # high'
    BY <1>1, <1>4, <2>1
  <2>3. QED
    BY <2>2 DEF Behind
<1>7. /\ Cardinality(readers) \in Nat
      /\ Cardinality(readers) = 0 <=> readers = {}
  BY ReadersFinite DEF StreamInv
<1>8. LateRunsAhead'
  BY <1>2, <1>7 DEF LateRunsAhead
<1>9. QED
  BY <1>2, <1>3, <1>4, <1>5, <1>6, <1>8 DEF StreamInv

LEMMA StreamWriteInv ==
  ASSUME StreamInv, NEW c \in Chars, StreamWrite(c)
  PROVE  StreamInv'
<1>1. CASE high + 1 < Length
  <2>1. /\ Store(high, c) /\ high' = high + 1
        /\ UNCHANGED <<reset, readers, lo, seen, got, recounted>>
    BY <1>1, StreamAssumption DEF StreamWrite, StreamInv, StreamTypes
  <2>2. QED
    BY <1>1, <2>1, StoreInv
<1>2. CASE high + 1 >= Length /\ late = 0
  <2>1. /\ Store(0, c) /\ high' = 1 /\ reset' = ~reset
        /\ UNCHANGED <<readers, lo, seen, got, recounted>>
    BY <1>2, StreamAssumption DEF StreamWrite, StreamInv, StreamTypes
  <2>2. /\ buff' = [buff EXCEPT ![0] = c] /\ late' = Cardinality(readers)
        /\ written' = Append(written, c) /\ refused' = refused
        /\ unseen' = readers
    BY <2>1 DEF Store, Everyone
  <2>3. StreamTypes'
    <3>1. 1 \in 0..Length - 1 /\ Cardinality(readers) \in Int
      BY StreamAssumption, ReadersFinite DEF StreamInv
    <3>2. written' \in Seq(Letters)
      BY <2>2, AppendProperties DEF StreamInv, StreamTypes, Letters
    <3>3. QED
      BY <2>1, <2>2, <3>1, <3>2 DEF StreamInv, StreamTypes, Letters
  <2>4. readers = {} /\ Cardinality(readers) = 0
    <3>1. high > 0
      BY <1>2, StreamAssumption DEF StreamInv, StreamTypes
    <3>2. QED
      BY <1>2, <3>1, ReadersFinite DEF StreamInv, LateRunsAhead
  <2>5. Behind' = {}
    BY <2>1, <2>2, <2>4 DEF Behind
  <2>6. LateRunsAhead'
    BY <2>1, <2>2, <2>4 DEF LateRunsAhead
  <2>7. QED
    BY <2>1, <2>2, <2>3, <2>4, <2>5, <2>6 DEF StreamInv
<1>3. CASE high + 1 >= Length /\ late # 0
  <2>1. /\ high' = 0 /\ refused' = TRUE /\ UNCHANGED <<late, readers, recounted>>
        /\ UNCHANGED <<buff, reset, written, unseen, lo, seen, got>>
    BY <1>3, StreamAssumption DEF StreamWrite, StreamInv, StreamTypes
  <2>2. StreamTypes' /\ LateRunsAhead' /\ ~Orderly'
    BY <2>1, StreamAssumption DEF StreamInv, StreamTypes, LateRunsAhead, Orderly
  <2>3. QED
    BY <2>2 DEF StreamInv
<1>4. QED
  BY <1>1, <1>2, <1>3, StreamAssumption DEF StreamInv, StreamTypes, StreamWrite

(* Of what there is, r takes n characters.                                 *)
LEMMA TakeFollows ==
  ASSUME StreamInv, NEW r \in readers, NEW n \in 0..high - Start(r), Orderly
  PROVE  /\ got[r] \o Cells(r, n) \in Seq(Letters)
         /\ After(r, n) = Start(r) + n /\ Start(r) + n \in 0..Length - 1
         /\ Follows(got[r] \o Cells(r, n), buff, Start(r) + n, high, written)
<1> DEFINE g == got[r]
           st == Start(r)
           c == Cells(r, n)
<1>1. /\ st \in 0..high /\ high - st \in Nat /\ n \in 0..high - st
      /\ c \in Seq(Letters) /\ Len(c) = n
      /\ \A i \in 1..n : c[i] = buff[st + (i - 1)]
      /\ After(r, n) = st + n
  BY UnreadIs DEF StreamInv, StreamTypes
<1>2. /\ high \in 0..Length - 1 /\ Length \in Nat
      /\ g \in Seq(Letters) /\ Len(g) \in Nat
  BY StreamAssumption, LenProperties DEF StreamInv, StreamTypes, Letters
<1>3. /\ Len(written) = Len(g) + (high - st)
      /\ \A i \in 1..Len(g) : g[i] = written[i]
      /\ \A i \in st..high - 1 : buff[i] = written[Len(g) + (i - st) + 1]
  BY DEF StreamInv, Follows
<1> HIDE DEF c, g, st
<1>4. /\ g \o c \in Seq(Letters) /\ Len(g \o c) = Len(g) + n
      /\ \A i \in 1..Len(g) + n : (g \o c)[i] = IF i <= Len(g) THEN g[i]
                                                ELSE c[i - Len(g)]
  BY <1>1, <1>2, ConcatProperties
<1>5. st + n \in 0..high /\ Len(written) = Len(g \o c) + (high - (st + n))
  BY <1>1, <1>2, <1>3, <1>4
<1>6. ASSUME NEW i \in 1..Len(g \o c) PROVE (g \o c)[i] = written[i]
  <2>1. CASE i <= Len(g)
    BY <1>1, <1>2, <1>3, <1>4, <1>6, <2>1
  <2>2. CASE ~(i <= Len(g))
    <3>1. /\ i - Len(g) \in 1..n /\ i \in 1..Len(g) + n
          /\ st + ((i - Len(g)) - 1) \in st..high - 1
          /\ Len(g) + ((st + ((i - Len(g)) - 1)) - st) + 1 = i
      BY <1>1, <1>2, <1>4, <2>2
    <3>2. (g \o c)[i] = buff[st + ((i - Len(g)) - 1)]
      BY <1>1, <1>4, <2>2, <3>1
    <3>3. QED
      BY <1>3, <3>1, <3>2
  <2>3. QED
    BY <2>1, <2>2
<1>7. ASSUME NEW i \in st + n..high - 1
      PROVE  buff[i] = written[Len(g \o c) + (i - (st + n)) + 1]
  <2>1. /\ i \in st..high - 1
        /\ Len(g \o c) + (i - (st + n)) + 1 = Len(g) + (i - st) + 1
    BY <1>1, <1>2, <1>4
  <2>2. QED
    BY <1>3, <2>1
<1>8. Follows(g \o c, buff, st + n, high, written)
  BY <1>5, <1>6, <1>7 DEF Follows
<1>9. st + n \in 0..Length - 1
  BY <1>1, <1>2
<1>10. QED
  BY <1>1, <1>4, <1>8, <1>9 DEF g, st, c

(* The variables keep their types, whatever was refused.                   *)
LEMMA ReadTypes ==
  ASSUME StreamTypes, NEW r \in readers, NEW count \in 1..Length, StreamRead(r, count)
  PROVE  StreamTypes'
<1> DEFINE n == IF count < Unread(r) THEN count ELSE Unread(r)
<1>1. /\ Length \in Nat /\ Length > 0 /\ high \in 0..Length - 1 /\ r \in Readers
      /\ Start(r) \in 0..Length - 1 /\ LateRange \in Nat /\ LateRange > 0
  BY StreamAssumption, ReadersFinite DEF StreamTypes, Start
<1>2. Unread(r) \in 0..Length - 1
  <2>1. high - Start(r) \in Int
    BY <1>1
  <2>2. QED
    BY <1>1, <2>1, Wraps DEF Unread
<1>3. n \in Nat
  BY <1>1, <1>2
<1> HIDE DEF n
<1>4. got[r] \o Cells(r, n) \in Seq(Letters) /\ After(r, n) \in 0..Length - 1
  <2>1. ASSUME NEW i \in 1..n PROVE (Start(r) + i - 1) % Length \in 0..Length - 1
    <3>1. Start(r) + i - 1 \in Int
      BY <1>1, <1>3
    <3>2. QED
      BY <1>1, <3>1, Wraps
  <2>2. buff \in [0..Length - 1 -> Letters]
    BY DEF StreamTypes, Letters
  <2>3. Cells(r, n) \in [1..n -> Letters]
    BY <2>1, <2>2 DEF Cells
  <2>4. Cells(r, n) \in Seq(Letters) /\ got[r] \in Seq(Letters)
    BY <1>1, <1>3, <2>3, IsASeq DEF StreamTypes, Letters
  <2>5. Start(r) + n \in Int
    BY <1>1, <1>3
  <2>6. QED
    BY <1>1, <2>4, <2>5, ConcatProperties, Wraps DEF After
<1>5. late' \in Int
  <2>1. late - 1 \in Int
    BY DEF StreamTypes
  <2>2. (late - 1) % LateRange \in 0..LateRange - 1
    BY ONLY <1>1, <2>1, Wraps
  <2>3. late' \in {(late - 1) % LateRange, late}
    BY DEF StreamRead
  <2>4. QED
    BY <2>2, <2>3 DEF StreamTypes
<1>6. high' \in {high, 0} /\ (reset' = reset \/ reset' = ~reset)
  BY DEF StreamRead, StartOver
<1>7. /\ got' \in {[got EXCEPT ![r] = @ \o Cells(r, n)], got}
      /\ lo' = [lo EXCEPT ![r] = After(r, n)]
      /\ seen' = [seen EXCEPT ![r] = reset]
      /\ UNCHANGED <<buff, readers, written, refused>>
      /\ unseen' \in {unseen \ {r}, unseen} /\ recounted' \in {TRUE, recounted}
  BY DEF StreamRead, n, StreamTypes
<1>8. /\ got' \in [Readers -> Seq(Letters)]
      /\ lo' \in [Readers -> 0..Length - 1] /\ seen' \in [Readers -> BOOLEAN]
  BY <1>4, <1>7 DEF StreamTypes, Letters
<1>9. high' \in 0..Length - 1
  BY <1>1, <1>6
<1>10. reset' \in BOOLEAN
  BY <1>6 DEF StreamTypes
<1>11. QED
  BY <1>5, <1>7, <1>8, <1>9, <1>10 DEF StreamTypes, Letters

(* Who comes to the end lowers late by one, and unseen by one at most.     *)
LEMMA ReadRunsAhead ==
  ASSUME StreamInv, NEW r \in readers, NEW count \in 1..Length, StreamRead(r, count)
  PROVE  LateRunsAhead'
<1>1. readers' = readers /\ readers # {}
  BY DEF StreamRead
<1>2. CASE UNCHANGED <<late, high, reset, unseen, recounted>>
  BY <1>1, <1>2 DEF StreamInv, LateRunsAhead
<1>3. CASE late' = 0 /\ StartOver
  BY <1>1, <1>3 DEF StartOver, LateRunsAhead
<1>4. CASE /\ late' = (late - 1) % LateRange /\ late' # 0 /\ unseen' = unseen \ {r}
           /\ UNCHANGED <<high, reset>>
  <2> SUFFICES ASSUME high > 0 PROVE late' \in 0..Cardinality(unseen') /\ late' > 0
    BY <1>1, <1>4 DEF LateRunsAhead
  <2>1. /\ late \in 1..Cardinality(unseen) /\ IsFiniteSet(unseen)
        /\ Cardinality(unseen) \in Nat /\ Cardinality(unseen) < LateRange
        /\ LateRange \in Nat
    <3>1. late \in 0..Cardinality(unseen) /\ late > 0
      BY <1>1 DEF StreamInv, LateRunsAhead
    <3>2. /\ IsFiniteSet(unseen) /\ Cardinality(unseen) \in Nat
          /\ Cardinality(unseen) <= Cardinality(readers)
          /\ Cardinality(readers) \in Nat /\ Cardinality(readers) < LateRange
      BY UnseenFinite, ReadersFinite DEF StreamInv
    <3>3. QED
      BY <3>1, <3>2, StreamAssumption
  <2>2. late' = late - 1
    <3>1. late - 1 \in 0..LateRange - 1
      BY <2>1
    <3>2. QED
      BY ONLY <1>4, <2>1, <3>1, Fits
  <2>3. Cardinality(unseen') \in {Cardinality(unseen), Cardinality(unseen) - 1}
    <3>1. CASE r \in unseen
      BY <1>4, <2>1, <3>1, FS_RemoveElement
    <3>2. CASE r \notin unseen
      <4>1. unseen' = unseen
        BY <1>4, <3>2
      <4>2. QED
        BY <4>1
    <3>3. QED
      BY <3>1, <3>2
  <2>4. QED
    BY <1>4, <2>1, <2>2, <2>3
<1>5. QED
  BY <1>2, <1>3, <1>4 DEF StreamRead

(* With something in the buffer, late is the number of those behind.       *)
LEMMA BehindCounted ==
  ASSUME StreamInv, Orderly, high > 0, readers # {}
  PROVE  /\ unseen = Behind /\ late = Cardinality(Behind) /\ late > 0
         /\ IsFiniteSet(Behind) /\ Cardinality(Behind) \in Nat
         /\ Cardinality(Behind) < LateRange /\ LateRange \in Nat
<1>1. unseen = Behind /\ late = Cardinality(Behind) /\ late > 0
  BY DEF StreamInv, LateRunsAhead
<1>2. /\ IsFiniteSet(unseen) /\ Cardinality(unseen) \in Nat
      /\ Cardinality(unseen) <= Cardinality(readers)
      /\ Cardinality(readers) \in Nat /\ Cardinality(readers) < LateRange
  BY UnseenFinite, ReadersFinite DEF StreamInv
<1>3. QED
  BY <1>1, <1>2, StreamAssumption

(* The reader that takes late to 0 is the last one that was behind.        *)
LEMMA LastOne ==
  ASSUME StreamInv, Orderly, high > 0, NEW r \in readers,
         readers = {r} \/ r \in unseen, (late - 1) % LateRange = 0
  PROVE  Behind \ {r} = {}
<1>1. /\ unseen = Behind /\ late = Cardinality(Behind) /\ late > 0
      /\ IsFiniteSet(Behind) /\ Cardinality(Behind) \in Nat
      /\ Cardinality(Behind) < LateRange /\ LateRange \in Nat
  BY BehindCounted
<1>2. CASE readers = {r}
  BY <1>2 DEF Behind
<1>3. CASE r \in unseen
  <2>1. late - 1 \in 0..LateRange - 1
    BY <1>1
  <2>2. late - 1 = 0
    BY <1>1, <2>1, Fits
  <2>3. /\ IsFiniteSet(Behind \ {r})
        /\ Cardinality(Behind \ {r}) = Cardinality(Behind) - 1
    BY <1>1, <1>3, FS_RemoveElement
  <2>4. QED
    BY <1>1, <2>2, <2>3, FS_EmptySet
<1>4. QED
  BY <1>2, <1>3

LEMMA StreamReadInv ==
  ASSUME StreamInv, NEW r \in readers, NEW count \in 1..Length, StreamRead(r, count)
  PROVE  StreamInv'
<1> DEFINE n == IF count < Unread(r) THEN count ELSE Unread(r)
           g == got[r] \o Cells(r, n)
           st == Start(r)
<1>1. StreamTypes' /\ LateRunsAhead'
  BY ReadTypes, ReadRunsAhead DEF StreamInv
<1>2. /\ lo' = [lo EXCEPT ![r] = After(r, n)]
      /\ seen' = [seen EXCEPT ![r] = reset]
      /\ IF n = Unread(r)
         THEN /\ late' = (late - 1) % LateRange
              /\ IF late' = 0 THEN StartOver ELSE UNCHANGED <<high, reset>>
              /\ unseen' = unseen \ {r}
              /\ recounted' = (recounted \/ CountsForAnother(r))
         ELSE UNCHANGED <<late, high, reset, unseen, recounted>>
      /\ UNCHANGED <<buff, readers, written, refused>>
  BY DEF StreamRead
<1>3. CASE ~Orderly'
  BY <1>1, <1>3 DEF StreamInv
<1>4. CASE Orderly'
  <2>0. /\ Orderly /\ got' = [got EXCEPT ![r] = g]
        /\ n = Unread(r) => ~CountsForAnother(r)
    <3>1. /\ Orderly
          /\ n = Unread(r) => ~CountsForAnother(r)
      BY <1>2, <1>4 DEF Orderly
    <3>2. got' = IF Orderly THEN [got EXCEPT ![r] = @ \o Cells(r, n)] ELSE got
      BY DEF StreamRead
    <3>3. QED
      BY <3>1, <3>2
  <2>1. /\ st \in 0..high /\ high - st \in Nat /\ Unread(r) = high - st
        /\ n \in 0..high - st /\ (n = high - st <=> n = Unread(r))
        /\ high \in Nat /\ r \in Readers /\ r \in readers /\ Orderly
    <3>1. /\ st \in 0..high /\ Unread(r) = high - st
      BY <2>0, UnreadIs
    <3>2. high \in Nat /\ r \in Readers
      BY StreamAssumption DEF StreamInv, StreamTypes
    <3> HIDE DEF st
    <3>3. /\ n \in 0..high - st /\ (n = high - st <=> n = Unread(r))
      BY <3>1, <3>2, StreamAssumption
    <3>4. QED
      BY <2>0, <3>1, <3>2, <3>3
  <2>2. /\ g \in Seq(Letters)
        /\ After(r, n) = st + n /\ Follows(g, buff, st + n, high, written)
    BY <2>1, TakeFollows
  <2> HIDE DEF n, g, st
  <2>3. /\ got'[r] = g /\ lo'[r] = st + n /\ seen'[r] = reset
        /\ \A q \in readers \ {r} : got'[q] = got[q] /\ lo'[q] = lo[q] /\ seen'[q] = seen[q]
    BY <1>2, <2>0, <2>1, <2>2 DEF StreamInv, StreamTypes
  <2>4. CASE UNCHANGED <<high, reset>>
    <3>1. Start(r)' = st + n /\ \A q \in readers \ {r} : Start(q)' = Start(q)
      BY <2>3, <2>4 DEF Start
    <3>2. \A q \in readers : Follows(got'[q], buff, Start(q)', high, written)
      BY <2>1, <2>2, <2>3, <3>1 DEF StreamInv
    <3>3. /\ n = Unread(r) => Behind' = Behind \ {r}
          /\ n # Unread(r) => Behind' = Behind /\ r \in Behind
      <4>1. Behind \ {r} = Behind' \ {r}
        BY <1>2, <2>4, <3>1 DEF Behind
      <4>2. ASSUME n = Unread(r) PROVE r \notin Behind'
        BY <2>1, <2>4, <3>1, <4>2 DEF Behind
      <4>3. ASSUME n # Unread(r) PROVE r \in Behind /\ r \in Behind'
        <5>1. st + n # high /\ st # high
          <6>1. n # high - st /\ n \in 0..high - st /\ st \in Nat /\ high \in Nat
            BY <2>1, <4>3
          <6>2. QED
            BY ONLY <6>1
        <5>2. QED
          BY <1>2, <2>1, <2>4, <3>1, <5>1 DEF Behind, st
      <4>4. QED
        BY <4>1, <4>2, <4>3
    <3>4. unseen' = Behind'
      BY <1>2, <2>0, <3>3 DEF StreamInv
    <3>5. ASSUME high > 0 PROVE late' = Cardinality(Behind')
      <4>1. /\ unseen = Behind /\ late = Cardinality(Behind) /\ late > 0
            /\ IsFiniteSet(Behind) /\ Cardinality(Behind) \in Nat
            /\ Cardinality(Behind) < LateRange /\ LateRange \in Nat
        BY <2>0, <2>1, <3>5, BehindCounted
      <4>2. CASE n = Unread(r)
        <5>1. r \in Behind
          <6>1. SUFFICES ASSUME readers = {r} PROVE r \in Behind
            BY <2>0, <3>5, <4>1, <4>2 DEF CountsForAnother
          <6>2. Behind # {} /\ Behind \subseteq readers
            BY <4>1, FS_EmptySet DEF Behind
          <6>3. QED
            BY <6>1, <6>2
        <5>2. Cardinality(Behind') = Cardinality(Behind) - 1
          BY <3>3, <4>1, <4>2, <5>1, FS_RemoveElement
        <5>3. late' = (late - 1) % LateRange /\ late - 1 \in 0..LateRange - 1
          BY <1>2, <4>1, <4>2
        <5>4. late' = late - 1
          BY ONLY <4>1, <5>3, Fits
        <5>5. QED
          BY <4>1, <5>2, <5>4
      <4>3. CASE n # Unread(r)
        BY <1>2, <3>3, <4>1, <4>3
      <4>4. QED
        BY <4>2, <4>3
    <3>6. QED
      BY <1>1, <1>2, <2>1, <2>4, <3>2, <3>4, <3>5 DEF StreamInv
  <2>5. CASE n = Unread(r) /\ late' = 0 /\ StartOver
    <3>1. high' = 0 /\ reset' = ~reset
      BY <2>5 DEF StartOver
    <3>2. Start(r)' = 0 /\ Follows(got'[r], buff, 0, 0, written)
      <4>1. Start(r)' = 0
        BY <2>3, <3>1 DEF Start, StreamInv, StreamTypes
      <4>2. Follows(g, buff, high, high, written)
        BY <2>1, <2>2, <2>5
      <4>3. Follows(g, buff, 0, 0, written)
        BY <2>1, <4>2 DEF Follows
      <4>4. QED
        BY <2>3, <4>1, <4>3
    <3>3. Behind \ {r} = {} /\ (high = 0 => readers = {r})
      <4>1. CASE high = 0
        <5>1. Behind = {} /\ unseen = {}
          BY <2>0, <4>1 DEF StreamInv, Follows, Behind
        <5>2. readers = {r}
          BY <2>0, <2>5, <5>1 DEF CountsForAnother
        <5>3. QED
          BY <5>1, <5>2
      <4>2. CASE high # 0
        <5>1. high > 0
          BY <2>1, <4>2
        <5>2. readers = {r} \/ r \in unseen
          BY <2>0, <2>5, <5>1 DEF CountsForAnother
        <5>3. (late - 1) % LateRange = 0
          BY <1>2, <2>5
        <5>4. QED
          BY <2>0, <4>2, <5>1, <5>2, <5>3, LastOne
      <4>3. QED
        BY <4>1, <4>2
    <3>4. ASSUME NEW q \in readers \ {r}
          PROVE  Start(q)' = 0 /\ Follows(got'[q], buff, 0, 0, written)
      <4>1. Follows(got[q], buff, Start(q), high, written)
        BY <2>0 DEF StreamInv
      <4>2. Start(q) = high /\ high # 0
        BY <3>3, <3>4 DEF Behind
      <4>3. seen[q] = reset
        BY <4>2 DEF Start
      <4>4. Start(q)' = 0
        BY <2>3, <3>1, <4>3 DEF Start, StreamInv, StreamTypes
      <4>5. Follows(got[q], buff, 0, 0, written)
        BY <2>1, <4>1, <4>2 DEF Follows
      <4>6. QED
        BY <2>3, <4>4, <4>5
    <3>5. \A q \in readers :
            Start(q)' = 0 /\ Follows(got'[q], buff, Start(q)', high', written)
      BY <3>1, <3>2, <3>4
    <3>6. unseen' = {} /\ Behind' = {}
      BY <1>2, <2>0, <2>5, <3>1, <3>3, <3>5 DEF StreamInv, Behind
    <3>7. QED
      BY <1>1, <1>2, <2>1, <3>1, <3>5, <3>6 DEF StreamInv
  <2>6. QED
    BY <1>2, <2>4, <2>5
<1>5. QED
  BY <1>3, <1>4

LEMMA StreamNextInv == StreamInv /\ [StreamNext]_streamVars => StreamInv'
<1> SUFFICES ASSUME StreamInv, [StreamNext]_streamVars PROVE StreamInv'
  OBVIOUS
<1>1. ASSUME NEW c \in Chars, StreamWrite(c) PROVE StreamInv'
  BY <1>1, StreamWriteInv
<1>2. ASSUME NEW r \in readers, NEW count \in 1..Length, StreamRead(r, count)
      PROVE  StreamInv'
  BY <1>2, StreamReadInv
<1>3. CASE UNCHANGED streamVars
  BY <1>3 DEF streamVars, StreamInv, StreamTypes, Behind, Start, LateRunsAhead, Orderly
<1>4. QED
  BY <1>1, <1>2, <1>3 DEF StreamNext

LEMMA StreamSafety == StreamSpec => []StreamInv
BY StreamInitInv, StreamNextInv, PTL DEF StreamSpec

(* Until a write is refused, or one of several readers, polling, counts    *)
(* for another, every reader gets all that was written, in order, however  *)
(* often the buffer starts again.  A reader that is alone may poll.        *)
THEOREM EverybodyReadsAll == StreamSpec => []Delivered
BY StreamSafety, StreamInvDelivers, PTL

(* However readers poll, a write is refused, and the buffer emptied without *)
(* a restart, only while one has not come to the end since the last        *)
(* character.                                                              *)
THEOREM RefusedForReader == StreamSpec => RefusedOnlyBehind
<1> DEFINE ForReader == high > 0 /\ high' = 0 /\ reset' = reset => unseen # {}
<1>1. StreamInv /\ [StreamNext]_streamVars => [ForReader]_streamVars
  <2> SUFFICES ASSUME StreamInv, StreamNext, high > 0, high' = 0, reset' = reset
               PROVE  unseen # {}
    OBVIOUS
  <2>1. ~(\E r \in readers, count \in 1..Length : StreamRead(r, count))
    <3> SUFFICES ASSUME NEW r \in readers, NEW count \in 1..Length, StreamRead(r, count)
                 PROVE  FALSE
      OBVIOUS
    <3>1. UNCHANGED <<high, reset>> \/ StartOver
      BY DEF StreamRead
    <3>2. high > 0 /\ ~(0 > 0) /\ reset \in BOOLEAN
      BY DEF StreamInv, StreamTypes
    <3>3. QED
      BY <3>1, <3>2 DEF StartOver
  <2>2. PICK c \in Chars : StreamWrite(c)
    BY <2>1 DEF StreamNext
  <2>3. late # 0 /\ high \in Nat
    BY <2>2, StreamAssumption DEF StreamWrite, StreamInv, StreamTypes
  <2>4. late \in 0..Cardinality(unseen)
    BY DEF StreamInv, LateRunsAhead
  <2>5. Cardinality(unseen) # 0
    BY <2>3, <2>4
  <2>6. QED
    BY <2>5, UnseenFinite DEF StreamInv
<1>2. QED
  BY <1>1, StreamSafety, PTL DEF StreamSpec, RefusedOnlyBehind

-----------------------------------------------------------------------------
(***************************************************************************)
(* Chains of a table t of clusters.  K is how many clusters there are.     *)
(***************************************************************************)

K     == Cardinality(Clusters)
Marks == Clusters \cup {Free, EOF}
Table == [Clusters -> Marks]

PathOf(t, c) ==
  LET p[i \in 0 .. K] ==
        IF i = 0 THEN c ELSE IF p[i - 1] \in Clusters THEN t[p[i - 1]] ELSE p[i - 1]
  IN  p

MembersOf(t, c) == {PathOf(t, c)[i] : i \in 0 .. K} \cap Clusters

LEMMA Induct ==
  ASSUME NEW n \in Nat, NEW T, 0 \in T, \A i \in 0..n - 1 : i \in T => i + 1 \in T
  PROVE  \A i \in 0..n : i \in T
<1> DEFINE Bad == {i \in 0..n : i \notin T}
<1> SUFFICES ASSUME Bad # {} PROVE FALSE
  OBVIOUS
<1>1. PICK b \in Bad : \A m \in Bad : b <= m
  <2>1. Bad \in SUBSET Nat
    OBVIOUS
  <2> HIDE DEF Bad
  <2>2. QED
    BY <2>1, LeastNat
<1>2. b \in 1..n
  BY <1>1
<1>3. b - 1 \notin Bad /\ b - 1 \in 0..n - 1
  BY <1>1, <1>2
<1>4. b - 1 \in T /\ b - 1 + 1 = b
  BY <1>2, <1>3
<1>5. QED
  BY <1>1, <1>3, <1>4

LEMMA ClustersAre ==
  /\ Clusters \in SUBSET Int /\ Root \in Clusters
  /\ Free \notin Clusters /\ EOF \notin Clusters /\ Free # EOF
  /\ IsFiniteSet(Clusters) /\ K \in Nat /\ K > 0
<1>1. /\ Clusters \in SUBSET Int /\ Root \in Clusters
      /\ Free \notin Clusters /\ EOF \notin Clusters /\ Free # EOF
  BY FatAssumption DEF Clusters, Root, Free, EOF
<1>2. IsFiniteSet(Clusters) /\ Cardinality(Clusters) \in Nat
  <2>1. Root \in Int /\ LastCluster \in Int
    BY FatAssumption DEF Root
  <2>2. QED
    BY <2>1, FS_Interval, FS_CardinalityType DEF Clusters
<1>3. Cardinality(Clusters) # 0
  BY <1>1, <1>2, FS_EmptySet
<1>4. QED
  BY <1>1, <1>2, <1>3 DEF K

IsPath(q, t, c, n) ==
  /\ q \in [0..n -> Marks] /\ q[0] = c
  /\ \A i \in 0..n - 1 : q[i + 1] = IF q[i] \in Clusters THEN t[q[i]] ELSE q[i]

LEMMA PathExists ==
  ASSUME NEW t \in Table, NEW c \in Marks
  PROVE  \E q : IsPath(q, t, c, K)
<1> DEFINE T == {n \in Nat : \E q : IsPath(q, t, c, n)}
<1>1. 0 \in T
  <2>1. IsPath([i \in 0..0 |-> c], t, c, 0)
    BY DEF IsPath
  <2>2. QED
    BY <2>1
<1>2. ASSUME NEW n \in Nat, n \in T PROVE n + 1 \in T
  <2>1. PICK q : IsPath(q, t, c, n)
    BY <1>2
  <2> DEFINE x == IF q[n] \in Clusters THEN t[q[n]] ELSE q[n]
             r == [i \in 0..n + 1 |-> IF i = n + 1 THEN x ELSE q[i]]
  <2>2. q[n] \in Marks /\ x \in Marks
    BY <2>1 DEF IsPath, Table, Marks
  <2>3. \A i \in 0..n + 1 : i # n + 1 => i \in 0..n
    OBVIOUS
  <2>4. r \in [0..n + 1 -> Marks] /\ r[0] = c /\ r[n + 1] = x
        /\ \A i \in 0..n : r[i] = q[i]
    BY <2>1, <2>2, <2>3 DEF IsPath
  <2> HIDE DEF r
  <2>5. ASSUME NEW i \in 0..n PROVE r[i + 1] = IF r[i] \in Clusters THEN t[r[i]] ELSE r[i]
    <3>1. CASE i = n
      BY <2>4, <3>1
    <3>2. CASE i # n
      <4>1. i \in 0..n - 1 /\ i + 1 \in 0..n
        BY <3>2
      <4>2. QED
        BY <2>1, <2>4, <4>1 DEF IsPath
    <3>3. QED
      BY <3>1, <3>2
  <2>6. IsPath(r, t, c, n + 1)
    BY <2>4, <2>5 DEF IsPath
  <2>7. QED
    BY <2>6
<1> HIDE DEF T
<1>3. \A n \in 0..K : n \in T
  BY <1>1, <1>2, Induct, ClustersAre
<1>4. K \in T
  BY <1>3, ClustersAre
<1>5. QED
  BY <1>4 DEF T

LEMMA PathIs ==
  ASSUME NEW t \in Table, NEW c \in Marks
  PROVE  IsPath(PathOf(t, c), t, c, K)
<1> DEFINE Law(p) == [i \in 0..K |-> IF i = 0 THEN c
                       ELSE IF p[i - 1] \in Clusters THEN t[p[i - 1]] ELSE p[i - 1]]
<1>1. PathOf(t, c) = CHOOSE p : p = Law(p)
  BY DEF PathOf
<1>2. PICK q : IsPath(q, t, c, K)
  BY PathExists
<1>3. q = Law(q)
  <2>1. ASSUME NEW i \in 0..K PROVE q[i] = Law(q)[i]
    <3>1. CASE i = 0
      BY <1>2, <3>1 DEF IsPath
    <3>2. CASE i # 0
      <4>1. i - 1 \in 0..K - 1 /\ i - 1 + 1 = i
        BY <3>2, ClustersAre
      <4>2. QED
        BY <1>2, <3>2, <4>1 DEF IsPath
    <3>3. QED
      BY <3>1, <3>2
  <2>2. q \in [0..K -> Marks]
    BY <1>2 DEF IsPath
  <2>3. QED
    BY <2>1, <2>2
<1>4. PathOf(t, c) = Law(PathOf(t, c))
  BY <1>1, <1>3
<1> DEFINE p == PathOf(t, c)
<1> HIDE DEF p
<1>5. /\ DOMAIN p = 0..K /\ p[0] = c
      /\ \A i \in 1..K : p[i] = IF p[i - 1] \in Clusters THEN t[p[i - 1]] ELSE p[i - 1]
  <2>1. p = Law(p)
    BY <1>4 DEF p
  <2>2. DOMAIN p = 0..K /\ \A i \in 0..K : p[i] = Law(p)[i]
    BY <2>1
  <2>3. QED
    BY <2>2, ClustersAre
<1>6. ASSUME NEW i \in 0..K - 1
      PROVE  p[i + 1] = IF p[i] \in Clusters THEN t[p[i]] ELSE p[i]
  <2>1. i + 1 \in 1..K /\ i + 1 - 1 = i
    BY ClustersAre
  <2>2. QED
    BY <1>5, <2>1
<1>7. \A i \in 0..K : p[i] \in Marks
  <2> DEFINE T == {i \in 0..K : p[i] \in Marks}
  <2>1. 0 \in T
    BY <1>5, ClustersAre
  <2>2. \A i \in 0..K - 1 : i \in T => i + 1 \in T
    <3>1. \A x \in Marks : (IF x \in Clusters THEN t[x] ELSE x) \in Marks
      BY DEF Table, Marks
    <3>2. ASSUME NEW i \in 0..K - 1, p[i] \in Marks PROVE p[i + 1] \in Marks
      BY <1>6, <3>1, <3>2
    <3>3. \A i \in 0..K - 1 : i \in 0..K /\ i + 1 \in 0..K
      BY ClustersAre
    <3>4. QED
      BY <3>2, <3>3
  <2> HIDE DEF T
  <2>3. \A i \in 0..K : i \in T
    BY <2>1, <2>2, Induct, ClustersAre
  <2>4. QED
    BY <2>3 DEF T
<1>8. p = [i \in 0..K |-> p[i]]
  BY <1>4 DEF p
<1>9. p \in [0..K -> Marks]
  BY <1>7, <1>8
<1>10. QED
  BY <1>5, <1>6, <1>9 DEF IsPath, p

(***************************************************************************)
(* own[x] is the first cluster of the file that x belongs to, or Free if x *)
(* belongs to none: x is free then, or it is one that truncation or        *)
(* removal left behind.  rank falls along the links, so a chain ends.      *)
(***************************************************************************)
Linked(t, own, rank, x, y) ==
  /\ own[y] = own[x] /\ own[y] # y /\ rank[y] < rank[x] /\ t[y] # Free

Sound(t, own, rank) ==
  /\ own \in [Clusters -> Clusters \cup {Free}] /\ rank \in [Clusters -> Nat]
  /\ \A x \in Clusters : t[x] \in Clusters => Linked(t, own, rank, x, t[x])
  /\ \A x \in Clusters : own[x] \in Clusters =>
       /\ t[own[x]] # Free /\ own[own[x]] = own[x] /\ t[x] # Free

(* The chain of x has clusters at 0 to l and its end behind.               *)
EndsAt(t, x, l) ==
  /\ l \in 0..K - 1
  /\ \A i \in 0..l : PathOf(t, x)[i] \in Clusters
  /\ \A i \in l + 1..K : PathOf(t, x)[i] = EOF

LEMMA Chain ==
  ASSUME NEW t \in Table, NEW own, NEW rank, Sound(t, own, rank),
         NEW x \in Clusters, t[x] # Free
  PROVE  \A i \in 0..K :
           LET y == PathOf(t, x)[i]
           IN  \/ y = EOF
               \/ /\ y \in Clusters /\ t[y] # Free /\ own[y] = own[x]
                  /\ i > 0 => own[y] # y
<1> DEFINE p == PathOf(t, x)
           Fine(i) == \/ p[i] = EOF
                      \/ /\ p[i] \in Clusters /\ t[p[i]] # Free /\ own[p[i]] = own[x]
                         /\ i > 0 => own[p[i]] # p[i]
           T == {i \in 0..K : Fine(i)}
<1>1. /\ p \in [0..K -> Marks] /\ p[0] = x
      /\ \A i \in 0..K - 1 : p[i + 1] = IF p[i] \in Clusters THEN t[p[i]] ELSE p[i]
  BY PathIs DEF IsPath, Marks
<1> HIDE DEF p
<1>2. 0 \in T
  BY <1>1, ClustersAre
<1>3. ASSUME NEW i \in 0..K - 1, Fine(i) PROVE Fine(i + 1)
  <2>1. CASE p[i] = EOF
    BY <1>1, <2>1, ClustersAre
  <2>2. CASE p[i] \in Clusters /\ t[p[i]] # Free /\ own[p[i]] = own[x]
    <3>1. p[i + 1] = t[p[i]]
      BY <1>1, <2>2
    <3>2. t[p[i]] \in Clusters \/ t[p[i]] = EOF
      BY <2>2 DEF Table, Marks
    <3>3. CASE t[p[i]] \in Clusters
      BY <2>2, <3>1, <3>3 DEF Sound, Linked
    <3>4. QED
      BY <3>1, <3>2, <3>3
  <2>3. QED
    BY <1>3, <2>1, <2>2
<1>4. \A i \in 0..K - 1 : i \in T => i + 1 \in T
  <2>1. \A i \in 0..K - 1 : i + 1 \in 0..K
    BY ClustersAre
  <2> HIDE DEF Fine
  <2>2. QED
    BY <1>3, <2>1
<1> HIDE DEF T
<1>5. \A i \in 0..K : i \in T
  BY <1>2, <1>4, Induct, ClustersAre
<1>6. QED
  BY <1>5 DEF T, p

(* Along a chain the rank falls at every step.                             *)
LEMMA RankFalls ==
  ASSUME NEW t \in Table, NEW own, NEW rank, Sound(t, own, rank),
         NEW x \in Clusters, t[x] # Free
  PROVE  \A i, j \in 0..K : i < j /\ PathOf(t, x)[j] \in Clusters =>
           /\ PathOf(t, x)[i] \in Clusters
           /\ rank[PathOf(t, x)[j]] < rank[PathOf(t, x)[i]]
<1> DEFINE p == PathOf(t, x)
<1>1. /\ p \in [0..K -> Marks]
      /\ \A i \in 0..K - 1 : p[i + 1] = IF p[i] \in Clusters THEN t[p[i]] ELSE p[i]
  BY PathIs DEF IsPath, Marks
<1>2. \A i \in 0..K : p[i] = EOF \/ p[i] \in Clusters
  BY Chain
<1> HIDE DEF p
<1> SUFFICES ASSUME NEW i \in 0..K
             PROVE  \A j \in 0..K : i < j /\ p[j] \in Clusters =>
                      p[i] \in Clusters /\ rank[p[j]] < rank[p[i]]
  BY DEF p
<1> DEFINE Fine(j) == i < j /\ p[j] \in Clusters =>
                        p[i] \in Clusters /\ rank[p[j]] < rank[p[i]]
           T == {j \in 0..K : Fine(j)}
<1>3. 0 \in T
  BY ClustersAre
<1>4. ASSUME NEW j \in 0..K - 1, Fine(j) PROVE Fine(j + 1)
  <2> SUFFICES ASSUME i < j + 1, p[j + 1] \in Clusters
               PROVE  p[i] \in Clusters /\ rank[p[j + 1]] < rank[p[i]]
    OBVIOUS
  <2>1. p[j] \in Clusters /\ p[j + 1] = t[p[j]]
    BY <1>1, <1>2, ClustersAre
  <2>2. rank[p[j + 1]] < rank[p[j]]
    BY <2>1 DEF Sound, Linked
  <2>3. CASE i = j
    BY <2>1, <2>2, <2>3
  <2>4. CASE i # j
    <3>1. i < j
      BY <2>4, ClustersAre
    <3>2. p[i] \in Clusters /\ rank[p[j]] < rank[p[i]]
      BY <1>4, <2>1, <3>1
    <3>3. rank[p[i]] \in Nat /\ rank[p[j]] \in Nat /\ rank[p[j + 1]] \in Nat
      BY <2>1, <3>2 DEF Sound
    <3>4. QED
      BY <2>2, <3>2, <3>3
  <2>5. QED
    BY <2>3, <2>4
<1>5. \A j \in 0..K - 1 : j \in T => j + 1 \in T
  <2>1. \A j \in 0..K - 1 : j + 1 \in 0..K
    BY ClustersAre
  <2> HIDE DEF Fine
  <2>2. QED
    BY <1>4, <2>1
<1> HIDE DEF T
<1>6. \A j \in 0..K : j \in T
  BY <1>3, <1>5, Induct, ClustersAre
<1>7. QED
  BY <1>6 DEF T

(* No cluster comes twice in a chain, and there are K: it ends.            *)
LEMMA ChainEnds ==
  ASSUME NEW t \in Table, NEW own, NEW rank, Sound(t, own, rank),
         NEW x \in Clusters, t[x] # Free
  PROVE  /\ \E l : EndsAt(t, x, l)
         /\ \A i, j \in 0..K : PathOf(t, x)[i] = PathOf(t, x)[j] =>
              i = j \/ PathOf(t, x)[i] = EOF
<1> DEFINE p == PathOf(t, x)
<1>1. /\ p \in [0..K -> Marks] /\ p[0] = x
      /\ \A i \in 0..K - 1 : p[i + 1] = IF p[i] \in Clusters THEN t[p[i]] ELSE p[i]
  BY PathIs DEF IsPath, Marks
<1>2. \A i \in 0..K : p[i] = EOF \/ p[i] \in Clusters
  BY Chain
<1>3. \A i, j \in 0..K : i < j /\ p[j] \in Clusters =>
        p[i] \in Clusters /\ rank[p[j]] < rank[p[i]]
  BY RankFalls
<1> HIDE DEF p
<1>4. ASSUME NEW i \in 0..K, NEW j \in 0..K, p[i] = p[j], i # j PROVE p[i] = EOF
  <2>1. ASSUME NEW a \in 0..K, NEW b \in 0..K, p[a] = p[b], a < b
        PROVE  p[b] = EOF
    <3> SUFFICES ASSUME p[b] \in Clusters PROVE FALSE
      BY <1>2
    <3>1. rank[p[b]] < rank[p[a]] /\ rank[p[b]] = rank[p[a]] /\ rank[p[a]] \in Nat
      BY <1>3, <2>1 DEF Sound
    <3>2. QED
      BY <3>1
  <2>2. i < j \/ j < i
    BY <1>4, ClustersAre
  <2>3. QED
    BY <1>4, <2>1, <2>2
<1>5. \E i \in 0..K : p[i] = EOF
  <2> SUFFICES ASSUME \A i \in 0..K : p[i] # EOF PROVE FALSE
    OBVIOUS
  <2>1. p \in [0..K -> Clusters]
    BY <1>1, <1>2
  <2>2. IsFiniteSet(0..K) /\ Cardinality(0..K) = K + 1
    <3>1. ~(0 > K) /\ K - 0 + 1 = K + 1 /\ 0 \in Int /\ K \in Int
      BY ClustersAre
    <3>2. QED
      BY <3>1, FS_Interval
  <2>3. Cardinality(Clusters) < Cardinality(0..K)
    BY <2>2, ClustersAre DEF K
  <2>4. \E i, j \in 0..K : i # j /\ p[i] = p[j]
    BY <2>1, <2>2, <2>3, ClustersAre, FS_PigeonHole
  <2>5. QED
    BY <1>4, <2>4
<1> DEFINE E == {i \in 0..K : p[i] = EOF}
<1>6. PICK e \in E : \A i \in E : e <= i
  <2>1. E \in SUBSET Nat /\ E # {}
    BY <1>5, ClustersAre
  <2> HIDE DEF E
  <2>2. QED
    BY <2>1, LeastNat
<1>7. e \in 1..K
  BY <1>1, <1>6, ClustersAre
<1>8. \A i \in e..K : p[i] = EOF
  <2> SUFFICES ASSUME NEW i \in e..K, p[i] \in Clusters PROVE FALSE
    BY <1>2, <1>7, ClustersAre
  <2>1. i # e /\ e < i /\ i \in 0..K /\ e \in 0..K
    BY <1>6, <1>7, ClustersAre
  <2>2. p[e] \in Clusters
    BY <1>3, <2>1
  <2>3. QED
    BY <1>6, <2>2, ClustersAre
<1>9. \A i \in 0..e - 1 : p[i] \in Clusters
  <2> SUFFICES ASSUME NEW i \in 0..e - 1, p[i] = EOF PROVE FALSE
    BY <1>2, <1>7, ClustersAre
  <2>1. i \in E /\ ~(e <= i)
    BY <1>7, ClustersAre
  <2>2. QED
    BY <1>6, <2>1
<1>10. e - 1 \in 0..K - 1 /\ e - 1 + 1 = e
  BY <1>7, ClustersAre
<1>11. EndsAt(t, x, e - 1)
  BY <1>8, <1>9, <1>10 DEF EndsAt, p
<1>12. QED
  BY <1>4, <1>11 DEF p

(* Two tables that agree on the first n clusters of a chain.               *)
LEMMA Agree ==
  ASSUME NEW t \in Table, NEW u \in Table, NEW x \in Clusters, NEW n \in 0..K,
         \A i \in 0..n - 1 : PathOf(t, x)[i] \in Clusters =>
                               u[PathOf(t, x)[i]] = t[PathOf(t, x)[i]]
  PROVE  \A i \in 0..n : PathOf(u, x)[i] = PathOf(t, x)[i]
<1> DEFINE p == PathOf(t, x)
           q == PathOf(u, x)
           T == {i \in 0..n : q[i] = p[i]}
<1>1. /\ p[0] = x
      /\ \A i \in 0..K - 1 : p[i + 1] = IF p[i] \in Clusters THEN t[p[i]] ELSE p[i]
  BY PathIs DEF IsPath, Marks
<1>2. /\ q[0] = x
      /\ \A i \in 0..K - 1 : q[i + 1] = IF q[i] \in Clusters THEN u[q[i]] ELSE q[i]
  BY PathIs DEF IsPath, Marks
<1>3. \A i \in 0..n - 1 : p[i] \in Clusters => u[p[i]] = t[p[i]]
  OBVIOUS
<1> HIDE DEF p, q
<1>4. 0 \in T
  BY <1>1, <1>2, ClustersAre
<1>5. ASSUME NEW i \in 0..n - 1, q[i] = p[i] PROVE q[i + 1] = p[i + 1]
  <2>1. i \in 0..K - 1
    BY ClustersAre
  <2>2. QED
    BY <1>1, <1>2, <1>3, <1>5, <2>1
<1>6. \A i \in 0..n - 1 : i \in T => i + 1 \in T
  <2>1. \A i \in 0..n - 1 : i + 1 \in 0..n
    BY ClustersAre
  <2>2. QED
    BY <1>5, <2>1
<1> HIDE DEF T
<1>7. \A i \in 0..n : i \in T
  BY <1>4, <1>6, Induct, ClustersAre
<1>8. QED
  BY <1>7 DEF T, p, q

(* The chain of a cluster in the middle of a chain is the rest of it.      *)
LEMMA Rest ==
  ASSUME NEW t \in Table, NEW x \in Clusters, NEW i \in 0..K,
         PathOf(t, x)[i] \in Clusters
  PROVE  \A j \in 0..K - i : PathOf(t, PathOf(t, x)[i])[j] = PathOf(t, x)[i + j]
<1> DEFINE p == PathOf(t, x)
           q == PathOf(t, p[i])
           T == {j \in 0..K - i : q[j] = p[i + j]}
<1>1. \A j \in 0..K - 1 : p[j + 1] = IF p[j] \in Clusters THEN t[p[j]] ELSE p[j]
  BY PathIs DEF IsPath, Marks
<1>2. /\ q[0] = p[i]
      /\ \A j \in 0..K - 1 : q[j + 1] = IF q[j] \in Clusters THEN t[q[j]] ELSE q[j]
  BY PathIs DEF IsPath, Marks
<1> HIDE DEF p, q
<1>3. 0 \in T
  BY <1>2, ClustersAre
<1>4. ASSUME NEW j \in 0..K - i - 1, q[j] = p[i + j] PROVE q[j + 1] = p[i + (j + 1)]
  <2>1. j \in 0..K - 1 /\ i + j \in 0..K - 1 /\ i + j + 1 = i + (j + 1)
    BY ClustersAre
  <2>2. QED
    BY <1>1, <1>2, <1>4, <2>1
<1>5. \A j \in 0..K - i - 1 : j \in T => j + 1 \in T
  <2>1. \A j \in 0..K - i - 1 : j + 1 \in 0..K - i
    BY ClustersAre
  <2>2. QED
    BY <1>4, <2>1
<1> HIDE DEF T
<1>6. K - i \in Nat
  BY ClustersAre
<1>7. \A j \in 0..K - i : j \in T
  BY <1>3, <1>5, <1>6, Induct
<1>8. QED
  BY <1>7 DEF T, p, q

(* What a change of the table may do to a chain: nothing, or go on with it *)
(* where it ended.                                                         *)
Same(t, u, x)  == \A i \in 0..K : PathOf(u, x)[i] = PathOf(t, x)[i]
Keeps(t, u, x) == \A i \in 0..K : PathOf(t, x)[i] \in Clusters =>
                                    PathOf(u, x)[i] = PathOf(t, x)[i]

LEMMA SameMembers ==
  ASSUME NEW t, NEW u, NEW x, Same(t, u, x)
  PROVE  MembersOf(u, x) = MembersOf(t, x)
BY DEF Same, MembersOf

(* A chain that avoids the cells where two tables differ.                  *)
LEMMA Avoids ==
  ASSUME NEW t \in Table, NEW u \in Table, NEW x \in Clusters,
         \A i \in 0..K : PathOf(t, x)[i] \in Clusters =>
                           u[PathOf(t, x)[i]] = t[PathOf(t, x)[i]]
  PROVE  Same(t, u, x)
<1>1. \A i \in 0..K - 1 : i \in 0..K
  BY ClustersAre
<1>2. K \in 0..K
  BY ClustersAre
<1>3. QED
  BY <1>1, <1>2, Agree DEF Same

(* A free cluster is claimed, by a file to come or by none.                *)
LEMMA Claim ==
  ASSUME NEW t \in Table, NEW own, NEW rank, Sound(t, own, rank),
         NEW c \in Clusters, t[c] = Free, NEW o \in {c, Free}
  PROVE  LET u == [t EXCEPT ![c] = EOF]
         IN  /\ u \in Table /\ Sound(u, [own EXCEPT ![c] = o], rank)
             /\ \A x \in Clusters : t[x] # Free => Same(t, u, x)
<1> DEFINE u == [t EXCEPT ![c] = EOF]
           v == [own EXCEPT ![c] = o]
<1>1. u \in Table /\ u[c] = EOF /\ \A x \in Clusters \ {c} : u[x] = t[x]
  BY DEF Table, Marks
<1>2. /\ v \in [Clusters -> Clusters \cup {Free}] /\ v[c] = o
      /\ \A x \in Clusters \ {c} : v[x] = own[x]
  BY DEF Sound
<1> HIDE DEF u, v
<1>3. ASSUME NEW x \in Clusters, u[x] \in Clusters
      PROVE  Linked(u, v, rank, x, u[x])
  <2>1. x # c /\ u[x] = t[x]
    BY <1>1, <1>3, ClustersAre
  <2>2. Linked(t, own, rank, x, t[x])
    BY <1>3, <2>1 DEF Sound
  <2>3. t[x] # c
    BY <2>2 DEF Linked
  <2>4. QED
    BY <1>1, <1>2, <1>3, <2>1, <2>2, <2>3 DEF Linked
<1>4. ASSUME NEW x \in Clusters, v[x] \in Clusters
      PROVE  u[v[x]] # Free /\ v[v[x]] = v[x] /\ u[x] # Free
  <2>1. CASE x = c
    BY <1>1, <1>2, <1>4, <2>1, ClustersAre
  <2>2. CASE x # c
    <3>1. v[x] = own[x] /\ t[own[x]] # Free /\ own[own[x]] = own[x] /\ t[x] # Free
      BY <1>2, <1>4, <2>2 DEF Sound
    <3>2. own[x] # c
      BY <3>1
    <3>3. QED
      BY <1>1, <1>2, <1>4, <2>2, <3>1, <3>2
  <2>3. QED
    BY <2>1, <2>2
<1>5. Sound(u, v, rank)
  BY <1>2, <1>3, <1>4 DEF Sound
<1>6. ASSUME NEW x \in Clusters, t[x] # Free PROVE Same(t, u, x)
  <2>1. ASSUME NEW i \in 0..K, PathOf(t, x)[i] \in Clusters
        PROVE  u[PathOf(t, x)[i]] = t[PathOf(t, x)[i]]
    <3>1. t[PathOf(t, x)[i]] # Free
      BY <1>6, <2>1, Chain, ClustersAre
    <3>2. QED
      BY <1>1, <2>1, <3>1
  <2>2. QED
    BY <1>1, <2>1, Avoids
<1>7. QED
  BY <1>1, <1>5, <1>6 DEF u, v

(* The first cluster F of a file becomes its last one, or is free.         *)
LEMMA Cut ==
  ASSUME NEW t \in Table, NEW own, NEW rank, Sound(t, own, rank),
         NEW F \in Clusters, own[F] = F, NEW v \in {EOF, Free}
  PROVE  LET u == [t EXCEPT ![F] = v]
             left == [x \in Clusters |-> IF own[x] = F /\ (x # F \/ v = Free)
                                         THEN Free ELSE own[x]]
         IN  /\ u \in Table /\ Sound(u, left, rank)
             /\ \A x \in Clusters : t[x] # Free /\ own[x] # F => Same(t, u, x)
<1> DEFINE u == [t EXCEPT ![F] = v]
           left == [x \in Clusters |-> IF own[x] = F /\ (x # F \/ v = Free)
                                       THEN Free ELSE own[x]]
<1>1. u \in Table /\ u[F] = v /\ \A x \in Clusters \ {F} : u[x] = t[x]
  BY DEF Table, Marks
<1>2. /\ left \in [Clusters -> Clusters \cup {Free}]
      /\ \A x \in Clusters : left[x] = IF own[x] = F /\ (x # F \/ v = Free)
                                       THEN Free ELSE own[x]
  BY DEF Sound
<1> HIDE DEF u, left
<1>3. ASSUME NEW x \in Clusters, u[x] \in Clusters
      PROVE  Linked(u, left, rank, x, u[x])
  <2>1. x # F /\ u[x] = t[x]
    BY <1>1, <1>3, ClustersAre
  <2>2. Linked(t, own, rank, x, t[x])
    BY <1>3, <2>1 DEF Sound
  <2>3. t[x] # F
    BY <2>2 DEF Linked
  <2>4. u[t[x]] = t[t[x]] /\ left[t[x]] = left[x] /\ left[t[x]] # t[x]
    BY <1>1, <1>2, <1>3, <2>1, <2>2, <2>3, ClustersAre DEF Linked
  <2>5. QED
    BY <2>1, <2>2, <2>4 DEF Linked
<1>4. ASSUME NEW x \in Clusters, left[x] \in Clusters
      PROVE  u[left[x]] # Free /\ left[left[x]] = left[x] /\ u[x] # Free
  <2>1. left[x] = own[x] /\ ~(own[x] = F /\ (x # F \/ v = Free))
    BY <1>2, <1>4, ClustersAre
  <2>2. t[own[x]] # Free /\ own[own[x]] = own[x] /\ t[x] # Free
    BY <1>4, <2>1 DEF Sound
  <2>3. QED
    BY <1>1, <1>2, <1>4, <2>1, <2>2
<1>5. Sound(u, left, rank)
  BY <1>2, <1>3, <1>4 DEF Sound
<1>6. ASSUME NEW x \in Clusters, t[x] # Free, own[x] # F PROVE Same(t, u, x)
  <2>1. ASSUME NEW i \in 0..K, PathOf(t, x)[i] \in Clusters
        PROVE  u[PathOf(t, x)[i]] = t[PathOf(t, x)[i]]
    <3>1. own[PathOf(t, x)[i]] = own[x]
      BY <1>6, <2>1, Chain, ClustersAre
    <3>2. QED
      BY <1>1, <1>6, <2>1, <3>1
  <2>2. QED
    BY <1>1, <2>1, Avoids
<1>7. QED
  BY <1>1, <1>5, <1>6 DEF u, left

(* The last cluster d of a chain is linked to a free one, c.               *)
Grows(t, u, c, d) ==
  /\ u \in Table /\ u[d] = c /\ u[c] = EOF
  /\ \A x \in Clusters \ {c, d} : u[x] = t[x]

LEMMA Extend ==
  ASSUME NEW t \in Table, NEW own, NEW rank, Sound(t, own, rank),
         NEW c \in Clusters, t[c] = Free, NEW d \in Clusters, t[d] = EOF
  PROVE  LET u == [t EXCEPT ![d] = c, ![c] = EOF]
         IN  /\ Grows(t, u, c, d)
             /\ Sound(u, [own EXCEPT ![c] = own[d]],
                         [x \in Clusters |-> IF x = c THEN 0 ELSE rank[x] + 1])
<1> DEFINE u == [t EXCEPT ![d] = c, ![c] = EOF]
           v == [own EXCEPT ![c] = own[d]]
           r == [x \in Clusters |-> IF x = c THEN 0 ELSE rank[x] + 1]
<1>0. c # d
  BY ClustersAre
<1>1. /\ u \in Table /\ u[d] = c /\ u[c] = EOF
      /\ \A x \in Clusters \ {c, d} : u[x] = t[x]
  BY <1>0 DEF Table, Marks
<1>2. /\ v \in [Clusters -> Clusters \cup {Free}] /\ v[c] = own[d]
      /\ \A x \in Clusters \ {c} : v[x] = own[x]
  BY DEF Sound
<1>3. /\ r \in [Clusters -> Nat] /\ r[c] = 0
      /\ \A x \in Clusters \ {c} : r[x] = rank[x] + 1 /\ rank[x] \in Nat
  BY DEF Sound
<1> HIDE DEF u, v, r
<1>4. own[d] # c
  BY ClustersAre DEF Sound
<1>5. ASSUME NEW x \in Clusters, u[x] \in Clusters
      PROVE  Linked(u, v, r, x, u[x])
  <2>1. x # c
    BY <1>1, <1>5, ClustersAre
  <2>2. CASE x = d
    BY <1>0, <1>1, <1>2, <1>3, <1>4, <2>2, ClustersAre DEF Linked
  <2>3. CASE x # d
    <3>1. u[x] = t[x] /\ Linked(t, own, rank, x, t[x])
      BY <1>1, <1>5, <2>1, <2>3 DEF Sound
    <3>2. t[x] # c
      BY <3>1 DEF Linked
    <3>3. u[t[x]] # Free
      BY <1>1, <1>5, <3>1, <3>2, ClustersAre DEF Linked
    <3>4. v[t[x]] = own[t[x]] /\ v[x] = own[x] /\ r[t[x]] = rank[t[x]] + 1
          /\ r[x] = rank[x] + 1 /\ rank[x] \in Nat /\ rank[t[x]] \in Nat
      BY <1>2, <1>3, <1>5, <2>1, <3>1, <3>2
    <3>5. QED
      BY <3>1, <3>3, <3>4 DEF Linked
  <2>4. QED
    BY <2>2, <2>3
<1>6. ASSUME NEW x \in Clusters, v[x] \in Clusters
      PROVE  u[v[x]] # Free /\ v[v[x]] = v[x] /\ u[x] # Free
  <2>1. PICK y \in Clusters : v[x] = own[y] /\ own[y] \in Clusters /\ (y = x \/ x = c)
    BY <1>2, <1>6
  <2>2. t[own[y]] # Free /\ own[own[y]] = own[y] /\ t[y] # Free
    BY <2>1 DEF Sound
  <2>3. own[y] # c
    BY <2>2
  <2>4. u[own[y]] # Free
    BY <1>0, <1>1, <2>1, <2>2, <2>3, ClustersAre
  <2>5. u[x] # Free
    BY <1>0, <1>1, <2>1, <2>2, ClustersAre
  <2>6. QED
    BY <1>2, <2>1, <2>2, <2>3, <2>4, <2>5
<1>7. Sound(u, v, r)
  BY <1>2, <1>3, <1>5, <1>6 DEF Sound
<1>8. QED
  BY <1>1, <1>7 DEF u, v, r, Grows

(* What that does to the chains: those that d is not in stay as they are,  *)
(* and the one that it is in goes on with c.                               *)
LEMMA Extended ==
  ASSUME NEW t \in Table, NEW own, NEW rank, Sound(t, own, rank),
         NEW c \in Clusters, t[c] = Free, NEW d \in Clusters, t[d] = EOF,
         NEW u, Grows(t, u, c, d), NEW own2, NEW rank2, Sound(u, own2, rank2),
         NEW x \in Clusters, t[x] # Free
  PROVE  /\ Keeps(t, u, x)
         /\ d \notin MembersOf(t, x) => Same(t, u, x)
         /\ \A i \in 0..K : PathOf(t, x)[i] = d =>
              /\ i + 1 \in 0..K /\ PathOf(u, x)[i + 1] = c
              /\ MembersOf(u, x) = MembersOf(t, x) \cup {c}
         /\ c \notin MembersOf(t, x)
<1> DEFINE p == PathOf(t, x)
           q == PathOf(u, x)
<1>1. /\ u \in Table /\ u[d] = c /\ u[c] = EOF
      /\ \A y \in Clusters \ {c, d} : u[y] = t[y]
  BY DEF Grows
<1>3. u[x] # Free
  BY <1>1, ClustersAre
<1>4. PICK l : EndsAt(t, x, l)
  BY ChainEnds
<1>5. PICK m : EndsAt(u, x, m)
  BY <1>1, <1>3, ChainEnds
<1>6. /\ p \in [0..K -> Marks] /\ p[0] = x
      /\ \A i \in 0..K - 1 : p[i + 1] = IF p[i] \in Clusters THEN t[p[i]] ELSE p[i]
  BY PathIs DEF IsPath, Marks
<1>7. /\ q \in [0..K -> Marks] /\ q[0] = x
      /\ \A i \in 0..K - 1 : q[i + 1] = IF q[i] \in Clusters THEN u[q[i]] ELSE q[i]
  BY <1>1, PathIs DEF IsPath, Marks
<1>8. \A i \in 0..K : p[i] # c
  BY Chain, ClustersAre
<1> HIDE DEF p, q
<1>9. /\ l \in 0..K - 1 /\ \A i \in 0..l : p[i] \in Clusters
      /\ \A i \in l + 1..K : p[i] = EOF
  BY <1>4 DEF EndsAt, p
<1>10. /\ m \in 0..K - 1 /\ \A i \in 0..m : q[i] \in Clusters
       /\ \A i \in m + 1..K : q[i] = EOF
  BY <1>5 DEF EndsAt, q
<1>11. \A i \in 0..l - 1 : p[i] # d
  <2>1. ASSUME NEW i \in 0..l - 1, p[i] = d PROVE FALSE
    <3>1. i \in 0..K - 1 /\ i + 1 \in 0..l
      BY <1>9, ClustersAre
    <3>2. p[i + 1] = EOF
      BY <1>6, <2>1, <3>1
    <3>3. QED
      BY <1>9, <3>1, <3>2, ClustersAre
  <2>2. QED
    BY <2>1
<1>12. \A i \in 0..l : q[i] = p[i]
  <2>1. l \in 0..K
    BY <1>9, ClustersAre
  <2>2. ASSUME NEW i \in 0..l - 1 PROVE p[i] \in Clusters => u[p[i]] = t[p[i]]
    <3>1. i \in 0..K /\ p[i] # c /\ p[i] # d
      BY <1>8, <1>9, <1>11, ClustersAre
    <3>2. QED
      BY <1>1, <3>1
  <2>3. QED
    BY <1>1, <2>1, <2>2, Agree DEF p, q
<1>13. Keeps(t, u, x)
  <2>1. ASSUME NEW i \in 0..K, p[i] \in Clusters PROVE q[i] = p[i]
    <3>1. i \in 0..l
      BY <1>9, <2>1, ClustersAre
    <3>2. QED
      BY <1>12, <3>1
  <2>2. QED
    BY <2>1 DEF Keeps, p, q
<1>14. ASSUME d \notin MembersOf(t, x) PROVE Same(t, u, x)
  <2>1. ASSUME NEW i \in 0..K, p[i] \in Clusters PROVE u[p[i]] = t[p[i]]
    BY <1>1, <1>8, <1>14, <2>1 DEF MembersOf, p
  <2>2. QED
    BY <1>1, <2>1, Avoids DEF p
<1>15. ASSUME NEW i \in 0..K, p[i] = d
       PROVE  /\ i + 1 \in 0..K /\ q[i + 1] = c
              /\ MembersOf(u, x) = MembersOf(t, x) \cup {c}
  <2>1. i = l /\ i + 1 \in 0..K /\ i \in 0..K - 1
    <3>1. ~(i \in l + 1..K)
      BY <1>9, <1>15, ClustersAre
    <3>2. ~(i \in 0..l - 1)
      BY <1>11, <1>15
    <3>3. QED
      BY <1>9, <3>1, <3>2, ClustersAre
  <2>2. q[l] = d
    BY <1>9, <1>12, <1>15, <2>1
  <2>3. q[l + 1] = c
    BY <1>1, <1>7, <2>1, <2>2
  <2>4. m = l + 1
    <3>1. l + 1 \in 0..K /\ q[l + 1] # EOF
      BY <2>1, <2>3, ClustersAre
    <3>2. ~(l + 1 \in m + 1..K)
      BY <1>10, <3>1
    <3>3. m >= l + 1 /\ m \in 0..K - 1
      BY <1>9, <1>10, <3>1, <3>2, ClustersAre
    <3>4. ASSUME m > l + 1 PROVE FALSE
      <4>1. l + 1 \in 0..K - 1 /\ l + 2 \in 0..m /\ l + 1 + 1 = l + 2
        BY <1>9, <3>3, <3>4, ClustersAre
      <4>2. q[l + 2] = EOF
        BY <1>1, <1>7, <2>3, <4>1
      <4>3. QED
        BY <1>10, <4>1, <4>2, ClustersAre
    <3>5. QED
      BY <1>9, <3>3, <3>4
  <2>5. MembersOf(t, x) = {p[j] : j \in 0..l}
    <3>1. \A j \in 0..K : p[j] \in Clusters <=> j \in 0..l
      BY <1>9, ClustersAre
    <3>2. \A j \in 0..l : j \in 0..K
      BY <1>9, ClustersAre
    <3>3. QED
      BY <3>1, <3>2 DEF MembersOf, p, q
  <2>6. MembersOf(u, x) = {q[j] : j \in 0..l + 1}
    <3>1. \A j \in 0..K : q[j] \in Clusters <=> j \in 0..l + 1
      BY <1>10, <2>4, ClustersAre
    <3>2. \A j \in 0..l + 1 : j \in 0..K
      BY <1>9, ClustersAre
    <3>3. QED
      BY <3>1, <3>2 DEF MembersOf, p, q
  <2>7. \A j \in 0..l + 1 : j \in 0..l \/ j = l + 1
    BY <1>9, ClustersAre
  <2>8. l + 1 \in 0..l + 1 /\ \A j \in 0..l : j \in 0..l + 1
    BY <1>9, ClustersAre
  <2>9. MembersOf(u, x) = MembersOf(t, x) \cup {c}
    BY <1>12, <2>3, <2>5, <2>6, <2>7, <2>8
  <2>10. QED
    BY <2>1, <2>3, <2>9
<1>16. c \notin MembersOf(t, x)
  BY <1>8 DEF MembersOf, p
<1>17. QED
  BY <1>13, <1>14, <1>15, <1>16 DEF p, q

-----------------------------------------------------------------------------
(***************************************************************************)
(* Cursors.  A handle is fine if its cursor is in a cluster of its file,   *)
(* or in one that was cut off, and stands where the position says unless   *)
(* it is astray.                                                           *)
(***************************************************************************)

FileRec == [first : Clusters, cur : Clusters, spos : 0..Units, pos : Nat,
            length : 0..MaxLength, entry : Nat, astray : BOOLEAN]

Spot(t, f, i) == PathOf(t, f.first)[i] = f.cur /\ f.pos = i * Units + f.spos

Within(t, own, f) ==
  /\ f \in FileRec /\ own[f.first] = f.first
  /\ t[f.cur] # Free /\ own[f.cur] \in {f.first, Free}

Fine(t, own, f) ==
  Within(t, own, f) /\ (~f.astray => \E i \in 0..K : Spot(t, f, i))

LEMMA DivMod ==
  ASSUME NEW a \in Nat, NEW u \in Nat \ {0}
  PROVE  a \div u \in Nat /\ a % u \in 0..u - 1 /\ a = (a \div u) * u + (a % u)
OBVIOUS

LEMMA Times ==
  ASSUME NEW a \in Int, NEW b \in Int, NEW u \in Int
  PROVE  (a + b) * u = a * u + b * u /\ a * u \in Int /\ 1 * u = u /\ 0 * u = 0
OBVIOUS

(* A walk of n clusters goes m, to the end of the chain if not all of them. *)
Walk(t, f, n, w, m) ==
  /\ m \in 0..n /\ m \in 0..K
  /\ w = [ok |-> m = n,
          f |-> IF m = 0 THEN f ELSE [f EXCEPT !.cur = PathOf(t, f.cur)[m], !.spos = 0]]
  /\ PathOf(t, f.cur)[m] \in Clusters
  /\ m # n => m + 1 \in 0..K /\ PathOf(t, f.cur)[m + 1] = EOF

LEMMA SkipWalks ==
  ASSUME fat \in Table, NEW own, NEW rank, Sound(fat, own, rank),
         NEW f, f.cur \in Clusters, fat[f.cur] # Free, NEW n \in Nat
  PROVE  \E m : Walk(fat, f, n, Skip(f, n), m)
<1> DEFINE p == PathOf(fat, f.cur)
           Stops(k) == p[k] \in Clusters /\ (k = n \/ p[k + 1] = EOF)
           last == CHOOSE k \in (0..n) \cap DOMAIN p : Stops(k)
<1>1. Path(f.cur) = p
  BY DEF Path, PathOf, K
<1>2. Skip(f, n) = [ok |-> last = n,
                    f |-> IF last = 0 THEN f ELSE [f EXCEPT !.cur = p[last], !.spos = 0]]
  BY <1>1 DEF Skip
<1>3. PICK l : EndsAt(fat, f.cur, l)
  BY ChainEnds
<1>4. /\ l \in 0..K - 1 /\ \A i \in 0..l : p[i] \in Clusters
      /\ \A i \in l + 1..K : p[i] = EOF
  BY <1>3 DEF EndsAt
<1>5. p \in [0..K -> Marks]
  BY PathIs DEF IsPath, Marks
<1> HIDE DEF p
<1>6. \E k \in (0..n) \cap DOMAIN p : Stops(k)
  <2>1. CASE n <= l
    <3>1. n \in 0..l /\ n \in (0..n) \cap (0..K)
      BY <1>4, <2>1, ClustersAre
    <3>2. QED
      BY <1>4, <1>5, <3>1
  <2>2. CASE n > l
    <3>1. l \in 0..l /\ l \in (0..n) \cap (0..K) /\ l + 1 \in l + 1..K
      BY <1>4, <2>2, ClustersAre
    <3>2. QED
      BY <1>4, <1>5, <3>1
  <2>3. QED
    BY <1>4, <2>1, <2>2
<1>7. last \in (0..n) \cap DOMAIN p /\ Stops(last)
  BY <1>6
<1> HIDE DEF last
<1>8. ASSUME last # n PROVE last + 1 \in 0..K
  <2>1. p[K] = EOF
    BY <1>4, ClustersAre
  <2>2. last # K
    BY <1>7, <2>1, ClustersAre
  <2>3. QED
    BY <1>5, <1>7, <2>2, ClustersAre
<1>9. Walk(fat, f, n, Skip(f, n), last)
  BY <1>2, <1>5, <1>7, <1>8 DEF Walk, p
<1>10. QED
  BY <1>9

(* A cursor that walks stays in the chain, and m clusters on.              *)
LEMMA WalkStays ==
  ASSUME NEW t \in Table, NEW own, NEW rank, Sound(t, own, rank),
         NEW f, Within(t, own, f), NEW n \in Nat, NEW w, NEW m, Walk(t, f, n, w, m)
  PROVE  /\ Within(t, own, w.f)
         /\ \A i \in 0..K : PathOf(t, f.first)[i] = f.cur =>
              i + m \in 0..K /\ PathOf(t, f.first)[i + m] = w.f.cur
         /\ m # n => t[w.f.cur] = EOF
<1> DEFINE p == PathOf(t, f.first)
           q == PathOf(t, f.cur)
<1>0. f \in FileRec /\ f.first \in Clusters /\ f.cur \in Clusters
  BY DEF Within, FileRec
<1>1. t[f.first] # Free
  BY <1>0 DEF Within, Sound
<1>2. m \in 0..n /\ m \in 0..K /\ q[m] \in Clusters
  BY DEF Walk
<1>3. q[0] = f.cur /\ q \in [0..K -> Marks]
      /\ \A i \in 0..K - 1 : q[i + 1] = IF q[i] \in Clusters THEN t[q[i]] ELSE q[i]
  BY <1>0, PathIs DEF IsPath, Marks
<1>4. w.f.cur = q[m]
  BY <1>0, <1>2, <1>3 DEF Walk, FileRec
<1>5. t[q[m]] # Free /\ own[q[m]] = own[f.cur]
  <2>1. t[f.cur] # Free
    BY DEF Within
  <2>2. q[m] = EOF \/ (t[q[m]] # Free /\ own[q[m]] = own[f.cur])
    BY <1>0, <1>2, <2>1, Chain
  <2>3. QED
    BY <1>2, <2>2, ClustersAre
<1>6. /\ w.f \in FileRec /\ w.f.first = f.first
  <2>1. 0 \in 0..Units
    BY FatAssumption
  <2>2. QED
    BY <1>0, <1>2, <2>1 DEF Walk, FileRec
<1>7. Within(t, own, w.f)
  BY <1>4, <1>5, <1>6 DEF Within
<1>8. ASSUME m # n PROVE t[w.f.cur] = EOF
  <2>1. m \in 0..K - 1 /\ q[m + 1] = EOF
    BY <1>2, <1>8, ClustersAre DEF Walk
  <2> HIDE DEF q
  <2>2. QED
    BY <1>2, <1>3, <1>4, <2>1
<1>9. ASSUME NEW i \in 0..K, p[i] = f.cur
      PROVE  i + m \in 0..K /\ p[i + m] = w.f.cur
  <2>1. \A j \in 0..K - i : q[j] = p[i + j]
    BY <1>0, <1>9, Rest
  <2>2. PICK l : EndsAt(t, f.first, l)
    BY <1>0, <1>1, ChainEnds
  <2>3. p[K] = EOF
    BY <2>2, ClustersAre DEF EndsAt
  <2>4. \A a, b \in 0..K : a < b /\ q[b] \in Clusters => q[a] \in Clusters
    BY <1>0, RankFalls DEF Within
  <2> HIDE DEF p, q
  <2>5. K - i \in 0..K - i /\ K - i \in 0..K /\ i + (K - i) = K
    BY ClustersAre
  <2>6. q[K - i] = EOF
    BY <2>1, <2>3, <2>5
  <2>7. m \in 0..K - i
    <3>1. ~(K - i < m)
      BY <1>2, <2>4, <2>5, <2>6, ClustersAre
    <3>2. K - i # m
      BY <1>2, <2>6, ClustersAre
    <3>3. QED
      BY <1>2, <2>5, <3>1, <3>2, ClustersAre
  <2>8. QED
    BY <1>4, <2>1, <2>7, ClustersAre
<1>10. QED
  BY <1>7, <1>8, <1>9

SameFile(f, g) == g.first = f.first /\ g.entry = f.entry

LEMMA SkipKeeps ==
  ASSUME NEW t, NEW f \in FileRec, NEW n, NEW w, NEW m, Walk(t, f, n, w, m)
  PROVE  /\ SameFile(f, w.f) /\ w.f.pos = f.pos /\ w.f.length = f.length
         /\ w.f.astray = f.astray /\ (w.ok <=> m = n)
         /\ m = 0 => w.f = f
         /\ m # 0 => w.f.spos = 0
BY DEF Walk, SameFile, FileRec

LEMMA ResetFine ==
  ASSUME NEW t \in Table, NEW own, NEW rank, Sound(t, own, rank),
         NEW f, Fine(t, own, f)
  PROVE  /\ Fine(t, own, Reset(f)) /\ SameFile(f, Reset(f))
         /\ Reset(f).cur = f.first /\ Reset(f).spos = 0 /\ Reset(f).astray = FALSE
         /\ Reset(f).length = f.length
<1>1. f \in FileRec /\ f.first \in Clusters /\ own[f.first] = f.first
  BY DEF Fine, Within, FileRec
<1>2. t[f.first] # Free
  BY <1>1 DEF Sound
<1>3. 0 \in 0..Units
  BY FatAssumption
<1>4. Reset(f) \in FileRec /\ SameFile(f, Reset(f)) /\ Reset(f).cur = f.first
      /\ Reset(f).spos = 0 /\ Reset(f).pos = 0 /\ Reset(f).astray = FALSE
      /\ Reset(f).length = f.length
  BY <1>1, <1>3 DEF Reset, FileRec, SameFile
<1>5. PathOf(t, f.first)[0] = f.first
  BY <1>1, PathIs DEF IsPath, Marks
<1>6. Spot(t, Reset(f), 0)
  BY <1>4, <1>5, Times, FatAssumption DEF Spot, SameFile
<1>7. QED
  BY <1>1, <1>2, <1>4, <1>6, ClustersAre DEF Fine, Within, SameFile

LEMMA FromStartFine ==
  ASSUME fat \in Table, NEW own, NEW rank, Sound(fat, own, rank),
         NEW f, Fine(fat, own, f), NEW p \in Nat
  PROVE  Fine(fat, own, FromStart(f, p)) /\ SameFile(f, FromStart(f, p))
<1>1. CASE p > f.length
  BY <1>1 DEF FromStart, SameFile
<1>2. CASE ~(p > f.length)
  <2> DEFINE r == Reset(f)
             n == p \div Units
             w == Skip(r, n)
             g == [w.f EXCEPT !.spos = @ + (p % Units), !.pos = p, !.astray = ~w.ok]
  <2>1. FromStart(f, p) = g
    BY <1>2 DEF FromStart
  <2>2. Fine(fat, own, r) /\ SameFile(f, r) /\ r.cur = f.first /\ r.spos = 0
        /\ r.astray = FALSE
    BY ResetFine
  <2>3. Within(fat, own, r) /\ r \in FileRec /\ r.cur \in Clusters /\ fat[r.cur] # Free
    BY <2>2 DEF Fine, Within, FileRec
  <2>4. n \in Nat /\ p % Units \in 0..Units - 1 /\ p = n * Units + (p % Units)
    BY DivMod, FatAssumption
  <2> HIDE DEF r, n
  <2>5. PICK m : Walk(fat, r, n, w, m)
    BY <2>3, <2>4, SkipWalks
  <2> HIDE DEF w
  <2>6. /\ SameFile(r, w.f) /\ (w.ok <=> m = n)
        /\ m = 0 => w.f = r
        /\ m # 0 => w.f.spos = 0
    BY <2>3, <2>5, SkipKeeps
  <2>7. /\ Within(fat, own, w.f)
        /\ \A i \in 0..K : PathOf(fat, r.first)[i] = r.cur =>
             i + m \in 0..K /\ PathOf(fat, r.first)[i + m] = w.f.cur
    BY <2>3, <2>4, <2>5, WalkStays
  <2>8. w.f.spos = 0 /\ w.f \in FileRec
    BY <2>2, <2>6, <2>7 DEF Within
  <2>9. /\ g \in FileRec /\ SameFile(w.f, g) /\ g.cur = w.f.cur /\ g.pos = p
        /\ g.spos = p % Units /\ g.astray = ~w.ok
    <3>1. w.f.spos + (p % Units) = p % Units /\ p % Units \in 0..Units
      BY <2>4, <2>8, FatAssumption
    <3>2. (~w.ok) \in BOOLEAN
      OBVIOUS
    <3>3. QED
      BY <2>8, <3>1, <3>2 DEF FileRec, SameFile
  <2> HIDE DEF g
  <2>10. Within(fat, own, g)
    BY <2>7, <2>9 DEF Within, SameFile
  <2>11. ASSUME ~g.astray PROVE Spot(fat, g, m) /\ m \in 0..K
    <3>1. m = n /\ m \in 0..K
      BY <2>5, <2>6, <2>9, <2>11 DEF Walk
    <3>2. PathOf(fat, r.first)[0] = r.cur
      <4>1. f.first \in Clusters /\ r.first = f.first
        BY <2>2 DEF SameFile, Fine, Within, FileRec
      <4>2. QED
        BY <2>2, <4>1, PathIs DEF IsPath, Marks
    <3>3. PathOf(fat, r.first)[m] = w.f.cur
      BY <2>7, <3>1, <3>2, ClustersAre
    <3>4. QED
      BY <2>4, <2>6, <2>9, <3>1, <3>3 DEF Spot, SameFile
  <2>12. QED
    BY <2>1, <2>2, <2>6, <2>9, <2>10, <2>11 DEF Fine, SameFile
<1>3. QED
  BY <1>1, <1>2

LEMMA ForwardFine ==
  ASSUME fat \in Table, NEW own, NEW rank, Sound(fat, own, rank),
         NEW f, Fine(fat, own, f), NEW n \in Nat
  PROVE  Fine(fat, own, Forward(f, n)) /\ SameFile(f, Forward(f, n))
<1>1. Within(fat, own, f) /\ f \in FileRec /\ f.cur \in Clusters /\ fat[f.cur] # Free
      /\ f.pos \in Nat /\ f.spos \in 0..Units /\ f.astray \in BOOLEAN
  BY DEF Fine, Within, FileRec
<1> DEFINE a == f.spos + n
           k == a \div Units
           w == Skip(f, k)
<1>2. a \in Nat
  BY <1>1, FatAssumption
<1>3. CASE a < Units
  <2> DEFINE g == [f EXCEPT !.spos = @ + n, !.pos = @ + n]
  <2>1. Forward(f, n) = g
    BY <1>3 DEF Forward
  <2>2. g \in FileRec /\ SameFile(f, g) /\ g.cur = f.cur /\ g.pos = f.pos + n
        /\ g.spos = f.spos + n /\ g.astray = f.astray
    <3>1. f.spos + n \in 0..Units /\ f.pos + n \in Nat
      BY <1>1, <1>2, <1>3, FatAssumption
    <3>2. QED
      BY <1>1, <3>1 DEF FileRec, SameFile
  <2> HIDE DEF g
  <2>3. ASSUME NEW i \in 0..K, Spot(fat, f, i) PROVE Spot(fat, g, i)
    <3>1. i \in Int /\ Units \in Int /\ i * Units \in Int
      BY Times, FatAssumption, ClustersAre
    <3>2. f.pos + n = i * Units + (f.spos + n)
      BY <1>1, <2>3, <3>1, FatAssumption DEF Spot
    <3>3. QED
      BY <2>2, <2>3, <3>2 DEF Spot, SameFile
  <2>4. QED
    BY <1>1, <2>1, <2>2, <2>3 DEF Fine, Within, SameFile
<1>4. CASE ~(a < Units)
  <2>1. k \in Nat /\ a % Units \in 0..Units - 1 /\ a = k * Units + (a % Units)
    BY <1>2, DivMod, FatAssumption
  <2> HIDE DEF k
  <2>2. PICK m : Walk(fat, f, k, w, m)
    BY <1>1, <2>1, SkipWalks
  <2>3. Forward(f, n) = IF w.ok THEN [w.f EXCEPT !.spos = a % Units, !.pos = @ + n]
                        ELSE [w.f EXCEPT !.astray = @ \/ w.f # f]
    BY <1>4 DEF Forward, k
  <2> HIDE DEF w
  <2>4. /\ SameFile(f, w.f) /\ w.f.pos = f.pos /\ w.f.astray = f.astray
        /\ (w.ok <=> m = k)
    BY <1>1, <2>2, SkipKeeps
  <2>5. /\ Within(fat, own, w.f)
        /\ \A i \in 0..K : PathOf(fat, f.first)[i] = f.cur =>
             i + m \in 0..K /\ PathOf(fat, f.first)[i + m] = w.f.cur
    BY <1>1, <2>1, <2>2, WalkStays
  <2>6. w.f \in FileRec
    BY <2>5 DEF Within
  <2>7. CASE w.ok
    <3> DEFINE g == [w.f EXCEPT !.spos = a % Units, !.pos = @ + n]
    <3>1. Forward(f, n) = g
      BY <2>3, <2>7
    <3>2. a % Units \in 0..Units /\ w.f.pos + n \in Nat
      BY <1>1, <2>1, <2>4, FatAssumption
    <3>3. g \in FileRec /\ SameFile(w.f, g) /\ g.cur = w.f.cur /\ g.pos = f.pos + n
          /\ g.spos = a % Units /\ g.astray = f.astray
      BY <2>4, <2>6, <3>2 DEF FileRec, SameFile
    <3> HIDE DEF g
    <3>4. ASSUME NEW i \in 0..K, Spot(fat, f, i)
          PROVE  i + k \in 0..K /\ Spot(fat, g, i + k)
      <4>1. i + k \in 0..K /\ PathOf(fat, f.first)[i + k] = w.f.cur
        BY <2>4, <2>5, <2>7, <3>4 DEF Spot
      <4>2. i \in Int /\ k \in Int /\ Units \in Int
        BY <2>1, FatAssumption, ClustersAre
      <4>3. (i + k) * Units = i * Units + k * Units /\ i * Units \in Int
            /\ k * Units \in Int
        BY <4>2, Times
      <4>4. f.pos = i * Units + f.spos
        BY <3>4 DEF Spot
      <4>5. f.pos + n = (i + k) * Units + (a % Units)
        <5> DEFINE iu == i * Units
                   ku == k * Units
                   au == a % Units
                   s == f.spos
        <5>1. iu \in Int /\ ku \in Int /\ au \in Int /\ s \in Int
              /\ f.pos = iu + s /\ s + n = ku + au
          BY <1>1, <2>1, <4>3, <4>4, FatAssumption
        <5>2. (i + k) * Units = iu + ku
          BY <4>3
        <5> HIDE DEF iu, ku, au
        <5>3. f.pos + n = iu + ku + au
          BY <5>1
        <5>4. QED
          BY <5>2, <5>3 DEF au
      <4>6. QED
        BY <2>4, <3>3, <4>1, <4>5 DEF Spot, SameFile
    <3>5. QED
      BY <2>4, <2>5, <3>1, <3>3, <3>4 DEF Fine, Within, SameFile
  <2>8. CASE ~w.ok
    <3> DEFINE b == f.astray \/ w.f # f
               g == [w.f EXCEPT !.astray = b]
    <3>1. Forward(f, n) = g
      BY <2>3, <2>4, <2>8
    <3>2. b \in BOOLEAN
      BY <1>1
    <3>3. g \in FileRec /\ SameFile(w.f, g) /\ g.cur = w.f.cur /\ g.pos = f.pos
          /\ g.spos = w.f.spos /\ g.astray = b
      <4> HIDE DEF b
      <4>1. QED
        BY <2>4, <2>6, <3>2 DEF FileRec, SameFile
    <3> HIDE DEF g
    <3>4. ASSUME ~g.astray, NEW i \in 0..K, Spot(fat, f, i) PROVE Spot(fat, g, i)
      BY <2>4, <3>3, <3>4 DEF Spot, SameFile
    <3>5. g.astray \/ ~f.astray
      BY <3>3
    <3>6. QED
      BY <2>4, <2>5, <3>1, <3>3, <3>4, <3>5 DEF Fine, Within, SameFile
  <2>9. QED
    BY <2>7, <2>8
<1>5. QED
  BY <1>3, <1>4

LEMMA SeekFine ==
  ASSUME fat \in Table, NEW own, NEW rank, Sound(fat, own, rank),
         NEW f, Fine(fat, own, f), NEW p \in Nat
  PROVE  LET g == IF p = 0 THEN Reset(f)
                  ELSE IF p > f.pos THEN Forward(f, p - f.pos)
                  ELSE Backward(f, f.pos - p)
         IN  Fine(fat, own, g) /\ SameFile(f, g)
<1>1. Within(fat, own, f) /\ f \in FileRec /\ f.pos \in Nat /\ f.spos \in 0..Units
  BY DEF Fine, Within, FileRec
<1>2. Fine(fat, own, Reset(f)) /\ SameFile(f, Reset(f))
  BY ResetFine
<1>3. ASSUME p > f.pos
      PROVE  Fine(fat, own, Forward(f, p - f.pos)) /\ SameFile(f, Forward(f, p - f.pos))
  <2>1. p - f.pos \in Nat
    BY <1>1, <1>3
  <2>2. QED
    BY <2>1, ForwardFine
<1>4. ASSUME ~(p > f.pos)
      PROVE  Fine(fat, own, Backward(f, f.pos - p)) /\ SameFile(f, Backward(f, f.pos - p))
  <2> DEFINE n == f.pos - p
             g == [f EXCEPT !.spos = @ - n, !.pos = @ - n]
  <2>1. n \in Nat /\ f.pos - n = p
    BY <1>1, <1>4
  <2>2. CASE n > f.spos
    <3>1. Backward(f, n) = FromStart(f, p)
      BY <2>1, <2>2 DEF Backward
    <3>2. QED
      BY <3>1, FromStartFine
  <2>3. CASE ~(n > f.spos)
    <3>1. Backward(f, n) = g
      BY <2>3 DEF Backward
    <3>2. g \in FileRec /\ SameFile(f, g) /\ g.cur = f.cur /\ g.pos = p
          /\ g.spos = f.spos - n /\ g.astray = f.astray
      <4>1. f.spos - n \in 0..Units
        BY <1>1, <2>1, <2>3, FatAssumption
      <4> HIDE DEF n
      <4>2. QED
        BY <1>1, <2>1, <4>1 DEF FileRec, SameFile
    <3> HIDE DEF g
    <3>3. ASSUME NEW i \in 0..K, Spot(fat, f, i) PROVE Spot(fat, g, i)
      <4>1. i * Units \in Int
        BY Times, FatAssumption, ClustersAre
      <4>2. p = i * Units + (f.spos - n)
        BY <1>1, <3>3, <4>1, FatAssumption DEF Spot
      <4>3. QED
        BY <3>2, <3>3, <4>2 DEF Spot, SameFile
    <3>4. QED
      BY <1>1, <3>1, <3>2, <3>3 DEF Fine, Within, SameFile
  <2>4. QED
    BY <2>2, <2>3
<1>5. QED
  BY <1>2, <1>3, <1>4

(* Before a unit is read or written, the cursor leaves a cluster that is   *)
(* behind it.                                                              *)
LEMMA StepFine ==
  ASSUME fat \in Table, NEW own, NEW rank, Sound(fat, own, rank),
         NEW f, Fine(fat, own, f), NEW g,
         \/ f.spos < Units /\ g = f
         \/ f.spos = Units /\ Skip(f, 1).ok /\ g = Skip(f, 1).f
  PROVE  /\ Fine(fat, own, g) /\ SameFile(f, g)
         /\ g.spos < Units /\ g.length = f.length
<1>1. Within(fat, own, f) /\ f \in FileRec /\ f.cur \in Clusters /\ fat[f.cur] # Free
      /\ f.pos \in Nat
  BY DEF Fine, Within, FileRec
<1>2. CASE f.spos < Units /\ g = f
  BY <1>2 DEF SameFile
<1>3. CASE f.spos = Units /\ Skip(f, 1).ok /\ g = Skip(f, 1).f
  <2> DEFINE w == Skip(f, 1)
  <2>1. 1 \in Nat
    OBVIOUS
  <2>2. PICK m : Walk(fat, f, 1, w, m)
    BY <1>1, <2>1, SkipWalks
  <2>3. w.ok /\ g = w.f
    BY <1>3
  <2> HIDE DEF w
  <2>4. /\ SameFile(f, g) /\ g.pos = f.pos /\ g.length = f.length
        /\ g.astray = f.astray /\ m = 1 /\ g.spos = 0
    BY <1>1, <2>2, <2>3, SkipKeeps
  <2>5. /\ Within(fat, own, g)
        /\ \A i \in 0..K : PathOf(fat, f.first)[i] = f.cur =>
             i + 1 \in 0..K /\ PathOf(fat, f.first)[i + 1] = g.cur
    BY <1>1, <2>1, <2>2, <2>3, <2>4, WalkStays
  <2>6. ASSUME NEW i \in 0..K, Spot(fat, f, i)
        PROVE  i + 1 \in 0..K /\ Spot(fat, g, i + 1)
    <3>1. i + 1 \in 0..K /\ PathOf(fat, f.first)[i + 1] = g.cur
      BY <2>5, <2>6 DEF Spot
    <3>2. i * Units \in Int /\ (i + 1) * Units = i * Units + Units
      <4>1. i \in Int /\ 1 \in Int /\ Units \in Int
        BY FatAssumption, ClustersAre
      <4>2. QED
        BY <4>1, Times
    <3>3. f.pos = i * Units + Units
      BY <1>3, <2>6 DEF Spot
    <3>4. g.pos = (i + 1) * Units + g.spos
      BY <1>1, <2>4, <3>2, <3>3, FatAssumption
    <3>5. QED
      BY <2>4, <3>1, <3>4 DEF Spot, SameFile
  <2>7. QED
    BY <2>4, <2>5, <2>6, FatAssumption DEF Fine
<1>4. QED
  BY <1>2, <1>3

LEMMA MovedFine ==
  ASSUME NEW t, NEW own, NEW f, Fine(t, own, f), f.spos < Units
  PROVE  /\ Fine(t, own, Moved(f)) /\ SameFile(f, Moved(f))
         /\ Moved(f).length = f.length
<1> DEFINE g == Moved(f)
<1>1. Within(t, own, f) /\ f \in FileRec /\ f.pos \in Nat /\ f.spos \in 0..Units
  BY DEF Fine, Within, FileRec
<1>2. f.spos + 1 \in 0..Units /\ f.pos + 1 \in Nat
  BY <1>1, FatAssumption
<1>3. g \in FileRec /\ SameFile(f, g) /\ g.cur = f.cur /\ g.pos = f.pos + 1
      /\ g.spos = f.spos + 1 /\ g.astray = f.astray /\ g.length = f.length
  BY <1>1, <1>2 DEF Moved, FileRec, SameFile
<1> HIDE DEF g
<1>4. ASSUME NEW i \in 0..K, Spot(t, f, i) PROVE Spot(t, g, i)
  <2>1. i * Units \in Int
    BY Times, FatAssumption, ClustersAre
  <2>2. f.pos + 1 = i * Units + (f.spos + 1)
    BY <1>1, <1>4, <2>1, FatAssumption DEF Spot
  <2>3. QED
    BY <1>3, <1>4, <2>2 DEF Spot, SameFile
<1>5. Fine(t, own, g)
  BY <1>1, <1>3, <1>4 DEF Fine, Within, SameFile
<1>6. QED
  BY <1>3, <1>5 DEF g

LEMMA LengthFine ==
  ASSUME NEW t, NEW own, NEW f, Fine(t, own, f), f.length < MaxLength
  PROVE  LET g == [f EXCEPT !.length = @ + 1]
         IN  Fine(t, own, g) /\ SameFile(f, g) /\ g.length \in 0..MaxLength
<1> DEFINE g == [f EXCEPT !.length = @ + 1]
<1>1. Within(t, own, f) /\ f \in FileRec /\ f.length \in 0..MaxLength
  BY DEF Fine, Within, FileRec
<1>2. f.length + 1 \in 0..MaxLength
  BY <1>1, FatAssumption
<1>3. g \in FileRec /\ SameFile(f, g) /\ g.cur = f.cur /\ g.pos = f.pos
      /\ g.spos = f.spos /\ g.astray = f.astray /\ g.length = f.length + 1
  BY <1>1, <1>2 DEF FileRec, SameFile
<1> HIDE DEF g
<1>4. Fine(t, own, g)
  BY <1>1, <1>3 DEF Fine, Within, SameFile, Spot
<1>5. QED
  BY <1>2, <1>3, <1>4 DEF g

(* A cursor is as fine as it was after a change of the table that keeps    *)
(* the chain of its file, or if it was astray.                             *)
LEMMA StaysFine ==
  ASSUME NEW t, NEW own, NEW u, NEW own2, NEW f, Fine(t, own, f),
         f.astray \/ Keeps(t, u, f.first), own2[f.first] = f.first,
         u[f.cur] # Free, own2[f.cur] \in {f.first, Free}
  PROVE  Fine(u, own2, f)
<1>1. Within(u, own2, f) /\ f.cur \in Clusters
  BY DEF Fine, Within, FileRec
<1>2. ASSUME Keeps(t, u, f.first), NEW i \in 0..K, Spot(t, f, i) PROVE Spot(u, f, i)
  BY <1>1, <1>2 DEF Spot, Keeps
<1>3. QED
  BY <1>1, <1>2 DEF Fine

LEMMA SameKeeps ==
  ASSUME NEW t, NEW u, NEW x, Same(t, u, x)
  PROVE  Keeps(t, u, x)
BY DEF Same, Keeps

-----------------------------------------------------------------------------
(***************************************************************************)
(* The volume.                                                             *)
(***************************************************************************)

EntryRec  == [name : Names, first : Clusters, length : 0..MaxLength]
Slots     == {End, Unused, Other} \cup EntryRec
Listed(d) == {i \in DOMAIN d : d[i].name \in Names}

DirOK(d) ==
  /\ d \in Seq(Slots)
  /\ \A i, j \in Listed(d) : d[i].first = d[j].first => i = j

(* The root directory and every file own the chain they begin.             *)
Owned(t, d, own, rank) ==
  /\ t \in Table /\ Sound(t, own, rank) /\ own[Root] = Root
  /\ \A i \in Listed(d) : own[d[i].first] = d[i].first /\ d[i].first # Root

Placed(d, f) == f.entry \in Listed(d) /\ d[f.entry].first = f.first

HandlesOK(t, d, own, fl) ==
  /\ fl \in [Handles -> FileRec \cup {Closed}]
  /\ \A h \in Handles : fl[h] # Closed => Fine(t, own, fl[h]) /\ Placed(d, fl[h])

Counted(l, fl) ==
  /\ l \in [Clusters -> [refs : Nat, remove : BOOLEAN]]
  /\ \A c \in Clusters :
       /\ l[c].refs = Cardinality({h \in Handles : fl[h].first = c})
       /\ l[c].remove => l[c].refs > 0

FatInv ==
  /\ DirOK(dir) /\ Counted(links, file)
  /\ Len(dir) = Units * Cardinality(MembersOf(fat, Root))
  /\ \E own, rank : Owned(fat, dir, own, rank) /\ HandlesOK(fat, dir, own, file)

LEMMA ListedAre ==
  ASSUME NEW d \in Seq(Slots), NEW i \in Listed(d)
  PROVE  d[i] \in EntryRec /\ d[i].first \in Clusters /\ d[i].name \in Names
         /\ i \in DOMAIN d /\ d[i] \notin {End, Unused}
<1>1. i \in 1..Len(d) /\ d[i].name \in Names
  BY DEF Listed
<1>2. d[i] \in Slots
  BY <1>1
<1>3. d[i] \notin {End, Unused, Other}
  BY <1>1, FatAssumption DEF End, Unused, Other
<1>4. QED
  BY <1>1, <1>2, <1>3 DEF Slots, EntryRec

LEMMA HeadChain ==
  ASSUME NEW t \in Table, NEW own, NEW rank, Sound(t, own, rank),
         NEW x \in Clusters, own[x] = x
  PROVE  /\ t[x] # Free /\ PathOf(t, x)[K] = EOF
         /\ \A y \in MembersOf(t, x) : own[y] = x /\ y \in Clusters
<1>1. t[x] # Free
  BY DEF Sound
<1>2. PICK l : EndsAt(t, x, l)
  BY <1>1, ChainEnds
<1>3. PathOf(t, x)[K] = EOF
  BY <1>2, ClustersAre DEF EndsAt
<1>4. ASSUME NEW i \in 0..K, PathOf(t, x)[i] \in Clusters
      PROVE  own[PathOf(t, x)[i]] = x
  <2>1. PathOf(t, x)[i] # EOF
    BY <1>4, ClustersAre
  <2>2. QED
    BY <1>1, <2>1, Chain
<1>5. QED
  BY <1>1, <1>3, <1>4 DEF MembersOf

LEMMA FatInvMeans == FatInv => TypeOK /\ NoCrossLink /\ LocatesEntry /\ CursorTrue
<1> SUFFICES ASSUME FatInv PROVE TypeOK /\ NoCrossLink /\ LocatesEntry /\ CursorTrue
  OBVIOUS
<1>1. DirOK(dir) /\ Counted(links, file)
      /\ Len(dir) = Units * Cardinality(MembersOf(fat, Root))
  BY DEF FatInv
<1>2. PICK own, rank : Owned(fat, dir, own, rank) /\ HandlesOK(fat, dir, own, file)
  BY DEF FatInv
<1>3. fat \in Table /\ Sound(fat, own, rank) /\ Root \in Clusters /\ own[Root] = Root
  BY <1>2, ClustersAre DEF Owned
<1>4. \A c : Path(c) = PathOf(fat, c)
  BY DEF Path, PathOf, K
<1>5. \A c \in Clusters : Members(c) = MembersOf(fat, c)
  <2>1. ASSUME NEW c \in Clusters PROVE Members(c) = MembersOf(fat, c)
    <3>1. DOMAIN PathOf(fat, c) = 0..K
      BY <1>3, PathIs DEF IsPath, Marks
    <3>2. QED
      BY <1>4, <3>1 DEF Members, MembersOf
  <2>2. QED
    BY <2>1
<1>6. ASSUME NEW i \in Entries
      PROVE  /\ dir[i].first \in Clusters /\ own[dir[i].first] = dir[i].first
             /\ dir[i].first # Root
  BY <1>1, <1>2, <1>6, ListedAre DEF Entries, Listed, Owned, DirOK
<1>7. ASSUME NEW h \in Handles, IsOpen(h)
      PROVE  /\ Fine(fat, own, file[h]) /\ file[h] \in FileRec
             /\ file[h].entry \in Entries /\ dir[file[h].entry].first = file[h].first
  BY <1>2, <1>7 DEF HandlesOK, IsOpen, Fine, Within, Placed, Listed, Entries
<1>8. TypeOK
  <2>1. fat \in [Clusters -> Clusters \cup {Free, EOF}]
    BY <1>3 DEF Table, Marks
  <2>2. dir \in Seq({End, Unused, Other} \cup
                 [name : Names, first : Clusters, length : 0 .. MaxLength])
    BY <1>1 DEF DirOK, Slots, EntryRec
  <2>3. ASSUME NEW h \in Handles, IsOpen(h)
        PROVE  file[h] \in [first : Clusters, cur : Clusters, spos : 0 .. Units, pos : Nat,
                    length : 0 .. MaxLength, entry : DOMAIN dir, astray : BOOLEAN]
    <3>1. file[h].entry \in DOMAIN dir /\ file[h] \in FileRec
      BY <1>7, <2>3 DEF Entries
    <3>2. QED
      BY <3>1 DEF FileRec
  <2>4. QED
    BY <1>1, <1>3, <1>5, <2>1, <2>2, <2>3 DEF TypeOK, Counted
<1>9. NoCrossLink
  <2>1. ASSUME NEW x, x \in Clusters /\ own[x] = x
        PROVE  /\ Path(x)[Cardinality(Clusters)] = EOF
               /\ \A y \in Members(x) : own[y] = x
    BY <1>3, <1>4, <1>5, <2>1, HeadChain DEF K
  <2>2. ASSUME NEW i \in Entries PROVE Members(Root) \cap Members(dir[i].first) = {}
    BY <1>3, <1>6, <2>1
  <2>3. ASSUME NEW i \in Entries, NEW j \in Entries, i # j
        PROVE  Members(dir[i].first) \cap Members(dir[j].first) = {}
    <3>1. dir[i].first # dir[j].first
      BY <1>1, <2>3 DEF DirOK, Entries, Listed
    <3>2. QED
      BY <1>6, <2>1, <3>1
  <2>4. ASSUME NEW h \in Handles, IsOpen(h)
        PROVE  /\ fat[file[h].cur] # Free /\ file[h].cur \notin Members(Root)
               /\ \A i \in Entries : file[h].cur \in Members(dir[i].first) =>
                    dir[i].first = file[h].first
    <3>1. /\ fat[file[h].cur] # Free /\ own[file[h].cur] \in {file[h].first, Free}
          /\ file[h].first # Root /\ file[h].first \in Clusters
      BY <1>6, <1>7, <2>4 DEF Fine, Within
    <3>2. QED
      BY <1>3, <1>6, <2>1, <3>1, ClustersAre
  <2>5. QED
    BY <1>3, <1>6, <2>1, <2>2, <2>3, <2>4 DEF NoCrossLink
<1>10. LocatesEntry
  BY <1>1, <1>7 DEF LocatesEntry, Counted, Entries
<1>11. CursorTrue
  <2>1. ASSUME NEW h \in Handles, IsOpen(h), ~file[h].astray
        PROVE  \E i \in 0..K : Spot(fat, file[h], i)
    BY <1>7, <2>1 DEF Fine
  <2>2. QED
    BY <1>4, <2>1 DEF CursorTrue, Spot, K
<1>12. QED
  BY <1>8, <1>9, <1>10, <1>11

(* The handles on the file that c begins.                                  *)
Users(fl, c) == {h \in Handles : fl[h].first = c}

LEMMA UsersAre ==
  ASSUME NEW l, NEW fl, Counted(l, fl), NEW c \in Clusters
  PROVE  /\ IsFiniteSet(Users(fl, c)) /\ l[c] \in [refs : Nat, remove : BOOLEAN]
         /\ l[c].refs = Cardinality(Users(fl, c)) /\ l[c].refs \in Nat
         /\ l[c].remove => l[c].refs > 0
         /\ l[c].refs = 0 => \A h \in Handles : fl[h].first # c
<1>1. IsFiniteSet(Users(fl, c))
  BY FatAssumption, FS_Subset DEF Users
<1>2. l[c] \in [refs : Nat, remove : BOOLEAN] /\ l[c].refs = Cardinality(Users(fl, c))
      /\ (l[c].remove => l[c].refs > 0)
  BY DEF Counted, Users
<1>3. ASSUME l[c].refs = 0 PROVE Users(fl, c) = {}
  BY <1>1, <1>2, <1>3, FS_EmptySet
<1>4. QED
  BY <1>1, <1>2, <1>3 DEF Users

LEMMA CountSame ==
  ASSUME NEW l, NEW fl, Counted(l, fl), NEW fl2,
         \A h \in Handles : fl2[h].first = fl[h].first
  PROVE  Counted(l, fl2)
<1>1. \A c : {h \in Handles : fl2[h].first = c} = {h \in Handles : fl[h].first = c}
  OBVIOUS
<1>2. QED
  BY <1>1 DEF Counted

LEMMA CountEnter ==
  ASSUME NEW l, NEW fl, Counted(l, fl), NEW h \in Handles, fl[h].first = Free,
         NEW c \in Clusters, NEW fl2, fl2[h].first = c,
         \A g \in Handles \ {h} : fl2[g].first = fl[g].first
  PROVE  Counted([l EXCEPT ![c].refs = @ + 1], fl2)
<1> DEFINE l2 == [l EXCEPT ![c].refs = @ + 1]
<1>1. l[c] \in [refs : Nat, remove : BOOLEAN] /\ l[c].refs \in Nat
      /\ l \in [Clusters -> [refs : Nat, remove : BOOLEAN]]
  BY UsersAre DEF Counted
<1>2. /\ l2 \in [Clusters -> [refs : Nat, remove : BOOLEAN]]
      /\ l2[c].refs = l[c].refs + 1
      /\ \A d \in Clusters \ {c} : l2[d] = l[d]
  BY <1>1
<1> HIDE DEF l2
<1>3. ASSUME NEW d \in Clusters \ {c}
      PROVE  l2[d].refs = Cardinality(Users(fl2, d)) /\ (l2[d].remove => l2[d].refs > 0)
  <2>1. Users(fl2, d) = Users(fl, d)
    <3>1. fl[h].first # d /\ fl2[h].first # d
      BY ClustersAre
    <3>2. QED
      BY <3>1 DEF Users
  <2>2. QED
    BY <1>2, <2>1, UsersAre
<1>4. l2[c].refs = Cardinality(Users(fl2, c)) /\ l2[c].refs > 0
  <2>1. Users(fl2, c) = Users(fl, c) \cup {h} /\ h \notin Users(fl, c)
    <3>1. fl[h].first # c
      BY ClustersAre
    <3>2. QED
      BY <3>1 DEF Users
  <2>2. IsFiniteSet(Users(fl, c)) /\ l[c].refs = Cardinality(Users(fl, c))
    BY UsersAre
  <2>3. Cardinality(Users(fl2, c)) = Cardinality(Users(fl, c)) + 1
    BY <2>1, <2>2, FS_AddElement
  <2>4. QED
    BY <1>1, <1>2, <2>2, <2>3
<1>5. Counted(l2, fl2)
  BY <1>2, <1>3, <1>4 DEF Counted, Users
<1>6. QED
  BY <1>5 DEF l2

LEMMA CountLeave ==
  ASSUME NEW l, NEW fl, Counted(l, fl), NEW h \in Handles, NEW c \in Clusters,
         fl[h].first = c, NEW fl2, fl2[h].first = Free,
         \A g \in Handles \ {h} : fl2[g].first = fl[g].first
  PROVE  /\ l[c].refs - 1 \in Nat /\ l[c].refs - 1 = Cardinality(Users(fl2, c))
         /\ \A d \in Clusters \ {c} : Users(fl2, d) = Users(fl, d)
<1>1. \A d \in Clusters \ {c} : Users(fl2, d) = Users(fl, d)
  <2>1. ASSUME NEW d \in Clusters \ {c} PROVE fl[h].first # d /\ fl2[h].first # d
    BY ClustersAre
  <2>2. QED
    BY <2>1 DEF Users
<1>2. Users(fl2, c) = Users(fl, c) \ {h} /\ h \in Users(fl, c)
  <2>1. fl2[h].first # c
    BY ClustersAre
  <2>2. QED
    BY <2>1 DEF Users
<1>3. IsFiniteSet(Users(fl, c)) /\ l[c].refs = Cardinality(Users(fl, c)) /\ l[c].refs \in Nat
  BY UsersAre
<1>4. IsFiniteSet(Users(fl2, c))
      /\ Cardinality(Users(fl2, c)) = Cardinality(Users(fl, c)) - 1
  BY <1>2, <1>3, FS_RemoveElement
<1>5. Cardinality(Users(fl2, c)) \in Nat
  BY <1>4, FS_CardinalityType
<1>6. QED
  BY <1>1, <1>3, <1>4, <1>5

LEMMA CountForget == Counted([c \in Clusters |-> NoReference], [h \in Handles |-> Closed])
<1>1. \A c \in Clusters : {h \in Handles : [g \in Handles |-> Closed][h].first = c} = {}
  BY ClustersAre DEF Closed
<1>2. \A c \in Clusters :
        Cardinality({h \in Handles : [g \in Handles |-> Closed][h].first = c}) = 0
  BY <1>1, FS_EmptySet
<1>3. QED
  BY <1>2 DEF Counted, NoReference

LEMMA FatInit == Init => FatInv
<1> SUFFICES ASSUME Init PROVE FatInv
  OBVIOUS
<1>1. Counted(links, file)
  BY CountForget DEF Init
<1>2. /\ fat \in Table /\ fat[Root] = EOF
      /\ \A c \in Clusters \ {Root} : fat[c] = Free
  BY ClustersAre DEF Init, Table, Marks
<1> DEFINE own == [c \in Clusters |-> IF c = Root THEN Root ELSE Free]
           rank == [c \in Clusters |-> 0]
<1>3. /\ own \in [Clusters -> Clusters \cup {Free}] /\ own[Root] = Root
      /\ \A c \in Clusters \ {Root} : own[c] = Free
      /\ rank \in [Clusters -> Nat]
  BY ClustersAre
<1> HIDE DEF own, rank
<1>4. Sound(fat, own, rank)
  <2>1. \A c \in Clusters : fat[c] \notin Clusters
    BY <1>2, ClustersAre
  <2>2. \A c \in Clusters : own[c] \in Clusters => c = Root
    BY <1>3, ClustersAre
  <2>3. QED
    BY <1>2, <1>3, <2>1, <2>2, ClustersAre DEF Sound
<1>5. /\ dir \in Seq(Slots) /\ Len(dir) = Units /\ Listed(dir) = {}
  <2>1. PICK label \in {End, Other} : dir = [i \in 1..Units |-> IF i = 1 THEN label ELSE End]
    BY DEF Init
  <2>2. \A i \in 1..Units : dir[i] \in {End, Other}
    BY <2>1
  <2>3. dir \in Seq(Slots) /\ Len(dir) = Units
    BY <2>1, <2>2, FatAssumption DEF Slots
  <2>4. \A i \in DOMAIN dir : dir[i].name \notin Names
    BY <2>1, <2>2, FatAssumption DEF End, Other
  <2>5. QED
    BY <2>3, <2>4 DEF Listed
<1>6. MembersOf(fat, Root) = {Root}
  <2> DEFINE p == PathOf(fat, Root)
  <2>1. fat[Root] # Free
    BY <1>2, ClustersAre
  <2>2. PICK l : EndsAt(fat, Root, l)
    BY <1>2, <1>4, <2>1, ClustersAre, ChainEnds
  <2>3. /\ p[0] = Root
        /\ \A i \in 0..K - 1 : p[i + 1] = IF p[i] \in Clusters THEN fat[p[i]] ELSE p[i]
    BY <1>2, ClustersAre, PathIs DEF IsPath, Marks
  <2>4. l \in 0..K - 1 /\ (\A i \in 0..l : p[i] \in Clusters) /\ \A i \in l + 1..K : p[i] = EOF
    BY <2>2 DEF EndsAt
  <2> HIDE DEF p
  <2>5. p[1] = EOF
    <3>1. 0 \in 0..K - 1 /\ 0 + 1 = 1
      BY ClustersAre
    <3>2. QED
      BY <1>2, <2>3, <3>1, ClustersAre
  <2>6. l = 0
    <3>1. ~(1 \in 0..l)
      BY <2>4, <2>5, ClustersAre
    <3>2. QED
      BY <2>4, <3>1, ClustersAre
  <2>7. \A i \in 0..K : i = 0 \/ p[i] = EOF
    BY <2>4, <2>6, ClustersAre
  <2>8. 0 \in 0..K
    BY ClustersAre
  <2>9. QED
    BY <2>3, <2>7, <2>8, ClustersAre DEF MembersOf, p
<1>7. Len(dir) = Units * Cardinality(MembersOf(fat, Root))
  <2>1. Cardinality({Root}) = 1
    BY FS_Singleton
  <2>2. Units * 1 = Units
    BY FatAssumption
  <2>3. QED
    BY <1>5, <1>6, <2>1, <2>2
<1>8. HandlesOK(fat, dir, own, file)
  BY DEF HandlesOK, Init
<1>9. Owned(fat, dir, own, rank)
  BY <1>2, <1>3, <1>4, <1>5 DEF Owned
<1>10. QED
  BY <1>1, <1>5, <1>7, <1>8, <1>9 DEF FatInv, DirOK

(* What a change of the table leaves as it was: who begins a chain, and    *)
(* the cursors.                                                            *)
Later(t, own, u, own2) ==
  /\ \A x \in Clusters : own[x] = x => own2[x] = x
  /\ \A f : Fine(t, own, f) => Fine(u, own2, f)

LEMMA FineIs ==
  ASSUME NEW t, NEW own, NEW rank, Sound(t, own, rank), NEW f, Fine(t, own, f)
  PROVE  /\ f \in FileRec /\ f.first \in Clusters /\ f.cur \in Clusters
         /\ own[f.first] = f.first /\ t[f.first] # Free /\ t[f.cur] # Free
         /\ own[f.cur] \in {f.first, Free}
BY DEF Fine, Within, FileRec, Sound

LEMMA EmptyIs ==
  ASSUME NEW t, HasEmpty(t)
  PROVE  FirstEmpty(t) \in Clusters /\ t[FirstEmpty(t)] = Free
<1> DEFINE E == {c \in Clusters : t[c] = Free}
<1>1. E # {} /\ E \in SUBSET Nat
  BY FatAssumption DEF HasEmpty, Clusters, Root
<1> HIDE DEF E
<1>2. PICK least \in E : \A d \in E : least <= d
  BY <1>1, LeastNat
<1>3. \E c \in Clusters : t[c] = Free /\ \A d \in Clusters : t[d] = Free => c <= d
  BY <1>2 DEF E
<1>4. QED
  BY <1>3 DEF FirstEmpty

Claims(t, own, c, o, u, own2) ==
  u = [t EXCEPT ![c] = EOF] /\ own2 = [own EXCEPT ![c] = o]

LEMMA ClaimLater ==
  ASSUME NEW t \in Table, NEW own, NEW rank, Sound(t, own, rank),
         NEW c \in Clusters, t[c] = Free, NEW o \in {c, Free},
         NEW u, NEW own2, Claims(t, own, c, o, u, own2)
  PROVE  /\ u \in Table /\ Sound(u, own2, rank) /\ Later(t, own, u, own2)
         /\ own2[c] = o /\ u[c] = EOF
         /\ \A x \in Clusters : t[x] # Free => u[x] = t[x] /\ Same(t, u, x)
<1>1. /\ u \in Table /\ Sound(u, own2, rank)
      /\ \A x \in Clusters : t[x] # Free => Same(t, u, x)
  BY Claim DEF Claims
<1>2. /\ own2[c] = o /\ u[c] = EOF
      /\ \A x \in Clusters \ {c} : u[x] = t[x] /\ own2[x] = own[x]
  BY DEF Table, Sound, Claims
<1>3. \A x \in Clusters : t[x] # Free => u[x] = t[x]
  BY <1>2
<1>4. ASSUME NEW x \in Clusters, own[x] = x PROVE own2[x] = x
  <2>1. t[x] # Free
    BY <1>4 DEF Sound
  <2>2. QED
    BY ONLY <1>2, <1>4, <2>1, t[c] = Free
<1>5. ASSUME NEW f, Fine(t, own, f) PROVE Fine(u, own2, f)
  <2>1. /\ f.first \in Clusters /\ f.cur \in Clusters /\ own[f.first] = f.first
        /\ t[f.first] # Free /\ t[f.cur] # Free /\ own[f.cur] \in {f.first, Free}
    BY <1>5, FineIs
  <2>2. f.cur # c
    BY ONLY <2>1, t[c] = Free
  <2>3. u[f.cur] # Free /\ own2[f.cur] \in {f.first, Free} /\ own2[f.first] = f.first
    BY ONLY <1>2, <1>4, <2>1, <2>2
  <2>4. Keeps(t, u, f.first)
    BY <1>1, <2>1, SameKeeps
  <2>5. QED
    BY ONLY <1>5, <2>3, <2>4, StaysFine
<1>6. QED
  BY <1>1, <1>2, <1>3, <1>4, <1>5 DEF Later

LEMMA GrowLater ==
  ASSUME NEW t \in Table, NEW own, NEW rank, Sound(t, own, rank),
         NEW c \in Clusters, t[c] = Free, NEW d \in Clusters, t[d] = EOF
  PROVE  \E own2, rank2 :
           LET u == [t EXCEPT ![d] = c, ![c] = EOF]
           IN  /\ Grows(t, u, c, d) /\ Sound(u, own2, rank2) /\ Later(t, own, u, own2)
               /\ own2[c] = own[d]
<1> DEFINE u == [t EXCEPT ![d] = c, ![c] = EOF]
           own2 == [own EXCEPT ![c] = own[d]]
           rank2 == [x \in Clusters |-> IF x = c THEN 0 ELSE rank[x] + 1]
<1>1. Grows(t, u, c, d) /\ Sound(u, own2, rank2)
  BY Extend
<1>2. own2[c] = own[d] /\ \A x \in Clusters \ {c} : own2[x] = own[x]
  BY DEF Sound
<1> HIDE DEF u, own2, rank2
<1>3. \A x \in Clusters : t[x] # Free => u[x] # Free
  BY <1>1, ClustersAre DEF Grows
<1>4. ASSUME NEW x \in Clusters, own[x] = x PROVE own2[x] = x
  <2>1. t[x] # Free
    BY <1>4 DEF Sound
  <2>2. QED
    BY <1>2, <1>4, <2>1
<1>5. ASSUME NEW f, Fine(t, own, f) PROVE Fine(u, own2, f)
  <2>1. /\ f.first \in Clusters /\ f.cur \in Clusters /\ own[f.first] = f.first
        /\ t[f.first] # Free /\ t[f.cur] # Free /\ own[f.cur] \in {f.first, Free}
    BY <1>5, FineIs
  <2>2. u[f.cur] # Free /\ own2[f.cur] \in {f.first, Free} /\ own2[f.first] = f.first
    BY <1>2, <1>3, <1>4, <2>1
  <2>3. Keeps(t, u, f.first)
    BY <1>1, <2>1, Extended
  <2>4. QED
    BY ONLY <1>5, <2>2, <2>3, StaysFine
<1>6. QED
  BY <1>1, <1>2, <1>4, <1>5 DEF Later, u

LEMMA LaterOwned ==
  ASSUME NEW t, NEW d, NEW own, NEW rank, Owned(t, d, own, rank), d \in Seq(Slots),
         NEW u \in Table, NEW own2, NEW rank2, Sound(u, own2, rank2),
         Later(t, own, u, own2)
  PROVE  Owned(u, d, own2, rank2)
         /\ \A fl : HandlesOK(t, d, own, fl) => HandlesOK(u, d, own2, fl)
<1>1. \A i \in Listed(d) : d[i].first \in Clusters
  BY ListedAre
<1>2. Owned(u, d, own2, rank2)
  BY <1>1, ClustersAre DEF Owned, Later
<1>3. QED
  BY <1>2 DEF HandlesOK, Later

(* The directory with the entry e at k, and nothing more at the place old. *)
Enlists(d, d2, e, k, old) ==
  /\ DirOK(d) /\ d2 \in Seq(Slots) /\ e \in EntryRec
  /\ k \notin Listed(d) /\ k \in DOMAIN d2 /\ d2[k] = e
  /\ \A i \in Listed(d) \ {old} : i \in DOMAIN d2 /\ d2[i] = d[i] /\ d[i].first # e.first
  /\ \A i \in DOMAIN d2 \ {k} : i \in Listed(d2) => i \in Listed(d) \ {old}

LEMMA Enlist ==
  ASSUME NEW d, NEW e, NEW k, NEW d2, NEW old, Enlists(d, d2, e, k, old)
  PROVE  /\ DirOK(d2) /\ Listed(d2) = (Listed(d) \ {old}) \cup {k}
         /\ \A i \in Listed(d) \ {old} : d2[i] = d[i]
<1>0. /\ DirOK(d) /\ d2 \in Seq(Slots) /\ e \in EntryRec
      /\ k \notin Listed(d) /\ k \in DOMAIN d2 /\ d2[k] = e
      /\ \A i \in Listed(d) \ {old} : i \in DOMAIN d2 /\ d2[i] = d[i] /\ d[i].first # e.first
      /\ \A i \in DOMAIN d2 \ {k} : i \in Listed(d2) => i \in Listed(d) \ {old}
  BY DEF Enlists
<1>1. e.name \in Names
  BY <1>0 DEF EntryRec
<1>2. \A i \in Listed(d) \ {old} : i \in Listed(d2)
  BY <1>0 DEF Listed
<1>3. k \in Listed(d2)
  BY <1>0, <1>1 DEF Listed
<1>4. Listed(d2) = (Listed(d) \ {old}) \cup {k}
  <2>1. \A i \in Listed(d2) : i \in DOMAIN d2
    BY DEF Listed
  <2>2. QED
    BY <1>0, <1>2, <1>3, <2>1
<1>5. ASSUME NEW i \in Listed(d2), NEW j \in Listed(d2), d2[i].first = d2[j].first
      PROVE  i = j
  <2>1. CASE i = k /\ j = k
    BY <2>1
  <2>2. CASE i = k /\ j # k
    BY <1>0, <1>4, <1>5, <2>2
  <2>3. CASE i # k /\ j = k
    BY <1>0, <1>4, <1>5, <2>3
  <2>4. CASE i # k /\ j # k
    BY <1>0, <1>4, <1>5, <2>4 DEF DirOK
  <2>5. QED
    BY <2>1, <2>2, <2>3, <2>4
<1>6. QED
  BY <1>0, <1>4, <1>5 DEF DirOK

(* The first place that is not taken is no entry's.                        *)
LEMMA PlaceIs ==
  ASSUME dir \in Seq(Slots)
  PROVE  /\ Place \notin Listed(dir) /\ Place \in Nat \ {0}
         /\ IF Vacant # {} THEN Place \in DOMAIN dir ELSE Place = Len(dir) + 1
<1>1. CASE Vacant = {}
  <2>1. Place = Len(dir) + 1 /\ Place \notin DOMAIN dir /\ Place \in Nat \ {0}
    BY <1>1 DEF Place
  <2>2. QED
    BY <1>1, <2>1 DEF Listed
<1>2. CASE Vacant # {}
  <2>1. Vacant \in SUBSET Nat
    BY DEF Vacant
  <2>2. PICK i \in Vacant : \A j \in Vacant : i <= j
    BY <1>2, <2>1, LeastNat
  <2>3. Place \in Vacant
    BY <1>2, <2>2 DEF Place
  <2>4. Place \in DOMAIN dir /\ dir[Place] \in {End, Unused} /\ Place \in Nat \ {0}
    BY <2>3 DEF Vacant
  <2>5. Place \notin Listed(dir)
    BY <2>4, ListedAre
  <2>6. QED
    BY <1>2, <2>4, <2>5
<1>3. QED
  BY <1>1, <1>2

(* With unuse the place of an entry, or none.                              *)
Entered(entry, unuse) ==
  /\ DirOK(dir') /\ Listed(dir') = (Listed(dir) \ {unuse}) \cup {Place}
  /\ dir'[Place] = entry
  /\ \A i \in Listed(dir) \ {unuse} : dir'[i] = dir[i]

LEMMA EntersVacant ==
  ASSUME DirOK(dir), Vacant # {}, NEW entry \in EntryRec, NEW unuse,
         unuse # Place, \A i \in Listed(dir) \ {unuse} : dir[i].first # entry.first,
         dir' = [i \in DOMAIN dir |-> IF i = unuse THEN Unused
                                      ELSE [dir EXCEPT ![Place] = entry][i]]
  PROVE  Entered(entry, unuse) /\ Len(dir') = Len(dir)
<1>1. dir \in Seq(Slots) /\ Place \in DOMAIN dir /\ Place \notin Listed(dir)
  BY PlaceIs DEF DirOK
<1>2. /\ DOMAIN dir' = DOMAIN dir /\ dir'[Place] = entry
      /\ \A i \in DOMAIN dir : i # Place => dir'[i] = IF i = unuse THEN Unused ELSE dir[i]
  BY <1>1
<1>3. Unused \in Slots /\ entry \in Slots /\ Unused.name \notin Names
  BY FatAssumption DEF Slots, Unused
<1>4. \A i \in DOMAIN dir : dir'[i] \in Slots
  BY <1>1, <1>2, <1>3
<1>5. dir' \in Seq(Slots) /\ Len(dir') = Len(dir)
  <2>1. DOMAIN dir = 1..Len(dir) /\ Len(dir) \in Nat
    BY <1>1
  <2>2. dir' = [i \in 1..Len(dir) |-> dir'[i]]
    BY <2>1
  <2>3. QED
    BY <1>4, <2>1, <2>2
<1>6. \A i \in Listed(dir) \ {unuse} : i \in DOMAIN dir' /\ dir'[i] = dir[i]
  BY <1>1, <1>2 DEF Listed
<1>7. \A i \in DOMAIN dir' \ {Place} : i \in Listed(dir') => i \in Listed(dir) \ {unuse}
  BY <1>2, <1>3 DEF Listed
<1>8. Enlists(dir, dir', entry, Place, unuse)
  BY <1>1, <1>2, <1>5, <1>6, <1>7 DEF Enlists
<1>9. QED
  BY ONLY <1>2, <1>5, <1>8, Enlist DEF Entered

LEMMA EntersNew ==
  ASSUME DirOK(dir), Vacant = {}, NEW entry \in EntryRec, NEW unuse,
         unuse # Place, \A i \in Listed(dir) \ {unuse} : dir[i].first # entry.first,
         NEW old \in [1..Units - 1 -> {End, Unused, Other}],
         dir' = [i \in DOMAIN (dir \o <<entry>> \o old) |->
                   IF i = unuse THEN Unused ELSE (dir \o <<entry>> \o old)[i]]
  PROVE  Entered(entry, unuse) /\ Len(dir') = Len(dir) + Units
<1> DEFINE n == Len(dir)
           d == dir \o <<entry>> \o old
<1>1. dir \in Seq(Slots) /\ Place = n + 1 /\ Place \notin Listed(dir) /\ n \in Nat
  BY PlaceIs DEF DirOK
<1>2. Unused \in Slots /\ entry \in Slots /\ Unused.name \notin Names
      /\ {End, Unused, Other} \subseteq Slots
      /\ \A x \in {End, Unused, Other} : x.name \notin Names
  BY FatAssumption DEF Slots, Unused, End, Other
<1>3. old \in Seq(Slots) /\ Len(old) = Units - 1
  BY <1>2, FatAssumption
<1>4. <<entry>> \in Seq(Slots) /\ Len(<<entry>>) = 1
  BY <1>2
<1>5. dir \o <<entry>> \in Seq(Slots) /\ Len(dir \o <<entry>>) = n + 1
      /\ \A i \in 1..n + 1 : (dir \o <<entry>>)[i] = IF i <= n THEN dir[i] ELSE entry
  <2> DEFINE e == <<entry>>
  <2>1. e[1] = entry /\ \A i \in 1..n + 1 : i <= n \/ i - n = 1
    BY <1>1
  <2>2. e \in Seq(Slots) /\ Len(e) = 1
    BY <1>4
  <2> HIDE DEF e
  <2>3. /\ dir \o e \in Seq(Slots) /\ Len(dir \o e) = Len(dir) + Len(e)
        /\ \A i \in 1..Len(dir) + Len(e) :
             (dir \o e)[i] = IF i <= Len(dir) THEN dir[i] ELSE e[i - Len(dir)]
    BY <1>1, <2>2, ConcatProperties
  <2>4. \A i \in 1..n + 1 : (dir \o e)[i] = IF i <= n THEN dir[i] ELSE entry
    BY <2>1, <2>2, <2>3
  <2>5. QED
    BY <2>2, <2>3, <2>4 DEF e
<1>6. /\ d \in Seq(Slots) /\ Len(d) = n + Units
      /\ \A i \in 1..n + Units : d[i] = IF i <= n THEN dir[i] ELSE IF i = n + 1 THEN entry
                                        ELSE old[i - (n + 1)]
  <2> DEFINE a == dir \o <<entry>>
  <2>1. a \in Seq(Slots) /\ Len(a) = n + 1
    BY <1>5
  <2>2. \A i \in 1..n + 1 : a[i] = IF i <= n THEN dir[i] ELSE entry
    BY <1>5
  <2>3. d = a \o old
    OBVIOUS
  <2> HIDE DEF a, d
  <2>4. /\ d \in Seq(Slots) /\ Len(d) = Len(a) + Len(old)
        /\ \A i \in 1..Len(a) + Len(old) :
             d[i] = IF i <= Len(a) THEN a[i] ELSE old[i - Len(a)]
    BY <1>3, <2>1, <2>3, ConcatProperties
  <2>5. Len(a) + Len(old) = n + Units
    BY <1>1, <1>3, <2>1, FatAssumption
  <2>6. \A i \in 1..n + Units : d[i] = IF i <= n + 1 THEN a[i] ELSE old[i - (n + 1)]
    BY <2>1, <2>4, <2>5
  <2>7. \A i \in 1..n + Units : /\ i <= n + 1 => i \in 1..n + 1
                                /\ i <= n => i <= n + 1
                                /\ i <= n + 1 /\ ~(i <= n) => i = n + 1
    BY <1>1, FatAssumption
  <2>8. n + 1 \in 1..n + 1 /\ ~(n + 1 <= n)
    BY <1>1
  <2>9. \A i \in 1..n + Units : d[i] = IF i <= n THEN dir[i] ELSE IF i = n + 1 THEN entry
                                         ELSE old[i - (n + 1)]
    BY ONLY <2>2, <2>6, <2>7, <2>8
  <2>10. QED
    BY <2>4, <2>5, <2>9
<1> HIDE DEF d
<1>7. /\ DOMAIN dir' = 1..n + Units
      /\ \A i \in 1..n + Units : dir'[i] = IF i = unuse THEN Unused ELSE d[i]
  BY <1>1, <1>6, FatAssumption DEF d
<1>8. /\ Place \in DOMAIN dir' /\ dir'[Place] = entry
      /\ \A i \in DOMAIN dir : i \in DOMAIN dir'
                               /\ dir'[i] = IF i = unuse THEN Unused ELSE dir[i]
      /\ \A i \in DOMAIN dir' : i \in DOMAIN dir \/ i = Place
                                \/ dir'[i] \in {End, Unused, Other}
  <2>1. \A i \in 1..n + Units : i \notin 1..n + 1 => old[i - (n + 1)] \in {End, Unused, Other}
    BY <1>1, FatAssumption
  <2>2. n + 1 \in 1..n + Units /\ DOMAIN dir = 1..n
    BY <1>1, FatAssumption
  <2>3. QED
    BY <1>1, <1>6, <1>7, <2>1, <2>2, FatAssumption
<1>9. dir' \in Seq(Slots) /\ Len(dir') = n + Units
  <2>1. \A i \in 1..n + Units : d[i] \in Slots
    BY <1>1, <1>6, FatAssumption
  <2>2. \A i \in 1..n + Units : dir'[i] \in Slots
    BY <1>2, <1>7, <2>1
  <2> DEFINE k == n + Units
  <2>3. dir' = [i \in 1..k |-> dir'[i]] /\ k \in Nat
    BY <1>1, <1>7, FatAssumption DEF d
  <2>4. \A i \in 1..k : dir'[i] \in Slots
    BY <2>2
  <2> HIDE DEF k
  <2>5. dir' \in [1..k -> Slots]
    BY <2>3, <2>4
  <2>6. dir' \in Seq(Slots) /\ Len(dir') = k
    BY ONLY <2>3, <2>5
  <2>7. QED
    BY <2>6 DEF k
<1>10. \A i \in Listed(dir) \ {unuse} : i \in DOMAIN dir' /\ dir'[i] = dir[i]
  BY <1>8 DEF Listed
<1>11. \A i \in DOMAIN dir' \ {Place} : i \in Listed(dir') => i \in Listed(dir) \ {unuse}
  BY <1>2, <1>8 DEF Listed
<1>12. Enlists(dir, dir', entry, Place, unuse)
  BY <1>1, <1>8, <1>9, <1>10, <1>11 DEF Enlists
<1>13. QED
  BY ONLY <1>8, <1>9, <1>12, Enlist DEF Entered

LEMMA LastIs ==
  ASSUME NEW t \in Table, NEW own, NEW rank, Sound(t, own, rank),
         NEW x \in Clusters, t[x] # Free
  PROVE  \E d \in MembersOf(t, x) : t[d] = EOF
<1> DEFINE p == PathOf(t, x)
<1>1. PICK l : EndsAt(t, x, l)
  BY ChainEnds
<1>2. \A i \in 0..K - 1 : p[i + 1] = IF p[i] \in Clusters THEN t[p[i]] ELSE p[i]
  BY PathIs DEF IsPath, Marks
<1>3. l \in 0..K - 1 /\ l \in 0..K /\ p[l] \in Clusters /\ p[l + 1] = EOF
  <2>1. l \in 0..K - 1 /\ \A i \in 0..l : p[i] \in Clusters
    BY <1>1 DEF EndsAt
  <2>2. \A i \in l + 1..K : p[i] = EOF
    BY <1>1 DEF EndsAt
  <2>3. l \in 0..l /\ l + 1 \in l + 1..K /\ l \in 0..K
    BY <2>1, ClustersAre
  <2> HIDE DEF p
  <2>4. QED
    BY <2>1, <2>2, <2>3
<1> HIDE DEF p
<1>4. t[p[l]] = EOF
  BY <1>2, <1>3
<1>5. QED
  BY <1>3, <1>4 DEF MembersOf, p

LEMMA EnteredOwned ==
  ASSUME DirOK(dir), NEW entry, NEW unuse, Entered(entry, unuse),
         NEW t, NEW own, NEW rank, Owned(t, dir, own, rank),
         own[entry.first] = entry.first, entry.first # Root, entry \in EntryRec,
         NEW u \in Table, NEW own2, NEW rank2, Sound(u, own2, rank2),
         Later(t, own, u, own2)
  PROVE  Owned(u, dir', own2, rank2)
<1>1. entry.first \in Clusters /\ own2[entry.first] = entry.first
  BY DEF EntryRec, Later
<1>2. Owned(u, dir, own2, rank2)
  BY LaterOwned DEF DirOK
<1>3. ASSUME NEW i \in Listed(dir')
      PROVE  own2[dir'[i].first] = dir'[i].first /\ dir'[i].first # Root
  <2>1. CASE i = Place
    BY <1>1, <2>1 DEF Entered
  <2>2. CASE i # Place
    <3>1. i \in Listed(dir) /\ dir'[i] = dir[i]
      BY <1>3, <2>2 DEF Entered
    <3>2. QED
      BY <1>2, <3>1 DEF Owned
  <2>3. QED
    BY <2>1, <2>2
<1>4. QED
  BY <1>2, <1>3 DEF Owned

LEMMA AllocateDoes ==
  ASSUME DirOK(dir), fat \in Table, NEW t, NEW own, NEW rank, Owned(t, dir, own, rank),
         MembersOf(t, Root) = MembersOf(fat, Root),
         \A x \in MembersOf(fat, Root) : t[x] = fat[x],
         Len(dir) = Units * Cardinality(MembersOf(t, Root)),
         NEW entry \in EntryRec, own[entry.first] = entry.first, entry.first # Root,
         NEW unuse, unuse # Place,
         \A i \in Listed(dir) \ {unuse} : dir[i].first # entry.first,
         Allocate(t, entry, unuse)
  PROVE  /\ Entered(entry, unuse)
         /\ Len(dir') = Units * Cardinality(MembersOf(fat', Root))
         /\ \E own2, rank2 : Owned(fat', dir', own2, rank2) /\ Later(t, own, fat', own2)
<1>1. t \in Table /\ Sound(t, own, rank) /\ own[Root] = Root /\ Root \in Clusters
      /\ t[Root] # Free
  BY ClustersAre DEF Owned, Sound
<1>2. CASE Vacant # {}
  <2>1. fat' = t
    BY <1>2 DEF Allocate
  <2>2. Entered(entry, unuse) /\ Len(dir') = Len(dir)
    <3>1. dir' = [i \in DOMAIN [dir EXCEPT ![Place] = entry] |->
                    IF i = unuse THEN Unused ELSE [dir EXCEPT ![Place] = entry][i]]
      BY <1>2 DEF Allocate
    <3>2. DOMAIN [dir EXCEPT ![Place] = entry] = DOMAIN dir
      OBVIOUS
    <3>3. QED
      BY <1>2, <3>1, <3>2, EntersVacant
  <2>3. Later(t, own, t, own)
    BY DEF Later
  <2>4. Owned(t, dir', own, rank)
    BY <1>1, <2>2, <2>3, EnteredOwned
  <2>5. QED
    BY <2>1, <2>2, <2>3, <2>4
<1>3. CASE Vacant = {}
  <2> DEFINE c == FirstEmpty(t)
             d == LastOf(Root)
             u == [t EXCEPT ![d] = c, ![c] = EOF]
  <2>1. HasEmpty(t) /\ fat' = u
    BY <1>3 DEF Allocate
  <2>2. PICK old \in [1..Units - 1 -> {End, Unused, Other}] :
          dir' = [i \in DOMAIN (dir \o <<entry>> \o old) |->
                    IF i = unuse THEN Unused ELSE (dir \o <<entry>> \o old)[i]]
    BY <1>3 DEF Allocate
  <2>3. Entered(entry, unuse) /\ Len(dir') = Len(dir) + Units
    BY <1>3, <2>2, EntersNew
  <2>4. c \in Clusters /\ t[c] = Free
    BY <2>1, EmptyIs
  <2>5. d \in MembersOf(t, Root) /\ t[d] = EOF
    <3>1. \E x \in MembersOf(t, Root) : t[x] = EOF
      BY <1>1, LastIs
    <3>2. \E x \in MembersOf(fat, Root) : fat[x] = EOF
      BY <3>1
    <3>3. Members(Root) = MembersOf(fat, Root)
      <4>1. Path(Root) = PathOf(fat, Root)
        BY DEF Path, PathOf, K
      <4>2. Root \in Marks
        BY <1>1 DEF Marks
      <4>3. DOMAIN PathOf(fat, Root) = 0..K
        BY <4>2, PathIs DEF IsPath
      <4>4. QED
        BY <4>1, <4>3 DEF Members, MembersOf
    <3>4. d \in MembersOf(fat, Root) /\ fat[d] = EOF
      BY <3>2, <3>3 DEF LastOf
    <3>5. QED
      BY <3>4
  <2>6. d \in Clusters
    BY <2>5 DEF MembersOf
  <2>7. PICK own2, rank2 :
          Grows(t, u, c, d) /\ Sound(u, own2, rank2) /\ Later(t, own, u, own2)
    BY <1>1, <2>4, <2>5, <2>6, GrowLater
  <2> HIDE DEF c, d, u
  <2>8. MembersOf(u, Root) = MembersOf(t, Root) \cup {c} /\ c \notin MembersOf(t, Root)
    <3>1. PICK i \in 0..K : PathOf(t, Root)[i] = d
      BY <2>5 DEF MembersOf
    <3>2. QED
      BY <1>1, <2>4, <2>5, <2>6, <2>7, <3>1, Extended
  <2>9. Len(dir) + Units = Units * Cardinality(MembersOf(u, Root))
    <3>1. IsFiniteSet(MembersOf(t, Root))
      BY ClustersAre, FS_Subset DEF MembersOf
    <3>2. Cardinality(MembersOf(u, Root)) = Cardinality(MembersOf(t, Root)) + 1
          /\ Cardinality(MembersOf(t, Root)) \in Nat
      BY <2>8, <3>1, FS_AddElement, FS_CardinalityType
    <3> DEFINE n == Cardinality(MembersOf(t, Root))
    <3>3. n \in Int /\ Units \in Int
      BY <3>2, FatAssumption
    <3> HIDE DEF n
    <3>4. Units * (n + 1) = Units * n + Units
      BY <3>3
    <3>5. QED
      BY <3>2, <3>4 DEF n
  <2>10. u \in Table
    BY <2>7 DEF Grows
  <2>11. Owned(u, dir', own2, rank2)
    BY <2>3, <2>7, <2>10, EnteredOwned
  <2>12. QED
    BY <2>1, <2>3, <2>7, <2>9, <2>11
<1>4. QED
  BY <1>2, <1>3

-----------------------------------------------------------------------------
(* Every operation keeps it.                                               *)

(* own and rank of the table before the step.                              *)
Known(own, rank) ==
  /\ FatInv /\ DirOK(dir) /\ dir \in Seq(Slots) /\ Counted(links, file)
  /\ Len(dir) = Units * Cardinality(MembersOf(fat, Root))
  /\ Owned(fat, dir, own, rank) /\ HandlesOK(fat, dir, own, file)
  /\ fat \in Table /\ Sound(fat, own, rank) /\ own[Root] = Root /\ fat[Root] # Free
  /\ Root \in Clusters

LEMMA InvKnows == FatInv => \E own, rank : Known(own, rank)
<1> SUFFICES ASSUME FatInv PROVE \E own, rank : Known(own, rank)
  OBVIOUS
<1>1. PICK own, rank : Owned(fat, dir, own, rank) /\ HandlesOK(fat, dir, own, file)
  BY DEF FatInv
<1>2. fat \in Table /\ Sound(fat, own, rank) /\ own[Root] = Root
  BY <1>1 DEF Owned
<1>3. fat[Root] # Free
  BY <1>2, ClustersAre DEF Sound
<1>4. Known(own, rank)
  BY <1>1, <1>2, <1>3, ClustersAre DEF Known, FatInv, DirOK
<1>5. QED
  BY <1>4

(* The volume after the step.                                              *)
LEMMA KnownNext ==
  ASSUME DirOK(dir'), Counted(links', file'),
         Len(dir') = Units * Cardinality(MembersOf(fat', Root)),
         NEW own, NEW rank, Owned(fat', dir', own, rank), HandlesOK(fat', dir', own, file')
  PROVE  FatInv'
BY DEF FatInv

LEMMA HandleIs ==
  ASSUME NEW own, NEW rank, Known(own, rank), NEW h \in Handles, IsOpen(h)
  PROVE  /\ Fine(fat, own, file[h]) /\ Placed(dir, file[h]) /\ file[h] \in FileRec
         /\ file[h].entry \in Listed(dir) /\ file[h].first \in Clusters
         /\ file[h].first # Root /\ own[file[h].first] = file[h].first
<1>1. Fine(fat, own, file[h]) /\ Placed(dir, file[h])
  BY DEF Known, HandlesOK, IsOpen
<1>2. file[h].entry \in Listed(dir) /\ dir[file[h].entry].first = file[h].first
  BY <1>1 DEF Placed
<1>3. QED
  BY <1>1, <1>2, FineIs DEF Known, Owned

LEMMA ShutIs ==
  ASSUME NEW h \in Handles, ~IsOpen(h)
  PROVE  file[h].first = Free
BY DEF IsOpen, Closed

LEMMA FetchIs ==
  ASSUME NEW own, NEW rank, Known(own, rank), NEW n \in Names, Found(n) # {}
  PROVE  LET k == Fetch(n)
         IN  /\ k \in Listed(dir) /\ k \in Nat \ {0} /\ dir[k] \in EntryRec /\ dir[k].name = n
             /\ dir[k].first \in Clusters /\ dir[k].length \in 0..MaxLength
             /\ own[dir[k].first] = dir[k].first /\ dir[k].first # Root
<1>1. dir \in Seq(Slots)
  BY DEF Known
<1>2. Found(n) \in SUBSET Nat /\ \A i \in Found(n) : i \in Listed(dir) /\ dir[i].name = n
                                                    /\ i \in Nat \ {0}
  BY <1>1 DEF Found, Listed
<1>3. PICK i \in Found(n) : \A j \in Found(n) : i <= j
  BY <1>2, LeastNat
<1>4. Fetch(n) \in Found(n)
  BY <1>3 DEF Fetch
<1>5. dir[Fetch(n)] \in EntryRec /\ dir[Fetch(n)].first \in Clusters
  BY <1>1, <1>2, <1>4, ListedAre
<1>6. dir[Fetch(n)].length \in 0..MaxLength
  BY <1>5 DEF EntryRec
<1>7. QED
  BY <1>2, <1>4, <1>5, <1>6 DEF Known, Owned

LEMMA OpenedFine ==
  ASSUME NEW t \in Table, NEW own, NEW rank, Sound(t, own, rank), NEW c \in Clusters,
         own[c] = c, NEW length \in 0..MaxLength, NEW k \in Nat
  PROVE  LET f == Opened(c, length, k)
         IN  Fine(t, own, f) /\ f.first = c /\ f.entry = k /\ f.cur = c
<1> DEFINE f == Opened(c, length, k)
<1>1. 0 \in 0..Units
  BY FatAssumption
<1>2. /\ f \in FileRec /\ f.first = c /\ f.cur = c /\ f.spos = 0 /\ f.pos = 0
      /\ f.entry = k
  BY <1>1 DEF Opened, FileRec
<1> HIDE DEF f
<1>3. t[c] # Free
  BY DEF Sound
<1>4. PathOf(t, c)[0] = c
  BY PathIs DEF IsPath, Marks
<1>5. Spot(t, f, 0)
  BY <1>2, <1>4, Times, FatAssumption DEF Spot
<1>6. Fine(t, own, f)
  BY <1>2, <1>3, <1>5, ClustersAre DEF Fine, Within
<1>7. QED
  BY <1>2, <1>6 DEF f

LEMMA EnterKeeps ==
  ASSUME Counted(links, file), NEW h \in Handles, ~IsOpen(h),
         NEW t, NEW d, NEW own, HandlesOK(t, d, own, file),
         NEW f, Fine(t, own, f), Placed(d, f), Enter(h, f)
  PROVE  Counted(links', file') /\ HandlesOK(t, d, own, file')
<1>1. file' = [file EXCEPT ![h] = f] /\ links' = [links EXCEPT ![f.first].refs = @ + 1]
  BY DEF Enter, Referred
<1>2. f \in FileRec /\ f.first \in Clusters
  BY DEF Fine, Within, FileRec
<1>3. file[h].first = Free
  BY ShutIs
<1>4. /\ file \in [Handles -> FileRec \cup {Closed}]
      /\ \A g \in Handles : file[g] # Closed => Fine(t, own, file[g]) /\ Placed(d, file[g])
  BY DEF HandlesOK
<1>5. file'[h] = f /\ \A g \in Handles \ {h} : file'[g] = file[g]
  BY <1>1, <1>4
<1>6. file' \in [Handles -> FileRec \cup {Closed}]
  BY <1>1, <1>2, <1>4
<1>7. HandlesOK(t, d, own, file')
  BY <1>4, <1>5, <1>6 DEF HandlesOK
<1>8. \A g \in Handles \ {h} : file'[g].first = file[g].first
  BY <1>5
<1>9. file'[h].first = f.first
  BY <1>5
<1>10. Counted([links EXCEPT ![f.first].refs = @ + 1], file')
  BY <1>2, <1>3, <1>8, <1>9, CountEnter
<1>11. QED
  BY <1>1, <1>7, <1>10

LEMMA OpenOldInv ==
  ASSUME FatInv, NEW h \in Handles, NEW n \in Names, OpenOld(h, n)
  PROVE  FatInv'
<1>1. PICK own, rank : Known(own, rank)
  BY InvKnows
<1> DEFINE k == Fetch(n)
           f == Opened(dir[k].first, dir[k].length, k)
<1>2. ~IsOpen(h) /\ Found(n) # {} /\ Enter(h, f) /\ fat' = fat /\ dir' = dir
  BY DEF OpenOld
<1>3. /\ k \in Listed(dir) /\ k \in Nat /\ dir[k].first \in Clusters
      /\ dir[k].length \in 0..MaxLength /\ own[dir[k].first] = dir[k].first
  BY <1>1, <1>2, FetchIs
<1> HIDE DEF k
<1>4. Fine(fat, own, f) /\ f.first = dir[k].first /\ f.entry = k
  BY <1>1, <1>3, OpenedFine DEF Known
<1> HIDE DEF f
<1>5. Placed(dir, f)
  BY <1>3, <1>4 DEF Placed
<1>6. Counted(links', file') /\ HandlesOK(fat, dir, own, file')
  BY <1>1, <1>2, <1>4, <1>5, EnterKeeps DEF Known
<1>7. QED
  BY <1>1, <1>2, <1>6, KnownNext DEF Known

LEMMA Unchanged ==
  ASSUME NEW own, NEW rank, Known(own, rank), UNCHANGED <<fat, dir>>,
         Counted(links', file'), HandlesOK(fat, dir, own, file')
  PROVE  FatInv'
BY KnownNext DEF Known

LEMMA ForgetKeeps ==
  ASSUME Forget
  PROVE  Counted(links', file') /\ \A t, d, own : HandlesOK(t, d, own, file')
<1>1. file' = [h \in Handles |-> Closed] /\ links' = [c \in Clusters |-> NoReference]
  BY DEF Forget
<1>2. Counted(links', file')
  BY <1>1, CountForget
<1>3. QED
  BY <1>1, <1>2 DEF HandlesOK

LEMMA RestartInv ==
  ASSUME FatInv, Restart
  PROVE  FatInv'
<1>1. PICK own, rank : Known(own, rank)
  BY InvKnows
<1>2. QED
  BY <1>1, ForgetKeeps, Unchanged DEF Restart

(* A cluster is claimed; the directory's chain is as it was.               *)
EmptyClaimed(c, t) == HasEmpty(fat) /\ c = FirstEmpty(fat) /\ t = [fat EXCEPT ![c] = EOF]

LEMMA ClaimKnown ==
  ASSUME NEW own, NEW rank, Known(own, rank),
         NEW c, NEW t, EmptyClaimed(c, t), NEW o \in {c, Free}
  PROVE  /\ c \in Clusters /\ fat[c] = Free /\ c # Root
         /\ \A i \in Listed(dir) : dir[i].first # c
         /\ MembersOf(t, Root) = MembersOf(fat, Root)
         /\ \A x \in MembersOf(fat, Root) : t[x] = fat[x]
         /\ \E own2 : /\ Owned(t, dir, own2, rank) /\ HandlesOK(t, dir, own2, file)
                      /\ own2[c] = o /\ \A fl : HandlesOK(fat, dir, own, fl) =>
                                                 HandlesOK(t, dir, own2, fl)
<1>1. c \in Clusters /\ fat[c] = Free /\ c # Root
  BY EmptyIs DEF Known, EmptyClaimed
<1>2. /\ fat \in Table /\ Sound(fat, own, rank) /\ own[Root] = Root /\ Root \in Clusters
      /\ fat[Root] # Free /\ Owned(fat, dir, own, rank) /\ dir \in Seq(Slots)
      /\ HandlesOK(fat, dir, own, file)
  BY DEF Known
<1> DEFINE own2 == [own EXCEPT ![c] = o]
<1>3. /\ t \in Table /\ Sound(t, own2, rank) /\ Later(fat, own, t, own2)
      /\ own2[c] = o
      /\ \A x \in Clusters : fat[x] # Free => t[x] = fat[x] /\ Same(fat, t, x)
  <2>1. Claims(fat, own, c, o, t, own2)
    BY DEF Claims, EmptyClaimed
  <2> HIDE DEF own2
  <2>2. QED
    BY <1>1, <1>2, <2>1, ClaimLater
<1> HIDE DEF own2
<1>4. ASSUME NEW i \in Listed(dir) PROVE dir[i].first # c
  <2>1. dir[i].first \in Clusters /\ own[dir[i].first] = dir[i].first
    BY <1>2, ListedAre DEF Owned
  <2>2. fat[dir[i].first] # Free
    BY <1>2, <2>1 DEF Sound
  <2>3. QED
    BY <1>1, <2>2
<1>5. MembersOf(t, Root) = MembersOf(fat, Root)
  BY <1>2, <1>3, SameMembers
<1>6. ASSUME NEW x \in MembersOf(fat, Root) PROVE t[x] = fat[x]
  <2>1. own[x] = Root /\ x \in Clusters
    BY <1>2, HeadChain
  <2>2. fat[x] # Free
    BY <1>2, <2>1 DEF Sound
  <2>3. QED
    BY <1>3, <2>1, <2>2
<1>7. Owned(t, dir, own2, rank)
      /\ \A fl : HandlesOK(fat, dir, own, fl) => HandlesOK(t, dir, own2, fl)
  BY <1>2, <1>3, LaterOwned
<1>8. QED
  BY <1>1, <1>2, <1>3, <1>4, <1>5, <1>6, <1>7

LEMMA FailInv ==
  ASSUME FatInv, NEW n \in Names, FailInCreate(n)
  PROVE  FatInv'
<1>1. PICK own, rank : Known(own, rank)
  BY InvKnows
<1> DEFINE c == FirstEmpty(fat)
           t == [fat EXCEPT ![c] = EOF]
<1>2. HasEmpty(fat) /\ fat' = t /\ dir' = dir /\ Forget
  BY DEF FailInCreate
<1>3. /\ MembersOf(t, Root) = MembersOf(fat, Root)
      /\ \E own2 : Owned(t, dir, own2, rank)
  <2>1. EmptyClaimed(c, t)
    BY <1>2 DEF EmptyClaimed
  <2> HIDE DEF c, t
  <2>2. QED
    BY <1>1, <2>1, ClaimKnown
<1> HIDE DEF t, c
<1>4. PICK own2 : Owned(t, dir, own2, rank)
  BY <1>3
<1>5. Counted(links', file') /\ HandlesOK(t, dir, own2, file')
  BY <1>2, ForgetKeeps
<1>6. QED
  BY <1>1, <1>2, <1>3, <1>4, <1>5, KnownNext DEF Known

LEMMA CreateInv ==
  ASSUME FatInv, NEW h \in Handles, NEW n \in Names, Create(h, n)
  PROVE  FatInv'
<1>1. PICK own, rank : Known(own, rank)
  BY InvKnows
<1> DEFINE c == FirstEmpty(fat)
           t == [fat EXCEPT ![c] = EOF]
           e == Entry(n, c, 0)
           f == Opened(c, 0, Place)
<1>2. ~IsOpen(h) /\ HasEmpty(fat) /\ Allocate(t, e, 0) /\ Enter(h, f)
  BY DEF Create
<1>3. /\ c \in Clusters /\ fat[c] = Free /\ c # Root
      /\ \A i \in Listed(dir) : dir[i].first # c
      /\ MembersOf(t, Root) = MembersOf(fat, Root)
      /\ \A x \in MembersOf(fat, Root) : t[x] = fat[x]
      /\ \E own2 : /\ Owned(t, dir, own2, rank) /\ HandlesOK(t, dir, own2, file)
                   /\ own2[c] = c
  <2>1. EmptyClaimed(c, t)
    BY <1>2 DEF EmptyClaimed
  <2> HIDE DEF c, t
  <2>2. QED
    BY <1>1, <2>1, ClaimKnown
<1> HIDE DEF c, t
<1>4. PICK own2 : /\ Owned(t, dir, own2, rank) /\ HandlesOK(t, dir, own2, file)
                  /\ own2[c] = c
  BY <1>3
<1>5. e \in EntryRec /\ e.first = c
  <2>1. 0 \in 0..MaxLength
    BY FatAssumption
  <2>2. QED
    BY <1>3, <2>1 DEF Entry, EntryRec
<1> HIDE DEF e
<1>6. /\ DirOK(dir) /\ dir \in Seq(Slots) /\ fat \in Table
      /\ Len(dir) = Units * Cardinality(MembersOf(t, Root)) /\ Counted(links, file)
  BY <1>1, <1>3 DEF Known
<1>7. 0 # Place /\ Place \in Nat /\ 0 \notin Listed(dir)
  BY <1>6, PlaceIs DEF Listed
<1>8. /\ Entered(e, 0)
      /\ Len(dir') = Units * Cardinality(MembersOf(fat', Root))
      /\ \E own3, rank3 : Owned(fat', dir', own3, rank3) /\ Later(t, own2, fat', own3)
  BY <1>2, <1>3, <1>4, <1>5, <1>6, <1>7, AllocateDoes
<1>9. PICK own3, rank3 : Owned(fat', dir', own3, rank3) /\ Later(t, own2, fat', own3)
  BY <1>8
<1>10. DirOK(dir') /\ Listed(dir') = Listed(dir) \cup {Place} /\ dir'[Place] = e
       /\ \A i \in Listed(dir) : dir'[i] = dir[i]
  BY <1>7, <1>8 DEF Entered
<1>11. HandlesOK(fat', dir', own3, file)
  BY <1>4, <1>9, <1>10 DEF HandlesOK, Later, Placed
<1>12. Fine(fat', own3, f) /\ f.first = c /\ f.entry = Place
  <2>1. fat' \in Table /\ Sound(fat', own3, rank3)
    BY <1>9 DEF Owned
  <2>2. own3[c] = c
    BY <1>3, <1>4, <1>9 DEF Later
  <2>3. 0 \in 0..MaxLength
    BY FatAssumption
  <2>4. QED
    BY <1>3, <1>7, <2>1, <2>2, <2>3, OpenedFine
<1> HIDE DEF f
<1>13. Placed(dir', f)
  BY <1>5, <1>10, <1>12 DEF Placed
<1>14. Counted(links', file') /\ HandlesOK(fat', dir', own3, file')
  BY <1>2, <1>6, <1>11, <1>12, <1>13, EnterKeeps
<1>15. QED
  BY <1>8, <1>9, <1>10, <1>14, KnownNext

(* A handle's cursor moves.                                                *)
LEMMA CursorMoves ==
  ASSUME NEW t, NEW d, NEW own, HandlesOK(t, d, own, file), NEW h \in Handles,
         NEW f, Fine(t, own, f), SameFile(file[h], f), Placed(d, file[h]),
         Counted(links, file), file' = [file EXCEPT ![h] = f], links' = links
  PROVE  HandlesOK(t, d, own, file') /\ Counted(links', file')
<1>1. /\ file \in [Handles -> FileRec \cup {Closed}]
      /\ \A g \in Handles : file[g] # Closed => Fine(t, own, file[g]) /\ Placed(d, file[g])
  BY DEF HandlesOK
<1>2. f \in FileRec /\ Placed(d, f)
  BY DEF Fine, Within, SameFile, Placed
<1>3. file'[h] = f /\ \A g \in Handles \ {h} : file'[g] = file[g]
  BY <1>1
<1>4. file' \in [Handles -> FileRec \cup {Closed}]
  BY <1>1, <1>2
<1>5. HandlesOK(t, d, own, file')
  BY <1>1, <1>2, <1>3, <1>4 DEF HandlesOK
<1>6. \A g \in Handles : file'[g].first = file[g].first
  BY <1>3 DEF SameFile
<1>7. Counted(links, file')
  BY ONLY <1>6, CountSame, Counted(links, file)
<1>8. QED
  BY <1>5, <1>7

LEMMA SeekInv ==
  ASSUME FatInv, NEW h \in Handles, NEW p \in 0..MaxLength, Seek(h, p)
  PROVE  FatInv'
<1>1. PICK own, rank : Known(own, rank)
  BY InvKnows
<1> DEFINE f == file[h]
           g == IF p = 0 THEN Reset(f)
                ELSE IF p > f.pos THEN Forward(f, p - f.pos) ELSE Backward(f, f.pos - p)
<1>2. IsOpen(h) /\ UNCHANGED <<fat, dir>> /\ links' = links
      /\ file' = [file EXCEPT ![h] = g]
  BY DEF Seek
<1>3. Fine(fat, own, f) /\ Placed(dir, f) /\ p \in Nat
  BY <1>1, <1>2, HandleIs, FatAssumption
<1>4. Fine(fat, own, g) /\ SameFile(f, g)
  BY <1>1, <1>3, SeekFine DEF Known
<1> HIDE DEF g
<1>5. HandlesOK(fat, dir, own, file') /\ Counted(links', file')
  BY <1>1, <1>2, <1>3, <1>4, CursorMoves DEF Known
<1>6. QED
  BY <1>1, <1>2, <1>5, Unchanged

LEMMA ReadInv ==
  ASSUME FatInv, NEW h \in Handles, Read(h)
  PROVE  FatInv'
<1>1. PICK own, rank : Known(own, rank)
  BY InvKnows
<1> DEFINE f == file[h]
           next == IF f.spos < Units THEN [ok |-> TRUE, f |-> f] ELSE Skip(f, 1)
           g == next.f
<1>2. IsOpen(h) /\ UNCHANGED <<fat, dir>> /\ links' = links
      /\ file' = [file EXCEPT ![h] = Moved(g)] /\ next.ok
  BY DEF Read
<1>3. Fine(fat, own, f) /\ Placed(dir, f) /\ f.spos \in 0..Units
  BY <1>1, <1>2, HandleIs DEF FileRec
<1>4. \/ f.spos < Units /\ g = f
      \/ f.spos = Units /\ Skip(f, 1).ok /\ g = Skip(f, 1).f
  BY <1>2, <1>3, FatAssumption
<1> HIDE DEF g, f
<1>5. Fine(fat, own, g) /\ SameFile(f, g) /\ g.spos < Units
  BY <1>1, <1>3, <1>4, StepFine DEF Known
<1>6. Fine(fat, own, Moved(g)) /\ SameFile(f, Moved(g))
  BY <1>5, MovedFine DEF SameFile
<1>7. HandlesOK(fat, dir, own, file') /\ Counted(links', file')
  BY <1>1, <1>2, <1>3, <1>6, CursorMoves DEF Known, f
<1>8. QED
  BY <1>1, <1>2, <1>7, Unchanged

(* The file that F begins is cut off behind it, or ceases to be.           *)
CutAt(t, own, F, v, u, left) ==
  /\ u = [t EXCEPT ![F] = v]
  /\ left = [x \in Clusters |-> IF own[x] = F /\ (x # F \/ v = Free)
                                THEN Free ELSE own[x]]

LEMMA CutLater ==
  ASSUME NEW t \in Table, NEW own, NEW rank, Sound(t, own, rank),
         NEW F \in Clusters, own[F] = F, NEW v \in {EOF, Free},
         NEW u, NEW left, CutAt(t, own, F, v, u, left)
  PROVE  /\ u \in Table /\ Sound(u, left, rank)
         /\ \A x \in Clusters : own[x] = x /\ x # F => left[x] = x /\ Same(t, u, x)
         /\ \A f : Fine(t, own, f) /\ f.first # F => Fine(u, left, f)
         /\ v = EOF => left[F] = F
         /\ v = EOF => \A f : Fine(t, own, f) /\ f.first = F /\ (f.cur = F \/ f.astray) =>
                                Fine(u, left, f)
<1>1. /\ u \in Table /\ Sound(u, left, rank)
      /\ \A x \in Clusters : t[x] # Free /\ own[x] # F => Same(t, u, x)
  BY Cut DEF CutAt
<1>2. /\ u[F] = v /\ \A x \in Clusters \ {F} : u[x] = t[x]
      /\ \A x \in Clusters : left[x] = IF own[x] = F /\ (x # F \/ v = Free)
                                       THEN Free ELSE own[x]
  BY DEF CutAt, Table
<1>3. ASSUME NEW x \in Clusters, own[x] = x, x # F
      PROVE  left[x] = x /\ Same(t, u, x)
  BY <1>1, <1>2, <1>3 DEF Sound
<1>4. ASSUME NEW f, Fine(t, own, f), f.first # F PROVE Fine(u, left, f)
  <2>1. /\ f.first \in Clusters /\ f.cur \in Clusters /\ own[f.first] = f.first
        /\ t[f.first] # Free /\ t[f.cur] # Free /\ own[f.cur] \in {f.first, Free}
    BY <1>4, FineIs
  <2>2. f.cur # F /\ own[f.cur] # F
    BY <1>4, <2>1, ClustersAre
  <2>3. u[f.cur] # Free /\ left[f.cur] \in {f.first, Free}
    BY <1>2, <2>1, <2>2
  <2>4. Same(t, u, f.first) /\ left[f.first] = f.first
    BY <1>3, <1>4, <2>1
  <2>5. Keeps(t, u, f.first)
    BY <2>4, SameKeeps
  <2>6. QED
    BY ONLY <1>4, <2>3, <2>4, <2>5, StaysFine
<1>5. ASSUME v = EOF PROVE left[F] = F
  BY <1>2, <1>5, ClustersAre
<1>6. ASSUME v = EOF, NEW f, Fine(t, own, f), f.first = F, f.cur = F \/ f.astray
      PROVE  Fine(u, left, f)
  <2>1. /\ f.cur \in Clusters /\ t[f.cur] # Free /\ own[f.cur] \in {F, Free}
        /\ f \in FileRec /\ t[F] # Free
    BY <1>6, FineIs
  <2>2. u[f.cur] # Free /\ left[f.cur] \in {F, Free} /\ left[F] = F
    BY <1>2, <1>5, <1>6, <2>1, ClustersAre
  <2>3. Within(u, left, f)
    BY <1>6, <2>1, <2>2 DEF Within
  <2>4. ASSUME ~f.astray PROVE Spot(u, f, 0)
    <3>1. PICK i \in 0..K : Spot(t, f, i)
      BY <1>6, <2>4 DEF Fine
    <3>2. PathOf(t, F)[0] = F /\ PathOf(u, F)[0] = F
      BY <1>1, PathIs DEF IsPath, Marks
    <3>3. PathOf(t, F)[i] = F /\ f.cur = F
      BY <1>6, <2>4, <3>1 DEF Spot
    <3>4. i = 0
      <4>1. 0 \in 0..K /\ F # EOF
        BY ClustersAre
      <4>2. PathOf(t, F)[i] = PathOf(t, F)[0] => i = 0 \/ PathOf(t, F)[i] = EOF
        BY <2>1, <4>1, ChainEnds
      <4>3. QED
        BY <3>2, <3>3, <4>1, <4>2
    <3>5. QED
      BY <1>6, <3>1, <3>2, <3>3, <3>4 DEF Spot
  <2>5. QED
    BY <2>3, <2>4, ClustersAre DEF Fine
<1>7. QED
  BY <1>1, <1>3, <1>4, <1>5, <1>6

(* The entry at k gets another length, or is unused.                       *)
Resizes(d, k, n, d2) == d2 = [d EXCEPT ![k].length = n]
Unlists(d, k, d2)    == d2 = [d EXCEPT ![k] = Unused]

LEMMA Resized ==
  ASSUME NEW d, DirOK(d), NEW k \in Listed(d), NEW n \in 0..MaxLength,
         NEW d2, Resizes(d, k, n, d2)
  PROVE  /\ DirOK(d2) /\ Listed(d2) = Listed(d) /\ Len(d2) = Len(d)
         /\ \A i \in Listed(d) : d2[i].first = d[i].first
<1>1. d \in Seq(Slots) /\ d[k] \in EntryRec /\ k \in 1..Len(d) /\ d[k].name \in Names
  BY ListedAre DEF DirOK, Listed
<1> DEFINE e == [d[k] EXCEPT !.length = n]
<1>2. e \in EntryRec /\ e.first = d[k].first /\ e.name = d[k].name /\ e \in Slots
  BY <1>1 DEF EntryRec, Slots
<1>3. d2 = [d EXCEPT ![k] = e]
  BY <1>1 DEF Resizes
<1> HIDE DEF e
<1>4. d2 \in Seq(Slots) /\ Len(d2) = Len(d) /\ d2[k] = e
      /\ \A i \in 1..Len(d) : i # k => d2[i] = d[i]
  BY <1>1, <1>2, <1>3
<1>5. Listed(d2) = Listed(d)
  BY <1>1, <1>2, <1>4 DEF Listed
<1>6. \A i \in Listed(d) : d2[i].first = d[i].first
  <2>1. \A i \in Listed(d) : i \in 1..Len(d)
    BY <1>1 DEF Listed
  <2>2. QED
    BY <1>2, <1>4, <2>1
<1>7. DirOK(d2)
  BY ONLY <1>4, <1>5, <1>6, DirOK(d) DEF DirOK
<1>8. QED
  BY <1>4, <1>5, <1>6, <1>7

LEMMA Unlisted ==
  ASSUME NEW d, DirOK(d), NEW k \in Listed(d), NEW d2, Unlists(d, k, d2)
  PROVE  /\ DirOK(d2) /\ Listed(d2) = Listed(d) \ {k} /\ Len(d2) = Len(d)
         /\ \A i \in Listed(d) \ {k} : d2[i] = d[i]
<1>1. d \in Seq(Slots) /\ k \in 1..Len(d)
  BY DEF DirOK, Listed
<1>2. Unused \in Slots /\ Unused.name \notin Names
  BY FatAssumption DEF Slots, Unused
<1>3. d2 \in Seq(Slots) /\ Len(d2) = Len(d) /\ d2[k] = Unused
      /\ \A i \in 1..Len(d) : i # k => d2[i] = d[i]
  BY <1>1, <1>2 DEF Unlists
<1>4. Listed(d2) = Listed(d) \ {k}
  BY <1>1, <1>2, <1>3 DEF Listed
<1>5. \A i \in Listed(d) \ {k} : d2[i] = d[i]
  <2>1. \A i \in Listed(d) : i \in 1..Len(d)
    BY <1>1 DEF Listed
  <2>2. QED
    BY <1>3, <2>1
<1>6. DirOK(d2)
  BY ONLY <1>3, <1>4, <1>5, DirOK(d) DEF DirOK
<1>7. QED
  BY <1>3, <1>4, <1>5, <1>6

LEMMA AstrayFine ==
  ASSUME NEW t, NEW own, NEW f, Fine(t, own, f)
  PROVE  LET g == [f EXCEPT !.astray = TRUE]
         IN  Fine(t, own, g) /\ SameFile(f, g) /\ g.astray /\ g.cur = f.cur
<1> DEFINE g == [f EXCEPT !.astray = TRUE]
<1>1. f \in FileRec
  BY DEF Fine, Within
<1>2. g \in FileRec /\ SameFile(f, g) /\ g.astray = TRUE /\ g.cur = f.cur
  BY <1>1 DEF FileRec, SameFile
<1> HIDE DEF g
<1>3. Fine(t, own, g)
  BY <1>2 DEF Fine, Within, SameFile
<1>4. QED
  BY <1>2, <1>3 DEF g

(* Another directory in which the entries are of the same files.           *)
LEMMA SameEntries ==
  ASSUME NEW t, NEW d, NEW own, NEW rank, NEW d2, Listed(d2) = Listed(d),
         \A i \in Listed(d) : d2[i].first = d[i].first
  PROVE  /\ Owned(t, d, own, rank) => Owned(t, d2, own, rank)
         /\ \A f : Placed(d, f) => Placed(d2, f)
BY DEF Owned, Placed

LEMMA OpenTruncatedInv ==
  ASSUME FatInv, NEW h \in Handles, NEW n \in Names, OpenTruncated(h, n)
  PROVE  FatInv'
<1>1. PICK own, rank : Known(own, rank)
  BY InvKnows
<1> DEFINE k == Fetch(n)
           F == dir[k].first
           f == Opened(F, 0, k)
           left == [x \in Clusters |-> IF own[x] = F /\ (x # F \/ EOF = Free)
                                       THEN Free ELSE own[x]]
           Lost(g) == file[g].first = F /\ file[g].cur # F
<1>2. /\ ~IsOpen(h) /\ Found(n) # {}
      /\ fat' = [[fat EXCEPT ![F] = Free] EXCEPT ![F] = EOF]
      /\ dir' = [dir EXCEPT ![k].length = 0]
      /\ file' = [g \in Handles |-> IF g = h THEN f
                                    ELSE IF IsOpen(g) /\ Lost(g)
                                         THEN [file[g] EXCEPT !.astray = TRUE]
                                    ELSE file[g]]
      /\ links' = [links EXCEPT ![F].refs = @ + 1]
  BY DEF OpenTruncated, Unlink, Referred
<1>3. /\ k \in Listed(dir) /\ k \in Nat /\ F \in Clusters /\ own[F] = F /\ F # Root
  BY <1>1, <1>2, FetchIs
<1> HIDE DEF k
<1>4. CutAt(fat, own, F, EOF, fat', left)
  <2>1. [[fat EXCEPT ![F] = Free] EXCEPT ![F] = EOF] = [fat EXCEPT ![F] = EOF]
    BY <1>1, <1>3 DEF Known, Table
  <2>2. QED
    BY <1>2, <2>1 DEF CutAt
<1> HIDE DEF left, F
<1>5. /\ fat' \in Table /\ Sound(fat', left, rank)
      /\ \A x \in Clusters : own[x] = x /\ x # F => left[x] = x /\ Same(fat, fat', x)
      /\ \A g : Fine(fat, own, g) /\ g.first # F => Fine(fat', left, g)
      /\ left[F] = F
      /\ \A g : Fine(fat, own, g) /\ g.first = F /\ (g.cur = F \/ g.astray) =>
                  Fine(fat', left, g)
  BY <1>1, <1>3, <1>4, CutLater DEF Known
<1>6. 0 \in 0..MaxLength
  BY FatAssumption
<1>7. /\ DirOK(dir') /\ Listed(dir') = Listed(dir) /\ Len(dir') = Len(dir)
      /\ \A i \in Listed(dir) : dir'[i].first = dir[i].first
  <2>1. Resizes(dir, k, 0, dir')
    BY <1>2 DEF Resizes
  <2>2. QED
    BY <1>1, <1>3, <1>6, <2>1, Resized DEF Known
<1>8. Fine(fat', left, f) /\ f.first = F /\ f.entry = k
  BY <1>3, <1>5, <1>6, OpenedFine
<1> HIDE DEF f
<1>9. Owned(fat', dir', left, rank)
  <2>1. Owned(fat', dir, left, rank)
    <3>1. ASSUME NEW i \in Listed(dir) PROVE left[dir[i].first] = dir[i].first
      <4>1. dir[i].first \in Clusters /\ own[dir[i].first] = dir[i].first
        BY <1>1, ListedAre DEF Known, Owned
      <4>2. QED
        BY <1>5, <4>1
    <3>2. QED
      BY <1>1, <1>3, <1>5, <3>1 DEF Known, Owned
  <2>2. QED
    BY <1>7, <2>1, SameEntries
<1>10. Len(dir') = Units * Cardinality(MembersOf(fat', Root))
  <2>1. MembersOf(fat', Root) = MembersOf(fat, Root)
    BY <1>1, <1>3, <1>5, SameMembers DEF Known
  <2>2. QED
    BY <1>1, <1>7, <2>1 DEF Known
<1>11. \A g : Placed(dir, g) => Placed(dir', g)
  BY <1>7, SameEntries
<1>12. ASSUME NEW g \in Handles
       PROVE  /\ file'[g] \in FileRec \cup {Closed}
              /\ file'[g] # Closed => Fine(fat', left, file'[g]) /\ Placed(dir', file'[g])
              /\ g # h => file'[g].first = file[g].first
  <2>1. CASE g = h
    <3>1. file'[g] = f
      BY <1>2, <2>1
    <3>2. Placed(dir, f)
      BY <1>3, <1>8 DEF Placed, F
    <3>3. QED
      BY <1>8, <1>11, <2>1, <3>1, <3>2 DEF Fine, Within
  <2>2. CASE g # h /\ ~IsOpen(g)
    BY <1>2, <2>2 DEF IsOpen
  <2>3. CASE g # h /\ IsOpen(g) /\ Lost(g)
    <3> DEFINE a == [file[g] EXCEPT !.astray = TRUE]
    <3>1. file'[g] = a
      BY <1>2, <2>3
    <3>2. Fine(fat, own, file[g]) /\ Placed(dir, file[g])
      BY <1>1, <2>3, HandleIs
    <3>3. Fine(fat, own, a) /\ SameFile(file[g], a) /\ a.astray
      BY <3>2, AstrayFine
    <3> HIDE DEF a
    <3>4. Fine(fat', left, a) /\ Placed(dir, a)
      BY <1>5, <2>3, <3>2, <3>3 DEF SameFile, Placed
    <3>5. QED
      BY <1>11, <3>1, <3>3, <3>4 DEF SameFile, Fine, Within
  <2>4. CASE g # h /\ IsOpen(g) /\ ~Lost(g)
    <3>1. file'[g] = file[g]
      BY <1>2, <2>4
    <3>2. Fine(fat, own, file[g]) /\ Placed(dir, file[g])
      BY <1>1, <2>4, HandleIs
    <3>3. Fine(fat', left, file[g])
      BY <1>5, <2>4, <3>2
    <3>4. QED
      BY <1>11, <3>1, <3>2, <3>3 DEF Fine, Within
  <2>5. QED
    BY <2>1, <2>2, <2>3, <2>4
<1>13. DOMAIN file' = Handles /\ file' = [g \in Handles |-> file'[g]]
  BY <1>2
<1>14. HandlesOK(fat', dir', left, file')
  BY <1>12, <1>13 DEF HandlesOK
<1>15. file[h].first = Free /\ file'[h].first = F
  <2>1. file'[h] = f
    BY <1>2
  <2>2. QED
    BY <1>2, <1>8, <2>1, ShutIs
<1>16. Counted([links EXCEPT ![F].refs = @ + 1], file')
  <2>1. \A g \in Handles \ {h} : file'[g].first = file[g].first
    BY <1>12
  <2>2. Counted(links, file)
    BY <1>1 DEF Known
  <2>3. QED
    BY <1>3, <1>15, <2>1, <2>2, CountEnter
<1>17. Counted(links', file')
  BY <1>2, <1>16
<1>18. QED
  BY <1>7, <1>9, <1>10, <1>14, <1>17, KnownNext

(* The handles fl, none of which is on the file, after it was removed.     *)
LEMMA RemoveKeeps ==
  ASSUME NEW own, NEW rank, Known(own, rank), NEW f, f.entry \in Listed(dir),
         dir[f.entry].first = f.first, ActualRemove(f),
         NEW fl, HandlesOK(fat, dir, own, fl), \A g \in Handles : fl[g].first # f.first
  PROVE  /\ DirOK(dir') /\ Len(dir') = Units * Cardinality(MembersOf(fat', Root))
         /\ \E own2, rank2 : Owned(fat', dir', own2, rank2)
                             /\ HandlesOK(fat', dir', own2, fl)
<1> DEFINE F == f.first
           k == f.entry
           left == [x \in Clusters |-> IF own[x] = F /\ (x # F \/ Free = Free)
                                       THEN Free ELSE own[x]]
<1>1. fat' = [fat EXCEPT ![F] = Free] /\ dir' = [dir EXCEPT ![k] = Unused]
  BY DEF ActualRemove, Unlink
<1>2. k \in Listed(dir) /\ F \in Clusters /\ own[F] = F /\ F # Root /\ dir[k].first = F
  BY ListedAre DEF Known, Owned
<1>3. CutAt(fat, own, F, Free, fat', left)
  BY <1>1 DEF CutAt
<1> HIDE DEF left, F, k
<1>4. /\ fat' \in Table /\ Sound(fat', left, rank)
      /\ \A x \in Clusters : own[x] = x /\ x # F => left[x] = x /\ Same(fat, fat', x)
      /\ \A g : Fine(fat, own, g) /\ g.first # F => Fine(fat', left, g)
  BY <1>2, <1>3, CutLater DEF Known
<1>5. /\ DirOK(dir') /\ Listed(dir') = Listed(dir) \ {k} /\ Len(dir') = Len(dir)
      /\ \A i \in Listed(dir) \ {k} : dir'[i] = dir[i]
  <2>1. Unlists(dir, k, dir')
    BY <1>1 DEF Unlists
  <2>2. QED
    BY <1>2, <2>1, Unlisted DEF Known
<1>6. Owned(fat', dir', left, rank)
  <2>1. ASSUME NEW i \in Listed(dir')
        PROVE  left[dir'[i].first] = dir'[i].first /\ dir'[i].first # Root
    <3>1. i \in Listed(dir) /\ i # k /\ dir'[i] = dir[i]
      BY <1>5
    <3>2. dir[i].first \in Clusters /\ own[dir[i].first] = dir[i].first
          /\ dir[i].first # Root
      BY <3>1, ListedAre DEF Known, Owned
    <3>3. dir[i].first # F
      BY <1>2, <3>1 DEF Known, DirOK
    <3>4. QED
      BY <1>4, <3>1, <3>2, <3>3
  <2>2. left[Root] = Root
    BY <1>2, <1>4 DEF Known
  <2>3. QED
    BY <1>4, <2>1, <2>2 DEF Owned
<1>7. MembersOf(fat', Root) = MembersOf(fat, Root)
  BY <1>2, <1>4, SameMembers DEF Known
<1>8. HandlesOK(fat', dir', left, fl)
  <2>1. ASSUME NEW g \in Handles, fl[g] # Closed
        PROVE  Fine(fat', left, fl[g]) /\ Placed(dir', fl[g])
    <3>1. Fine(fat, own, fl[g]) /\ Placed(dir, fl[g]) /\ fl[g].first # F
      BY <2>1 DEF HandlesOK, F
    <3>2. fl[g].entry # k /\ fl[g].entry \in Listed(dir)
      BY <1>2, <3>1 DEF Placed
    <3>3. QED
      BY <1>4, <1>5, <3>1, <3>2 DEF Placed
  <2>2. QED
    BY <2>1 DEF HandlesOK
<1>9. QED
  BY <1>5, <1>6, <1>7, <1>8 DEF Known

(* A chain of clusters has one reference less, or the file goes with it.   *)
LEMMA CloseInv ==
  ASSUME FatInv, NEW h \in Handles, Close(h)
  PROVE  FatInv'
<1>1. PICK own, rank : Known(own, rank)
  BY InvKnows
<1> DEFINE f == file[h]
           F == file[h].first
           r == [links[F] EXCEPT !.refs = @ - 1]
<1>2. IsOpen(h) /\ Leave(f, r) /\ file' = [file EXCEPT ![h] = Closed]
  BY DEF Close
<1>3. /\ F \in Clusters /\ f.entry \in Listed(dir) /\ dir[f.entry].first = F
  BY <1>1, <1>2, HandleIs DEF Placed
<1>4. /\ Counted(links, file) /\ links \in [Clusters -> [refs : Nat, remove : BOOLEAN]]
      /\ HandlesOK(fat, dir, own, file) /\ file \in [Handles -> FileRec \cup {Closed}]
  BY <1>1 DEF Known, HandlesOK, Counted
<1>5. /\ file'[h] = Closed /\ Closed.first = Free
      /\ \A g \in Handles \ {h} : file'[g] = file[g]
      /\ file' \in [Handles -> FileRec \cup {Closed}]
  BY <1>2, <1>4 DEF Closed
<1>6. HandlesOK(fat, dir, own, file')
  <2>1. \A g \in Handles : file[g] # Closed => Fine(fat, own, file[g]) /\ Placed(dir, file[g])
    BY <1>4 DEF HandlesOK
  <2>2. ASSUME NEW g \in Handles, file'[g] # Closed
        PROVE  Fine(fat, own, file'[g]) /\ Placed(dir, file'[g])
    <3>1. file'[g] = file[g]
      BY <1>5, <2>2
    <3>2. QED
      BY <2>1, <2>2, <3>1
  <2>3. QED
    BY <1>5, <2>2 DEF HandlesOK
<1>7. /\ links[F].refs - 1 \in Nat /\ links[F].refs - 1 = Cardinality(Users(file', F))
      /\ \A d \in Clusters \ {F} : Users(file', d) = Users(file, d)
  <2>1. file'[h].first = Free /\ \A g \in Handles \ {h} : file'[g].first = file[g].first
    BY <1>5
  <2>2. QED
    BY ONLY <1>3, <1>4, <2>1, CountLeave, h \in Handles
<1>8. /\ links[F] \in [refs : Nat, remove : BOOLEAN]
      /\ r \in [refs : Nat, remove : BOOLEAN] /\ r.refs = links[F].refs - 1
      /\ r.remove = links[F].remove
  BY <1>3, <1>4, <1>7
<1>9. \A d \in Clusters \ {F} : /\ links[d].refs = Cardinality(Users(file', d))
                                /\ links[d].remove => links[d].refs > 0
  BY <1>4, <1>7, UsersAre
<1> HIDE DEF r
<1>10. CASE r.refs = 0 /\ r.remove
  <2>1. ActualRemove(f)
    BY <1>2, <1>10 DEF Leave
  <2>2. Users(file', F) = {}
    <3>1. Users(file', F) \in SUBSET Handles
      BY DEF Users
    <3>2. IsFiniteSet(Users(file', F))
      BY <3>1, FatAssumption, FS_Subset
    <3>3. Cardinality(Users(file', F)) = 0
      BY <1>7, <1>8, <1>10
    <3>4. QED
      BY <3>2, <3>3, FS_EmptySet
  <2>3. \A g \in Handles : file'[g].first # F
    BY <2>2 DEF Users
  <2>4. /\ DirOK(dir') /\ Len(dir') = Units * Cardinality(MembersOf(fat', Root))
        /\ \E own2, rank2 : Owned(fat', dir', own2, rank2)
                            /\ HandlesOK(fat', dir', own2, file')
    BY <1>1, <1>3, <1>6, <2>1, <2>3, RemoveKeeps
  <2>5. links' = [links EXCEPT ![F] = NoReference]
    BY <2>1 DEF ActualRemove
  <2>6. Counted(links', file')
    <3>1. /\ links' \in [Clusters -> [refs : Nat, remove : BOOLEAN]]
          /\ links'[F].refs = 0 /\ links'[F].remove = FALSE
          /\ \A d \in Clusters \ {F} : links'[d] = links[d]
      BY <1>3, <1>4, <2>5 DEF NoReference
    <3>2. Cardinality(Users(file', F)) = 0
      BY <2>2, FS_EmptySet
    <3>3. \A d \in Clusters : /\ links'[d].refs = Cardinality(Users(file', d))
                              /\ links'[d].remove => links'[d].refs > 0
      BY <1>9, <3>1, <3>2
    <3>4. QED
      BY <3>1, <3>3 DEF Counted, Users
  <2>7. QED
    BY <2>4, <2>6, KnownNext
<1>11. CASE ~(r.refs = 0 /\ r.remove)
  <2>1. links' = [links EXCEPT ![F] = r] /\ UNCHANGED <<fat, dir>>
    BY <1>2, <1>11 DEF Leave
  <2>2. Counted(links', file')
    <3>1. /\ links' \in [Clusters -> [refs : Nat, remove : BOOLEAN]]
          /\ links'[F] = r
          /\ \A d \in Clusters \ {F} : links'[d] = links[d]
      BY <1>3, <1>4, <1>8, <2>1
    <3>2. r.remove => r.refs > 0
      BY <1>7, <1>8, <1>11
    <3>3. \A d \in Clusters : /\ links'[d].refs = Cardinality(Users(file', d))
                              /\ links'[d].remove => links'[d].refs > 0
      BY <1>7, <1>8, <1>9, <3>1, <3>2
    <3>4. QED
      BY <3>1, <3>3 DEF Counted, Users
  <2>3. QED
    BY <1>1, <1>6, <2>1, <2>2, Unchanged
<1>12. QED
  BY <1>10, <1>11

LEMMA FileRemoveInv ==
  ASSUME FatInv, NEW n \in Names, FileRemove(n)
  PROVE  FatInv'
<1>1. PICK own, rank : Known(own, rank)
  BY InvKnows
<1> DEFINE k == Fetch(n)
           F == dir[k].first
           f == Opened(F, 0, k)
           r == [links[F] EXCEPT !.remove = TRUE]
<1>2. Found(n) # {} /\ file' = file
  BY DEF FileRemove
<1>3. F \in Clusters /\ k \in Listed(dir)
  BY <1>1, <1>2, FetchIs
<1>4. f.first = F /\ f.entry = k
  BY DEF Opened
<1>5. Leave(f, r)
  BY <1>4 DEF FileRemove
<1>6. /\ Counted(links, file) /\ links \in [Clusters -> [refs : Nat, remove : BOOLEAN]]
      /\ HandlesOK(fat, dir, own, file)
  BY <1>1 DEF Known, Counted
<1> HIDE DEF f, k
<1>7. /\ r \in [refs : Nat, remove : BOOLEAN] /\ r.refs = links[F].refs /\ r.remove = TRUE
      /\ links[F].refs = Cardinality(Users(file, F)) /\ links[F].refs \in Nat
      /\ links[F].refs = 0 => \A g \in Handles : file[g].first # F
  <2>1. links[F] \in [refs : Nat, remove : BOOLEAN]
    BY <1>3, <1>6
  <2>2. r \in [refs : Nat, remove : BOOLEAN] /\ r.refs = links[F].refs /\ r.remove = TRUE
    BY <2>1
  <2>3. QED
    BY <1>3, <1>6, <2>2, UsersAre
<1>8. \A d \in Clusters : /\ links[d].refs = Cardinality(Users(file, d))
                          /\ links[d].remove => links[d].refs > 0
  BY <1>6, UsersAre
<1> HIDE DEF r
<1>9. CASE r.refs = 0
  <2>1. ActualRemove(f)
    BY <1>5, <1>7, <1>9 DEF Leave
  <2>2. /\ DirOK(dir') /\ Len(dir') = Units * Cardinality(MembersOf(fat', Root))
        /\ \E own2, rank2 : Owned(fat', dir', own2, rank2)
                            /\ HandlesOK(fat', dir', own2, file)
    <3>1. \A g \in Handles : file[g].first # f.first
      BY <1>4, <1>7, <1>9
    <3>2. f.entry \in Listed(dir) /\ dir[f.entry].first = f.first
      BY <1>3, <1>4
    <3>3. QED
      BY <1>1, <1>6, <2>1, <3>1, <3>2, RemoveKeeps
  <2>3. links' = [links EXCEPT ![F] = NoReference]
    BY <1>4, <2>1 DEF ActualRemove
  <2>4. Counted(links', file')
    <3>1. /\ links' \in [Clusters -> [refs : Nat, remove : BOOLEAN]]
          /\ links'[F].refs = 0 /\ links'[F].remove = FALSE
          /\ \A d \in Clusters \ {F} : links'[d] = links[d]
      BY <1>3, <1>6, <2>3 DEF NoReference
    <3>2. \A d \in Clusters : /\ links'[d].refs = Cardinality(Users(file, d))
                              /\ links'[d].remove => links'[d].refs > 0
      BY <1>7, <1>8, <1>9, <3>1
    <3>3. QED
      BY <1>2, <3>1, <3>2 DEF Counted, Users
  <2>5. QED
    BY <1>2, <2>2, <2>4, KnownNext
<1>10. CASE r.refs # 0
  <2>1. links' = [links EXCEPT ![F] = r] /\ UNCHANGED <<fat, dir>>
    BY <1>4, <1>5, <1>10 DEF Leave
  <2>2. Counted(links', file')
    <3>1. /\ links' \in [Clusters -> [refs : Nat, remove : BOOLEAN]]
          /\ links'[F] = r
          /\ \A d \in Clusters \ {F} : links'[d] = links[d]
      BY <1>3, <1>6, <1>7, <2>1
    <3>2. \A d \in Clusters : /\ links'[d].refs = Cardinality(Users(file, d))
                              /\ links'[d].remove => links'[d].refs > 0
      BY <1>7, <1>8, <1>10, <3>1
    <3>3. QED
      BY <1>2, <3>1, <3>2 DEF Counted, Users
  <2>3. QED
    BY <1>1, <1>2, <1>6, <2>1, <2>2, Unchanged
<1>11. QED
  BY <1>9, <1>10

(* A write that has found its cluster, in the table t.                     *)
LEMMA DoneKeeps ==
  ASSUME NEW own, NEW rank, Known(own, rank), NEW h \in Handles, IsOpen(h),
         file[h].length < MaxLength,
         NEW own2, NEW rank2, Owned(fat', dir, own2, rank2), HandlesOK(fat', dir, own2, file),
         MembersOf(fat', Root) = MembersOf(fat, Root),
         NEW g, Fine(fat', own2, g), SameFile(file[h], g), g.spos < Units,
         g.length = file[h].length, links' = links,
         file' = [file EXCEPT ![h] = [Moved(g) EXCEPT !.length = @ + 1]],
         dir' = [dir EXCEPT ![file[h].entry] =
                   Lengthened(@, [Moved(g) EXCEPT !.length = @ + 1].length)]
  PROVE  FatInv'
<1> DEFINE k == file[h].entry
           w == [Moved(g) EXCEPT !.length = @ + 1]
<1>1. k \in Listed(dir) /\ Placed(dir, file[h]) /\ file[h].first \in Clusters
  BY HandleIs
<1>2. Fine(fat', own2, Moved(g)) /\ SameFile(g, Moved(g)) /\ Moved(g).length < MaxLength
  BY MovedFine
<1>3. Fine(fat', own2, w) /\ SameFile(Moved(g), w) /\ w.length \in 0..MaxLength
  BY <1>2, LengthFine
<1>4. file' = [file EXCEPT ![h] = w] /\ dir' = [dir EXCEPT ![k] = Lengthened(@, w.length)]
  OBVIOUS
<1> HIDE DEF w, k
<1>5. SameFile(file[h], w)
  BY <1>2, <1>3 DEF SameFile
<1>6. dir[k].name \in Names /\ k \in DOMAIN dir
  BY <1>1, ListedAre DEF Known
<1>7. Resizes(dir, k, w.length, dir')
  BY <1>4, <1>6 DEF Resizes, Lengthened
<1>8. DirOK(dir)
  BY DEF Known
<1>9. /\ DirOK(dir') /\ Listed(dir') = Listed(dir) /\ Len(dir') = Len(dir)
      /\ \A i \in Listed(dir) : dir'[i].first = dir[i].first
  BY ONLY <1>1, <1>3, <1>7, <1>8, Resized
<1>10. /\ Owned(fat', dir', own2, rank2)
       /\ \A f : Placed(dir, f) => Placed(dir', f)
  BY ONLY <1>9, SameEntries, Owned(fat', dir, own2, rank2)
<1>11. HandlesOK(fat', dir, own2, file') /\ Counted(links', file')
  <2>1. Counted(links, file)
    BY DEF Known
  <2>2. QED
    BY <1>1, <1>3, <1>4, <1>5, <2>1, CursorMoves
<1>12. HandlesOK(fat', dir', own2, file')
  BY ONLY <1>10, <1>11 DEF HandlesOK
<1>13. Len(dir') = Units * Cardinality(MembersOf(fat', Root))
  BY <1>9 DEF Known
<1>14. QED
  BY ONLY <1>9, <1>10, <1>11, <1>12, <1>13, KnownNext

(* The chain of the file gets a cluster, and the cursor is in it.          *)
GoesOn(t, own, rank, f, c, u, own2, rank2, g) ==
  /\ t \in Table /\ Sound(t, own, rank) /\ Fine(t, own, f)
  /\ f.spos = Units /\ t[f.cur] = EOF /\ c \in Clusters /\ t[c] = Free
  /\ Grows(t, u, c, f.cur) /\ Sound(u, own2, rank2) /\ Later(t, own, u, own2)
  /\ own2[c] = own[f.cur] /\ g = [f EXCEPT !.cur = c, !.spos = 0]

LEMMA GrownFine ==
  ASSUME NEW t, NEW own, NEW rank, NEW f, NEW c, NEW u, NEW own2, NEW rank2, NEW g,
         GoesOn(t, own, rank, f, c, u, own2, rank2, g)
  PROVE  Fine(u, own2, g) /\ SameFile(f, g) /\ g.spos = 0 /\ g.length = f.length
<1>0. /\ t \in Table /\ Sound(t, own, rank) /\ Fine(t, own, f)
      /\ f.spos = Units /\ t[f.cur] = EOF /\ c \in Clusters /\ t[c] = Free
      /\ Grows(t, u, c, f.cur) /\ Sound(u, own2, rank2) /\ Later(t, own, u, own2)
      /\ own2[c] = own[f.cur]
  BY DEF GoesOn
<1>1. /\ f \in FileRec /\ f.first \in Clusters /\ f.cur \in Clusters
      /\ own[f.first] = f.first /\ t[f.first] # Free /\ own[f.cur] \in {f.first, Free}
      /\ f.pos \in Nat
  BY <1>0, FineIs DEF FileRec
<1>2. 0 \in 0..Units
  BY FatAssumption
<1>3. /\ g \in FileRec /\ SameFile(f, g) /\ g.cur = c /\ g.spos = 0 /\ g.pos = f.pos
      /\ g.length = f.length /\ g.astray = f.astray
  BY <1>1, <1>2 DEF FileRec, SameFile, GoesOn
<1>4. u[c] = EOF /\ own2[f.first] = f.first
  BY <1>0, <1>1 DEF Grows, Later
<1>5. Within(u, own2, g)
  BY <1>0, <1>1, <1>3, <1>4, ClustersAre DEF Within, SameFile
<1>6. ASSUME NEW i \in 0..K, Spot(t, f, i)
      PROVE  i + 1 \in 0..K /\ Spot(u, g, i + 1)
  <2>1. PathOf(t, f.first)[i] = f.cur /\ f.pos = i * Units + Units
    BY <1>0, <1>6 DEF Spot
  <2>2. i + 1 \in 0..K /\ PathOf(u, f.first)[i + 1] = c
    BY <1>0, <1>1, <2>1, Extended
  <2>3. (i + 1) * Units = i * Units + Units /\ i * Units \in Int
    <3>1. i \in Int /\ 1 \in Int /\ Units \in Int
      BY FatAssumption, ClustersAre
    <3>2. QED
      BY <3>1, Times
  <2>4. g.pos = (i + 1) * Units + g.spos
    BY <1>1, <1>3, <2>1, <2>3, FatAssumption
  <2>5. QED
    BY <1>3, <2>2, <2>4 DEF Spot, SameFile
<1>7. Fine(u, own2, g)
  BY <1>0, <1>3, <1>5, <1>6 DEF Fine
<1>8. QED
  BY <1>3, <1>7

LEMMA WriteInv ==
  ASSUME FatInv, NEW h \in Handles, Write(h)
  PROVE  FatInv'
<1>1. PICK own, rank : Known(own, rank)
  BY InvKnows
<1> DEFINE f == file[h]
           Wrote(g) == /\ file' = [file EXCEPT ![h] = [Moved(g) EXCEPT !.length = @ + 1]]
                       /\ dir' = [dir EXCEPT ![f.entry] =
                                    Lengthened(@, [Moved(g) EXCEPT !.length = @ + 1].length)]
           c == FirstEmpty(fat)
           d == f.cur
           u == [fat EXCEPT ![d] = c, ![c] = EOF]
           grown == [f EXCEPT !.cur = c, !.spos = 0]
<1>2. IsOpen(h) /\ f.length < MaxLength /\ links' = links
  BY DEF Write
<1>3. \/ f.spos < Units /\ Wrote(f) /\ fat' = fat
      \/ f.spos = Units /\ Skip(f, 1).ok /\ Wrote(Skip(f, 1).f) /\ fat' = fat
      \/ /\ f.spos = Units /\ ~Skip(f, 1).ok /\ HasEmpty(fat)
         /\ fat' = u /\ Wrote(grown)
  BY DEF Write
<1>4. /\ Fine(fat, own, f) /\ f.first # Root /\ f.first \in Clusters
  BY <1>1, <1>2, HandleIs
<1>5. /\ fat \in Table /\ Sound(fat, own, rank) /\ own[Root] = Root /\ Root \in Clusters
      /\ fat[Root] # Free /\ Owned(fat, dir, own, rank) /\ dir \in Seq(Slots)
      /\ HandlesOK(fat, dir, own, file)
  BY <1>1 DEF Known
<1>6. ASSUME NEW g, Wrote(g), fat' = fat,
             \/ f.spos < Units /\ g = f
             \/ f.spos = Units /\ Skip(f, 1).ok /\ g = Skip(f, 1).f
      PROVE  FatInv'
  <2>1. Fine(fat, own, g) /\ SameFile(f, g) /\ g.spos < Units /\ g.length = f.length
    BY <1>4, <1>5, <1>6, StepFine
  <2>2. QED
    BY <1>1, <1>2, <1>5, <1>6, <2>1, DoneKeeps
<1>7. ASSUME f.spos = Units, ~Skip(f, 1).ok, HasEmpty(fat), fat' = u, Wrote(grown)
      PROVE  FatInv'
  <2>1. /\ f \in FileRec /\ d \in Clusters /\ fat[d] # Free
        /\ own[d] \in {f.first, Free} /\ Within(fat, own, f)
    BY <1>4, <1>5, FineIs DEF Fine
  <2>2. fat[d] = EOF
    <3> DEFINE w == Skip(f, 1)
    <3>1. 1 \in Nat
      OBVIOUS
    <3>2. PICK m : Walk(fat, f, 1, w, m)
      BY <1>5, <2>1, <3>1, SkipWalks
    <3>3. ~w.ok
      BY <1>7
    <3> HIDE DEF w
    <3>4. m # 1 /\ (m = 0 => w.f = f) /\ m \in 0..1
      BY <2>1, <3>2, <3>3, SkipKeeps DEF Walk
    <3>5. m # 1 => fat[w.f.cur] = EOF
      BY <1>5, <2>1, <3>1, <3>2, WalkStays
    <3>6. QED
      BY <3>4, <3>5
  <2>3. c \in Clusters /\ fat[c] = Free
    BY <1>7, EmptyIs
  <2>4. PICK own2, rank2 :
          Grows(fat, u, c, d) /\ Sound(u, own2, rank2) /\ Later(fat, own, u, own2)
          /\ own2[c] = own[d]
    BY <1>5, <2>1, <2>2, <2>3, GrowLater
  <2>5. fat' = u
    BY <1>7
  <2> HIDE DEF u, c
  <2>6. Fine(u, own2, grown) /\ SameFile(f, grown) /\ grown.spos = 0
        /\ grown.length = f.length
    <3>1. f.spos = Units
      BY <1>7
    <3>2. GoesOn(fat, own, rank, f, c, u, own2, rank2, grown)
      BY ONLY <1>4, <1>5, <2>2, <2>3, <2>4, <3>1 DEF GoesOn
    <3> HIDE DEF grown, f
    <3>3. QED
      BY ONLY <3>2, GrownFine
  <2>7. Owned(u, dir, own2, rank2) /\ HandlesOK(u, dir, own2, file)
    BY <1>5, <2>4, LaterOwned DEF Grows
  <2>8. MembersOf(u, Root) = MembersOf(fat, Root)
    <3>1. d \notin MembersOf(fat, Root)
      BY <1>4, <1>5, <2>1, HeadChain, ClustersAre
    <3>2. Same(fat, u, Root)
      BY <1>5, <2>1, <2>2, <2>3, <2>4, <3>1, Extended
    <3>3. QED
      BY <3>2, SameMembers
  <2>9. Wrote(grown)
    BY <1>7
  <2> HIDE DEF grown, d
  <2>10. 0 < Units
    BY FatAssumption
  <2>11. QED
    BY <1>1, <1>2, <2>5, <2>6, <2>7, <2>8, <2>9, <2>10, DoneKeeps
<1>8. QED
  BY <1>3, <1>6, <1>7

(* Only a file that is not open is renamed, to a name that is not there.   *)
LEMMA FileRenameInv ==
  ASSUME FatInv, ~RenameFreely, NEW n \in Names, NEW new \in Names, FileRename(n, new)
  PROVE  FatInv'
<1>1. PICK own, rank : Known(own, rank)
  BY InvKnows
<1> DEFINE k == Fetch(n)
           F == dir[k].first
           e == [dir[k] EXCEPT !.name = new]
<1>2. Found(n) # {} /\ links[F].refs = 0 /\ Allocate(fat, e, k) /\ UNCHANGED <<file, links>>
  BY DEF FileRename
<1>3. /\ k \in Listed(dir) /\ dir[k] \in EntryRec /\ F \in Clusters /\ own[F] = F /\ F # Root
  BY <1>1, <1>2, FetchIs
<1>4. e \in EntryRec /\ e.first = F
  BY <1>3 DEF EntryRec
<1> HIDE DEF e, k
<1>5. /\ DirOK(dir) /\ dir \in Seq(Slots) /\ fat \in Table /\ Counted(links, file)
      /\ Len(dir) = Units * Cardinality(MembersOf(fat, Root))
      /\ Owned(fat, dir, own, rank) /\ HandlesOK(fat, dir, own, file)
  BY <1>1 DEF Known
<1>6. k # Place
  BY <1>3, <1>5, PlaceIs
<1>7. \A i \in Listed(dir) \ {k} : dir[i].first # e.first
  BY <1>3, <1>4, <1>5 DEF DirOK
<1>8. /\ Entered(e, k)
      /\ Len(dir') = Units * Cardinality(MembersOf(fat', Root))
      /\ \E own2, rank2 : Owned(fat', dir', own2, rank2) /\ Later(fat, own, fat', own2)
  <2>1. own[e.first] = e.first /\ e.first # Root
    BY <1>3, <1>4
  <2>2. MembersOf(fat, Root) = MembersOf(fat, Root)
        /\ \A x \in MembersOf(fat, Root) : fat[x] = fat[x]
    OBVIOUS
  <2>3. QED
    BY <1>2, <1>4, <1>5, <1>6, <1>7, <2>1, <2>2, AllocateDoes
<1>9. PICK own2, rank2 : Owned(fat', dir', own2, rank2) /\ Later(fat, own, fat', own2)
  BY <1>8
<1>10. DirOK(dir') /\ \A i \in Listed(dir) \ {k} : i \in Listed(dir') /\ dir'[i] = dir[i]
  BY <1>8 DEF Entered
<1>11. HandlesOK(fat', dir', own2, file)
  <2>1. \A g \in Handles : file[g].first # F
    BY <1>2, <1>3, <1>5, UsersAre
  <2>2. ASSUME NEW g \in Handles, file[g] # Closed
        PROVE  Fine(fat', own2, file[g]) /\ Placed(dir', file[g])
    <3>1. Fine(fat, own, file[g]) /\ Placed(dir, file[g])
      BY <1>5, <2>2 DEF HandlesOK
    <3>2. file[g].entry # k /\ file[g].entry \in Listed(dir)
      BY <2>1, <3>1 DEF Placed
    <3>3. QED
      BY <1>9, <1>10, <3>1, <3>2 DEF Later, Placed
  <2>3. QED
    BY <1>5, <2>2 DEF HandlesOK
<1>12. QED
  BY <1>2, <1>5, <1>8, <1>9, <1>10, <1>11, KnownNext

LEMMA FatNextInv == ~RenameFreely => (FatInv /\ [Next]_vars => FatInv')
<1> SUFFICES ASSUME ~RenameFreely, FatInv, [Next]_vars PROVE FatInv'
  OBVIOUS
<1>1. ASSUME NEW h \in Handles, NEW n \in Names,
             OpenOld(h, n) \/ OpenTruncated(h, n) \/ Create(h, n)
      PROVE  FatInv'
  BY <1>1, OpenOldInv, OpenTruncatedInv, CreateInv
<1>2. ASSUME NEW h \in Handles, Read(h) \/ Write(h) \/ Close(h) PROVE FatInv'
  BY <1>2, ReadInv, WriteInv, CloseInv
<1>3. ASSUME NEW h \in Handles, NEW p \in 0..MaxLength, Seek(h, p) PROVE FatInv'
  BY <1>3, SeekInv
<1>4. ASSUME NEW n \in Names, FileRemove(n) \/ FailInCreate(n) PROVE FatInv'
  BY <1>4, FileRemoveInv, FailInv
<1>5. ASSUME NEW n \in Names, NEW new \in Names, FileRename(n, new) PROVE FatInv'
  BY <1>5, FileRenameInv
<1>6. ASSUME Restart PROVE FatInv'
  BY <1>6, RestartInv
<1>7. ASSUME UNCHANGED vars PROVE FatInv'
  BY <1>7 DEF vars, FatInv
<1>8. QED
  BY <1>1, <1>2, <1>3, <1>4, <1>5, <1>6, <1>7 DEF Next

LEMMA FatSafety == ~RenameFreely /\ Spec => []FatInv
<1>1. CASE ~RenameFreely
  BY <1>1, FatInit, FatNextInv, PTL DEF Spec
<1>2. QED
  BY <1>1

(* The directory has the entries that its clusters hold, and what is in it *)
(* and in the handles has its type.                                        *)
THEOREM FatTypes == ~RenameFreely /\ Spec => []TypeOK
BY FatSafety, FatInvMeans, PTL

(* No cluster is in two files, or in one and in the directory, whatever is *)
(* created, removed, renamed or cut short while other handles are open.    *)
THEOREM FilesApart == ~RenameFreely /\ Spec => []NoCrossLink
BY FatSafety, FatInvMeans, PTL

(* What a handle writes back, and what its close removes, is its own       *)
(* file's entry.                                                           *)
THEOREM EntriesLocated == ~RenameFreely /\ Spec => []LocatesEntry
BY FatSafety, FatInvMeans, PTL

(* A cursor that is not known to be astray is where its position says.     *)
THEOREM CursorsStay == ~RenameFreely /\ Spec => []CursorTrue
BY FatSafety, FatInvMeans, PTL

=============================================================================
