----------------------------- MODULE IntRingProofs -----------------------------
(***************************************************************************)
(* The interrupt rings, of any lengths and with any frames that fit in     *)
(* them.  Writer and pump share only cells, so the invariant says what is  *)
(* in each cell: from the pump's index on, the frame that the pump erases, *)
(* then the frames that wait, and then zeros up to the first cell that is  *)
(* not erased yet.  It is that cell, never 0, which stops the scout.       *)
(***************************************************************************)
EXTENDS IntRing, SequenceTheorems, FiniteSetTheorems, WellFoundedInduction, TLAPS

-----------------------------------------------------------------------------
(* The cell at s places, in a ring of N cells.                             *)

Place(N, s) == s % N

(* A place within a stretch of n cells, d from the start of what is kept.  *)
LEMMA InGap ==
  ASSUME NEW F \in Nat, NEW E \in Nat, NEW N \in Nat, NEW d \in Nat,
         NEW n \in Nat, NEW i \in 0..n - 1, F <= d, d + n <= E, E <= F + N
  PROVE  d + i \in F..F + N - 1 /\ d + i < E
  OBVIOUS

LEMMA PlaceIs ==
  ASSUME NEW N \in Nat \ {0}, NEW s \in Int, -N <= s, s < 4 * N
  PROVE  /\ Place(N, s) \in 0..N - 1
         /\ s < 0 => Place(N, s) = s + N
         /\ 0 <= s /\ s < N => Place(N, s) = s
         /\ N <= s /\ s < 2 * N => Place(N, s) = s - N
         /\ 2 * N <= s /\ s < 3 * N => Place(N, s) = s - 2 * N
         /\ 3 * N <= s => Place(N, s) = s - 3 * N
<1>1. s % N \in 0..N - 1
  OBVIOUS
<1>2. s < 0 => s % N = s + N
  OBVIOUS
<1>3. 0 <= s /\ s < N => s % N = s
  OBVIOUS
<1>4. N <= s /\ s < 2 * N => s % N = s - N
  OBVIOUS
<1>5. 2 * N <= s /\ s < 3 * N => s % N = s - 2 * N
  OBVIOUS
<1>6. 3 * N <= s => s % N = s - 3 * N
  OBVIOUS
<1>7. QED
  BY <1>1, <1>2, <1>3, <1>4, <1>5, <1>6 DEF Place

(* A place is a cell.                                                      *)
LEMMA PlaceIn ==
  ASSUME NEW N \in Nat \ {0}, NEW p \in 0..N - 1
  PROVE  /\ \A i \in 0..2 * N : Place(N, p + i) \in 0..N - 1
         /\ \A c \in 0..N - 1 : Place(N, c - p) \in 0..N - 1
<1>1. ASSUME NEW i \in 0..2 * N PROVE Place(N, p + i) \in 0..N - 1
  BY PlaceIs
<1>2. ASSUME NEW c \in 0..N - 1 PROVE Place(N, c - p) \in 0..N - 1
  BY PlaceIs
<1>3. QED
  BY <1>1, <1>2

(* Going on from a place that one went to.                                 *)
LEMMA PlaceThen ==
  ASSUME NEW N \in Nat \ {0}, NEW p \in 0..N - 1,
         NEW i \in 0..2 * N, NEW j \in 0..N
  PROVE  Place(N, Place(N, p + i) + j) = Place(N, p + (i + j))
<1> DEFINE c == Place(N, p + i)
<1>1. /\ c \in 0..N - 1
      /\ c = p + i \/ c = p + i - N \/ c = p + i - 2 * N
  BY PlaceIs
<1> HIDE DEF c
<1>2. /\ Place(N, c + j) \in 0..N - 1
      /\ Place(N, c + j) = c + j \/ Place(N, c + j) = c + j - N
  BY <1>1, PlaceIs
<1>3. /\ Place(N, p + (i + j)) \in 0..N - 1
      /\ \/ Place(N, p + (i + j)) = p + (i + j)
         \/ Place(N, p + (i + j)) = p + (i + j) - N
         \/ Place(N, p + (i + j)) = p + (i + j) - 2 * N
         \/ Place(N, p + (i + j)) = p + (i + j) - 3 * N
  BY PlaceIs
<1>4. QED
  BY <1>1, <1>2, <1>3 DEF c

(* N places in a row are N cells.                                          *)
LEMMA PlacesApart ==
  ASSUME NEW N \in Nat \ {0}, NEW p \in 0..N - 1, NEW F \in 0..N,
         NEW i \in F..F + N - 1, NEW j \in F..F + N - 1,
         Place(N, p + i) = Place(N, p + j)
  PROVE  i = j
<1>1. \/ Place(N, p + i) = p + i
      \/ Place(N, p + i) = p + i - N
      \/ Place(N, p + i) = p + i - 2 * N
  BY PlaceIs
<1>2. \/ Place(N, p + j) = p + j
      \/ Place(N, p + j) = p + j - N
      \/ Place(N, p + j) = p + j - 2 * N
  BY PlaceIs
<1>3. QED
  BY <1>1, <1>2

(* How far the cell at i places is from the one at e places.               *)
LEMMA PlaceFrom ==
  ASSUME NEW N \in Nat \ {0}, NEW p \in 0..N - 1, NEW F \in 0..N,
         NEW e \in F..F + N, NEW i \in F..F + N - 1
  PROVE  Place(N, Place(N, p + i) - Place(N, p + e))
           = IF i < e THEN i - e + N ELSE i - e
<1> DEFINE c == Place(N, p + i)
           w == Place(N, p + e)
<1>1. c \in 0..N - 1 /\ (c = p + i \/ c = p + i - N \/ c = p + i - 2 * N)
  BY PlaceIs
<1>2. /\ w \in 0..N - 1
      /\ w = p + e \/ w = p + e - N \/ w = p + e - 2 * N \/ w = p + e - 3 * N
  BY PlaceIs
<1> HIDE DEF c, w
<1>3. /\ Place(N, c - w) \in 0..N - 1
      /\ Place(N, c - w) = c - w \/ Place(N, c - w) = c - w + N
  BY <1>1, <1>2, PlaceIs
<1>4. QED
  BY <1>1, <1>2, <1>3 DEF c, w

(* Once around the ring.                                                   *)
LEMMA PlaceAround ==
  ASSUME NEW N \in Nat \ {0}, NEW p \in 0..N - 1, NEW i \in 0..2 * N
  PROVE  Place(N, p + (i + N)) = Place(N, p + i)
<1>1. PICK x \in 0..3 * N : x = p + i
  OBVIOUS
<1>2. Place(N, x) = x \/ Place(N, x) = x - N \/ Place(N, x) = x - 2 * N
  BY <1>1, PlaceIs
<1>3. PICK y \in 0..4 * N : y = x + N /\ y < 4 * N
  BY <1>1
<1>4. \/ Place(N, y) = y - N \/ Place(N, y) = y - 2 * N
      \/ Place(N, y) = y - 3 * N
  BY <1>1, <1>3, PlaceIs
<1>5. Place(N, x) \in 0..N - 1 /\ Place(N, y) \in 0..N - 1
  BY <1>1, <1>3, PlaceIs
<1>6. p + (i + N) = y
  BY <1>1, <1>3
<1>7. QED
  BY <1>1, <1>2, <1>3, <1>4, <1>5, <1>6

-----------------------------------------------------------------------------
(* What a ring holds.  N is its length, at the pump's index, w the         *)
(* writer's; q are the frames that wait; cur is the frame being erased, of *)
(* which kept cells are left, or <<>>.  Distances are from the pump's      *)
(* index: off[k] is that of the kth frame that waits.                      *)

IsFrame(N, f) ==
  /\ f \in Seq(Nat) /\ Len(f) >= 2 /\ Len(f) = 2 + f[2]
  /\ f[1] # 0 /\ Len(f) <= N

\* The distance of the first cell, less N, that the writer may not reach.
Floor(cur, kept) == IF kept = 0 THEN Len(cur) ELSE 0

End(q, off) == off[Len(q) + 1]

Sides(N, cells, at, cur, kept) ==
  /\ N \in Nat \ {0} /\ cells \in [0..N - 1 -> Nat] /\ at \in 0..N - 1
  /\ cur = <<>> \/ IsFrame(N, cur)
  /\ kept \in 0..Len(cur)

Offsets(N, q, cur, off) ==
  /\ q \in Seq(Seq(Nat)) /\ \A k \in 1..Len(q) : IsFrame(N, q[k])
  /\ off \in [1..Len(q) + 1 -> Nat]
  /\ off[1] = Len(cur)
  /\ \A k \in 1..Len(q) : off[k + 1] = off[k] + Len(q[k])
  /\ \A j, k \in 1..Len(q) + 1 : j <= k => off[j] <= off[k]

Waiting(N, cells, at, q, off) ==
  \A k \in 1..Len(q) : \A i \in 0..Len(q[k]) - 1 :
    cells[Place(N, at + (off[k] + i))] = q[k][i + 1]

Kept(N, cells, at, cur, kept) ==
  \A i \in 0..kept - 1 : cells[Place(N, at + i)] = cur[i + 1]

Wiped(N, cells, at, cur, kept) ==
  kept > 0 => \A i \in kept..Len(cur) - 1 : cells[Place(N, at + i)] = 0

Free(N, cells, at, q, cur, kept, off) ==
  \A i \in End(q, off)..Floor(cur, kept) + N - 1 : cells[Place(N, at + i)] = 0

Holds(N, cells, at, w, q, cur, kept, off) ==
  /\ Sides(N, cells, at, cur, kept)
  /\ Offsets(N, q, cur, off)
  /\ End(q, off) <= Floor(cur, kept) + N
  /\ w = Place(N, at + End(q, off))
  /\ Waiting(N, cells, at, q, off)
  /\ Kept(N, cells, at, cur, kept)
  /\ Wiped(N, cells, at, cur, kept)
  /\ Free(N, cells, at, q, cur, kept, off)

\* The cells when f is stored at the place w.
Stored(N, cells, w, f) ==
  [c \in 0..N - 1 |-> IF Place(N, c - w) < Len(f)
                      THEN f[Place(N, c - w) + 1] ELSE cells[c]]

(* The distances that Holds speaks of.                                     *)
LEMMA Distances ==
  ASSUME NEW N, NEW cells, NEW at, NEW w, NEW q, NEW cur, NEW kept, NEW off,
         Holds(N, cells, at, w, q, cur, kept, off)
  PROVE  /\ Len(cur) \in 0..N /\ Floor(cur, kept) \in 0..Len(cur)
         /\ End(q, off) \in Floor(cur, kept)..Floor(cur, kept) + N
         /\ End(q, off) >= Len(cur)
         /\ kept > 0 => Floor(cur, kept) = 0
         /\ \A k \in 1..Len(q) : /\ off[k] \in Len(cur)..End(q, off)
                                 /\ off[k] + Len(q[k]) <= End(q, off)
<1>1. /\ Len(cur) \in 0..N /\ kept \in 0..Len(cur) /\ N \in Nat
      /\ Len(<<>>) = 0
  BY DEF Holds, Sides, IsFrame
<1>2. Floor(cur, kept) \in 0..Len(cur) /\ (kept > 0 => Floor(cur, kept) = 0)
  BY <1>1 DEF Floor
<1>3. Len(q) \in Nat
  BY DEF Holds, Offsets
<1>4. /\ End(q, off) \in Nat /\ End(q, off) >= Len(cur)
      /\ End(q, off) <= Floor(cur, kept) + N
  BY <1>1, <1>3 DEF Holds, Offsets, End
<1>5. ASSUME NEW k \in 1..Len(q)
      PROVE  /\ off[k] \in Len(cur)..End(q, off)
             /\ off[k] + Len(q[k]) <= End(q, off)
  <2>1. /\ 1 \in 1..Len(q) + 1 /\ k \in 1..Len(q) + 1 /\ k + 1 \in 1..Len(q) + 1
        /\ Len(q) + 1 \in 1..Len(q) + 1 /\ 1 <= k /\ k <= Len(q) + 1
        /\ k + 1 <= Len(q) + 1
    BY <1>3
  <2>2. /\ off[k] \in Nat /\ off[1] <= off[k] /\ off[k] <= off[Len(q) + 1]
        /\ off[k + 1] <= off[Len(q) + 1] /\ off[k + 1] = off[k] + Len(q[k])
        /\ off[1] = Len(cur)
    BY <2>1 DEF Holds, Offsets
  <2>3. QED
    BY <1>1, <1>4, <2>2 DEF End
<1>6. QED
  BY <1>1, <1>2, <1>4, <1>5

(* The scout finds room exactly when the frame ends before the first cell  *)
(* that is not erased.                                                     *)
LEMMA ScoutIs ==
  ASSUME NEW N, NEW cells, NEW at, NEW w, NEW q, NEW cur, NEW kept, NEW off,
         Holds(N, cells, at, w, q, cur, kept, off),
         NEW f, IsFrame(N, f)
  PROVE  (\A i \in 0..Len(f) - 1 : cells[Place(N, w + i)] = 0)
           <=> End(q, off) + Len(f) <= Floor(cur, kept) + N
<1> DEFINE F == Floor(cur, kept)
           E == End(q, off)
<1>1. /\ N \in Nat \ {0} /\ at \in 0..N - 1 /\ Len(f) \in 2..N
      /\ F \in 0..N /\ E \in F..F + N /\ F \in 0..Len(cur) /\ Len(cur) \in 0..N
      /\ kept > 0 => F = 0
      /\ kept \in 0..Len(cur)
  <2>1. N \in Nat \ {0} /\ at \in 0..N - 1 /\ kept \in 0..Len(cur) /\ Len(f) \in 2..N
    BY DEF IsFrame, Holds, Sides
  <2>2. /\ Len(cur) \in 0..N /\ F \in 0..Len(cur) /\ E \in F..F + N
        /\ kept > 0 => F = 0
    BY Distances
  <2>3. QED
    BY <2>1, <2>2
<1>2. w = Place(N, at + E)
  BY DEF Holds
<1>3. \A i \in E..F + N - 1 : cells[Place(N, at + i)] = 0
  BY DEF Holds, Free
<1>4. kept = 0 => F = Len(cur)
  BY DEF Floor
<1>5. Waiting(N, cells, at, q, off) /\ Kept(N, cells, at, cur, kept)
      /\ Offsets(N, q, cur, off) /\ (cur = <<>> \/ IsFrame(N, cur))
  BY DEF Holds, Sides
<1>6. Len(q) = 0 => E = Len(cur)
  BY <1>5 DEF Offsets, End
<1> HIDE DEF F, E
<1>7. ASSUME NEW i \in 0..Len(f) - 1
      PROVE  Place(N, w + i) = Place(N, at + (E + i))
  <2>1. i \in 0..N /\ E \in 0..2 * N
    BY <1>1
  <2>2. QED
    BY <1>1, <1>2, <2>1, PlaceThen
<1>8. ASSUME E + Len(f) <= F + N, NEW i \in 0..Len(f) - 1
      PROVE  cells[Place(N, w + i)] = 0
  <2>1. E + i \in E..F + N - 1
    BY <1>1, <1>8
  <2>2. QED
    BY <1>3, <1>7, <2>1
<1>9. ASSUME E + Len(f) > F + N, \A i \in 0..Len(f) - 1 : cells[Place(N, w + i)] = 0
      PROVE  FALSE
  <2>1. F + N - E \in 0..Len(f) - 1 /\ E + (F + N - E) = F + N
    BY <1>1, <1>9
  <2>2. cells[Place(N, at + (F + N))] = 0
    BY <1>7, <1>9, <2>1
  <2>3. F \in 0..2 * N /\ N \in Nat \ {0} /\ at \in 0..N - 1
    BY <1>1
  <2>4. Place(N, at + (F + N)) = Place(N, at + F)
    BY <2>3, PlaceAround
  <2>5. CASE kept > 0
    <3>1. F = 0 /\ 0 \in 0..kept - 1 /\ at + F = at + 0 /\ 0 + 1 = 1
      BY <1>1, <2>5
    <3>2. cells[Place(N, at + 0)] = cur[1]
      BY <1>5, <3>1 DEF Kept
    <3>3. cur # <<>>
      BY <1>1, <2>5
    <3>4. QED
      BY <1>5, <2>2, <2>4, <3>1, <3>2, <3>3 DEF IsFrame
  <2>6. CASE kept = 0 /\ Len(q) > 0
    <3>1. 1 \in 1..Len(q) /\ off[1] = F
      BY <1>4, <1>5, <2>6 DEF Offsets
    <3>2. IsFrame(N, q[1]) /\ 0 \in 0..Len(q[1]) - 1 /\ F + 0 = F /\ 0 + 1 = 1
      BY <1>1, <1>5, <3>1 DEF Offsets, IsFrame
    <3>3. cells[Place(N, at + F)] = q[1][1]
      BY <1>5, <3>1, <3>2 DEF Waiting
    <3>4. QED
      BY <2>2, <2>4, <3>2, <3>3 DEF IsFrame
  <2>7. CASE kept = 0 /\ Len(q) = 0
    BY <1>1, <1>4, <1>6, <1>9, <2>7
  <2>8. QED
    <3>1. Len(q) \in Nat
      BY <1>5 DEF Offsets
    <3>2. QED
      BY <1>1, <2>5, <2>6, <2>7, <3>1
<1>10. QED
  <2>1. E + Len(f) <= F + N \/ E + Len(f) > F + N
    BY <1>1
  <2>2. QED
    BY <1>8, <1>9, <2>1 DEF E, F

(* Storing a frame that fits changes the cells from the end on, and no     *)
(* other cell before the first that is not erased.                         *)
LEMMA StoreCells ==
  ASSUME NEW N, NEW cells, NEW at, NEW w, NEW q, NEW cur, NEW kept, NEW off,
         Holds(N, cells, at, w, q, cur, kept, off),
         NEW f, IsFrame(N, f), End(q, off) + Len(f) <= Floor(cur, kept) + N
  PROVE  /\ Stored(N, cells, w, f) \in [0..N - 1 -> Nat]
         /\ \A i \in Floor(cur, kept)..Floor(cur, kept) + N - 1 :
              Stored(N, cells, w, f)[Place(N, at + i)] =
                IF i >= End(q, off) /\ i < End(q, off) + Len(f)
                THEN f[i - End(q, off) + 1] ELSE cells[Place(N, at + i)]
<1> DEFINE F == Floor(cur, kept)
           E == End(q, off)
           new == Stored(N, cells, w, f)
<1>1. /\ N \in Nat \ {0} /\ at \in 0..N - 1 /\ Len(f) \in 2..N
      /\ cells \in [0..N - 1 -> Nat]
  BY DEF IsFrame, Holds, Sides
<1>0. \A i \in 1..Len(f) : f[i] \in Nat
  <2>1. f \in Seq(Nat)
    BY DEF IsFrame
  <2>2. QED
    BY <2>1
<1>2. F \in 0..N /\ E \in F..F + N /\ E + Len(f) <= F + N
  <2>1. F \in 0..Len(cur) /\ Len(cur) \in 0..N /\ E \in F..F + N
    BY Distances
  <2>2. QED
    BY <1>1, <2>1
<1>3. w = Place(N, at + E)
  BY DEF Holds
<1>4. new = [c \in 0..N - 1 |-> IF Place(N, c - w) < Len(f)
                                THEN f[Place(N, c - w) + 1] ELSE cells[c]]
  BY DEF Stored
<1> HIDE DEF F, E, new
<1>5. w \in 0..N - 1
  <2>1. E \in 0..2 * N
    BY <1>1, <1>2
  <2>2. QED
    BY <1>1, <1>3, <2>1, PlaceIn
<1>6. ASSUME NEW c \in 0..N - 1 PROVE Place(N, c - w) \in 0..N - 1
  BY <1>1, <1>5, PlaceIn
<1>7. new \in [0..N - 1 -> Nat]
  <2>1. ASSUME NEW c \in 0..N - 1
        PROVE  (IF Place(N, c - w) < Len(f)
                THEN f[Place(N, c - w) + 1] ELSE cells[c]) \in Nat
    <3>1. CASE Place(N, c - w) < Len(f)
      <4>1. Place(N, c - w) + 1 \in 1..Len(f)
        <5>1. PICK d \in 0..N - 1 : d = Place(N, c - w)
          BY <1>6
        <5>2. d \in Nat /\ d < Len(f) /\ Len(f) \in Nat
          BY <1>1, <3>1, <5>1
        <5>3. d + 1 \in 1..Len(f)
          BY <5>2
        <5>4. QED
          BY <5>1, <5>3
      <4>2. QED
        BY <1>0, <3>1, <4>1
    <3>2. CASE ~(Place(N, c - w) < Len(f))
      BY <1>1, <3>2
    <3>3. QED
      BY <3>1, <3>2
  <2>2. QED
    BY <1>4, <2>1
<1>8. ASSUME NEW i \in F..F + N - 1
      PROVE  new[Place(N, at + i)] = IF i >= E /\ i < E + Len(f)
                                     THEN f[i - E + 1] ELSE cells[Place(N, at + i)]
  <2>1. Place(N, at + i) \in 0..N - 1
    <3>1. i \in 0..2 * N
      BY <1>1, <1>2
    <3>2. QED
      BY <1>1, <3>1, PlaceIn
  <2>2. Place(N, Place(N, at + i) - w) = IF i < E THEN i - E + N ELSE i - E
    <3>1. F \in 0..N /\ E \in F..F + N /\ i \in F..F + N - 1
      BY <1>1, <1>2
    <3>2. QED
      BY <1>1, <1>3, <3>1, PlaceFrom
  <2>3. new[Place(N, at + i)] =
          IF Place(N, Place(N, at + i) - w) < Len(f)
          THEN f[Place(N, Place(N, at + i) - w) + 1] ELSE cells[Place(N, at + i)]
    BY <1>4, <2>1
  <2>4. CASE i < E
    <3>1. i - E + N \in Int /\ ~(i - E + N < Len(f)) /\ ~(i >= E)
      BY <1>1, <1>2, <2>4
    <3>2. QED
      BY <2>2, <2>3, <2>4, <3>1
  <2>5. CASE ~(i < E)
    <3>1. i - E \in Int /\ i >= E /\ (i - E < Len(f) <=> i < E + Len(f))
      BY <1>1, <1>2, <2>5
    <3>2. QED
      BY <2>2, <2>3, <2>5, <3>1
  <2>6. QED
    BY <2>4, <2>5
<1>9. QED
  BY <1>7, <1>8 DEF F, E, new

(* A frame that fits is written behind those that wait.                    *)
LEMMA StoreKeeps ==
  ASSUME NEW N, NEW cells, NEW at, NEW w, NEW q, NEW cur, NEW kept, NEW off,
         Holds(N, cells, at, w, q, cur, kept, off),
         NEW f, IsFrame(N, f), End(q, off) + Len(f) <= Floor(cur, kept) + N
  PROVE  \E o : Holds(N, Stored(N, cells, w, f), at, Place(N, w + Len(f)),
                     Append(q, f), cur, kept, o)
<1> DEFINE F == Floor(cur, kept)
           E == End(q, off)
           r == Append(q, f)
           L == Len(q)
           new == Stored(N, cells, w, f)
           o == [k \in 1..L + 2 |-> IF k = L + 2 THEN E + Len(f) ELSE off[k]]
<1>1. /\ Sides(N, cells, at, cur, kept) /\ Offsets(N, q, cur, off)
      /\ Waiting(N, cells, at, q, off) /\ Kept(N, cells, at, cur, kept)
      /\ Wiped(N, cells, at, cur, kept) /\ Free(N, cells, at, q, cur, kept, off)
      /\ w = Place(N, at + E)
  BY DEF Holds
<1>2. /\ N \in Nat \ {0} /\ at \in 0..N - 1 /\ Len(f) \in 2..N /\ f \in Seq(Nat)
      /\ kept \in 0..Len(cur)
  BY <1>1 DEF IsFrame, Sides
<1>3. /\ Len(cur) \in 0..N /\ F \in 0..Len(cur) /\ E \in F..F + N
      /\ E >= Len(cur) /\ (kept > 0 => F = 0)
      /\ \A k \in 1..L : off[k] \in Len(cur)..E /\ off[k] + Len(q[k]) <= E
  BY Distances
<1>4. F \in 0..N /\ E \in 0..2 * N /\ E + Len(f) <= F + N /\ E \in Nat
      /\ E + Len(f) \in Nat
  BY <1>2, <1>3
<1>5. /\ L \in Nat /\ q \in Seq(Seq(Nat)) /\ off \in [1..L + 1 -> Nat]
      /\ off[1] = Len(cur) /\ off[L + 1] = E
      /\ \A k \in 1..L : /\ off[k + 1] = off[k] + Len(q[k])
                         /\ IsFrame(N, q[k])
      /\ \A j, k \in 1..L + 1 : j <= k => off[j] <= off[k]
  BY <1>1 DEF Offsets, End
<1>6. /\ r \in Seq(Seq(Nat)) /\ Len(r) = L + 1 /\ r[L + 1] = f
      /\ \A k \in 1..L : r[k] = q[k]
  BY <1>2, <1>5
<1>7. /\ new \in [0..N - 1 -> Nat]
      /\ \A i \in F..F + N - 1 :
           new[Place(N, at + i)] = IF i >= E /\ i < E + Len(f)
                                   THEN f[i - E + 1] ELSE cells[Place(N, at + i)]
  BY StoreCells
<1>8. /\ o \in [1..L + 2 -> Nat] /\ o[L + 2] = E + Len(f)
      /\ \A k \in 1..L + 1 : o[k] = off[k]
  <2>1. \A k \in 1..L + 2 : k # L + 2 => k \in 1..L + 1
    BY <1>5
  <2>2. \A k \in 1..L + 1 : k \in 1..L + 2 /\ k # L + 2
    BY <1>5
  <2>3. L + 2 \in 1..L + 2
    BY <1>5
  <2>4. QED
    BY <1>4, <1>5, <2>1, <2>2, <2>3
<1>9. End(r, o) = E + Len(f)
  BY <1>5, <1>6, <1>8 DEF End
<1> HIDE DEF F, E, r, L, o, new
<1>10. Sides(N, new, at, cur, kept)
  BY <1>1, <1>7 DEF Sides
<1>11. Offsets(N, r, cur, o)
  <2>1. ASSUME NEW k \in 1..L + 1
        PROVE  IsFrame(N, r[k]) /\ o[k + 1] = o[k] + Len(r[k])
    <3>1. CASE k = L + 1
      <4>1. /\ r[k] = f /\ k + 1 = L + 2 /\ o[k + 1] = E + Len(f)
            /\ o[k] = E
        BY <1>5, <1>6, <1>8, <3>1
      <4>2. QED
        BY <4>1
    <3>2. CASE k # L + 1
      <4>1. k \in 1..L /\ k + 1 \in 1..L + 1
        BY <1>5, <3>2
      <4>2. QED
        BY <1>5, <1>6, <1>8, <4>1
    <3>3. QED
      BY <3>1, <3>2
  <2>2. ASSUME NEW j \in 1..L + 2, NEW k \in 1..L + 2, j <= k
        PROVE  o[j] <= o[k]
    <3>1. CASE k \in 1..L + 1
      <4>1. j \in 1..L + 1
        BY <1>5, <2>2, <3>1
      <4>2. QED
        BY <1>5, <1>8, <2>2, <3>1, <4>1
    <3>2. CASE k = L + 2 /\ j = L + 2
      BY <1>4, <1>8, <3>2
    <3>3. CASE k = L + 2 /\ j \in 1..L + 1
      <4>1. /\ L + 1 \in 1..L + 1 /\ j <= L + 1
            /\ off[j] <= off[L + 1] /\ off[j] \in Nat
        BY <1>5, <3>3
      <4>2. QED
        BY <1>2, <1>4, <1>5, <1>8, <3>3, <4>1
    <3>4. QED
      BY <1>5, <3>1, <3>2, <3>3
  <2>3. o[1] = Len(cur) /\ Len(r) + 1 = L + 2 /\ Len(r) = L + 1
    BY <1>5, <1>6, <1>8
  <2>4. QED
    BY <1>6, <1>8, <2>1, <2>2, <2>3 DEF Offsets
<1>12. Place(N, w + Len(f)) = Place(N, at + End(r, o))
  <2>1. Len(f) \in 0..N
    BY <1>2
  <2>2. Place(N, w + Len(f)) = Place(N, at + (E + Len(f)))
    BY <1>1, <1>2, <1>4, <2>1, PlaceThen
  <2>3. QED
    BY <1>9, <2>2
<1>13. Waiting(N, new, at, r, o)
  <2> SUFFICES ASSUME NEW k \in 1..L + 1, NEW i \in 0..Len(r[k]) - 1
               PROVE  new[Place(N, at + (o[k] + i))] = r[k][i + 1]
    BY <1>6 DEF Waiting
  <2>1. CASE k = L + 1
    <3>1. o[k] = E /\ r[k] = f
      BY <1>5, <1>6, <1>8, <2>1
    <3>2. /\ E + i \in F..F + N - 1 /\ E + i >= E /\ E + i < E + Len(f)
          /\ (E + i) - E + 1 = i + 1
      BY <1>2, <1>3, <1>4, <3>1
    <3>3. QED
      BY <1>7, <3>1, <3>2
  <2>2. CASE k # L + 1
    <3>1. k \in 1..L /\ k \in 1..L + 1
      BY <1>5, <2>2
    <3>2. /\ o[k] = off[k] /\ r[k] = q[k] /\ Len(q[k]) \in Nat
          /\ i \in 0..Len(q[k]) - 1
      <4>1. o[k] = off[k] /\ r[k] = q[k]
        BY <1>6, <1>8, <3>1
      <4>2. Len(q[k]) \in Nat
        <5>1. IsFrame(N, q[k])
          BY ONLY <1>5, <3>1
        <5>2. QED
          BY ONLY <5>1 DEF IsFrame
      <4>3. i \in 0..Len(q[k]) - 1
        BY ONLY <4>1, i \in 0..Len(r[k]) - 1
      <4>4. QED
        BY ONLY <4>1, <4>2, <4>3
    <3>3. /\ off[k] + i \in F..F + N - 1 /\ off[k] + i < E
      <4>1. off[k] \in Len(cur)..E /\ off[k] + Len(q[k]) <= E
        BY <1>3, <3>1
      <4>2. QED
        <5>1. /\ F \in 0..N /\ Len(cur) \in F..N /\ E \in 0..F + N /\ N \in Nat
              /\ off[k] \in Nat /\ off[k] >= Len(cur)
          BY <1>2, <1>3, <1>4, <4>1
        <5>2. Len(q[k]) \in Nat /\ i \in 0..Len(q[k]) - 1
          BY <3>2
        <5>3. /\ F \in Nat /\ E \in Nat /\ F <= off[k] /\ E <= F + N
              /\ off[k] + Len(q[k]) <= E
          BY ONLY <4>1, <5>1
        <5>4. ASSUME NEW d \in Nat, NEW n \in Nat, i \in 0..n - 1, F <= d, d + n <= E
              PROVE  d + i \in F..F + N - 1 /\ d + i < E
          BY ONLY <5>1, <5>3, <5>4, InGap
        <5>5. QED
          BY ONLY <5>1, <5>2, <5>3, <5>4
    <3>4. new[Place(N, at + (off[k] + i))] = cells[Place(N, at + (off[k] + i))]
      <4>1. ~(off[k] + i >= E)
        BY <1>4, <3>3
      <4>2. QED
        BY <1>7, <3>3, <4>1
    <3>5. QED
      BY <1>1, <3>1, <3>2, <3>4 DEF Waiting, L
  <2>3. QED
    BY <2>1, <2>2
<1>14. Kept(N, new, at, cur, kept) /\ Wiped(N, new, at, cur, kept)
  <2>1. ASSUME kept > 0, NEW i \in 0..Len(cur) - 1
        PROVE  new[Place(N, at + i)] = cells[Place(N, at + i)]
    <3>1. F = 0 /\ i \in F..F + N - 1 /\ ~(i >= E)
      BY <1>2, <1>3, <2>1
    <3>2. QED
      BY <1>7, <3>1
  <2>2. ASSUME NEW i \in 0..kept - 1 PROVE new[Place(N, at + i)] = cur[i + 1]
    <3>1. kept > 0 /\ i \in 0..Len(cur) - 1
      BY <1>2, <1>3
    <3>2. QED
      BY <1>1, <2>1, <3>1 DEF Kept
  <2>3. ASSUME kept > 0, NEW i \in kept..Len(cur) - 1
        PROVE  new[Place(N, at + i)] = 0
    <3>1. i \in 0..Len(cur) - 1
      BY <1>2, <1>3
    <3>2. QED
      BY <1>1, <2>1, <2>3, <3>1 DEF Wiped
  <2>4. QED
    BY <2>2, <2>3 DEF Kept, Wiped
<1>15. Free(N, new, at, r, cur, kept, o)
  <2> SUFFICES ASSUME NEW i \in E + Len(f)..F + N - 1
               PROVE  new[Place(N, at + i)] = 0
    BY <1>9 DEF Free, F
  <2>1. i \in E..F + N - 1 /\ i \in F..F + N - 1 /\ ~(i < E + Len(f))
    BY <1>2, <1>3, <1>4
  <2>2. cells[Place(N, at + i)] = 0
    BY <1>1, <2>1 DEF Free, E, F
  <2>3. QED
    BY <1>7, <2>1, <2>2
<1>16. Holds(N, new, at, Place(N, w + Len(f)), r, cur, kept, o)
  BY <1>4, <1>9, <1>10, <1>11, <1>12, <1>13, <1>14, <1>15 DEF Holds, F
<1>17. QED
  BY <1>16 DEF r, new

(* What the pump reads: the first frame that waits, or 0.                  *)
LEMMA FetchReads ==
  ASSUME NEW N, NEW cells, NEW at, NEW w, NEW q, NEW off,
         Holds(N, cells, at, w, q, <<>>, 0, off)
  PROVE  /\ Len(q) = 0 => cells[Place(N, at + 0)] = 0
         /\ Len(q) > 0 => \A i \in 0..Len(q[1]) - 1 :
                            cells[Place(N, at + i)] = q[1][i + 1]
<1>1. /\ N \in Nat \ {0} /\ Floor(<<>>, 0) = 0 /\ Len(q) \in Nat
      /\ Len(<<>>) = 0 /\ off[1] = 0
  BY DEF Holds, Sides, Floor, Offsets
<1>2. ASSUME Len(q) = 0 PROVE cells[Place(N, at + 0)] = 0
  <2>1. End(q, off) = 0 /\ 0 \in 0..0 + N - 1
    BY <1>1, <1>2 DEF End
  <2>2. QED
    BY <1>1, <2>1 DEF Holds, Free
<1>3. ASSUME Len(q) > 0, NEW i \in 0..Len(q[1]) - 1
      PROVE  cells[Place(N, at + i)] = q[1][i + 1]
  <2>1. 1 \in 1..Len(q)
    BY <1>1, <1>3
  <2>2. cells[Place(N, at + (off[1] + i))] = q[1][i + 1]
    BY <2>1 DEF Holds, Waiting
  <2>3. IsFrame(N, q[1])
    BY <2>1 DEF Holds, Offsets
  <2>4. off[1] + i = i
    BY <1>1, <2>3 DEF IsFrame
  <2>5. QED
    BY <2>2, <2>4
<1>4. QED
  BY <1>2, <1>3

(* The frame that is dispatched waits no longer; its cells stay.           *)
LEMMA TakeKeeps ==
  ASSUME NEW N, NEW cells, NEW at, NEW w, NEW q, NEW off,
         Holds(N, cells, at, w, q, <<>>, 0, off), Len(q) > 0
  PROVE  \E o : Holds(N, cells, at, w, Tail(q), q[1], Len(q[1]), o)
<1> DEFINE L == Len(q)
           r == Tail(q)
           f == q[1]
           o == [k \in 1..L |-> off[k + 1]]
<1>1. /\ Sides(N, cells, at, <<>>, 0) /\ Offsets(N, q, <<>>, off)
      /\ Waiting(N, cells, at, q, off)
      /\ w = Place(N, at + End(q, off)) /\ End(q, off) <= 0 + N
      /\ \A i \in End(q, off)..0 + N - 1 : cells[Place(N, at + i)] = 0
  BY DEF Holds, Floor, Free
<1>2. /\ L \in Nat /\ L > 0 /\ 1 \in 1..L
      /\ q \in Seq(Seq(Nat)) /\ off \in [1..L + 1 -> Nat] /\ off[1] = 0
      /\ \A k \in 1..L : /\ off[k + 1] = off[k] + Len(q[k])
                         /\ IsFrame(N, q[k])
      /\ \A j, k \in 1..L + 1 : j <= k => off[j] <= off[k]
  BY <1>1 DEF Offsets
<1>3. /\ r \in Seq(Seq(Nat)) /\ Len(r) = L - 1
      /\ \A k \in 1..L - 1 : r[k] = q[k + 1]
  <2>1. q # <<>>
    BY <1>2
  <2>2. QED
    BY <1>2, <2>1
<1>4. IsFrame(N, f) /\ Len(f) \in 2..N
  <2>1. IsFrame(N, f)
    BY <1>2
  <2>2. QED
    BY <1>1, <2>1 DEF IsFrame, Sides
<1>5. /\ o \in [1..L -> Nat] /\ \A k \in 1..L : o[k] = off[k + 1]
  <2>1. \A k \in 1..L : k + 1 \in 1..L + 1
    BY <1>2
  <2>2. QED
    BY <1>2, <2>1
<1>6. End(r, o) = End(q, off) /\ Floor(f, Len(f)) = 0
  <2>1. Len(r) + 1 = L /\ L \in 1..L /\ Len(f) # 0
    BY <1>2, <1>3, <1>4
  <2>2. QED
    BY <1>5, <2>1 DEF End, Floor
<1> HIDE DEF L, r, f, o
<1>7. Sides(N, cells, at, f, Len(f))
  BY <1>1, <1>4 DEF Sides
<1>8. Offsets(N, r, f, o)
  <2>1. o[1] = Len(f)
    <3>1. off[1 + 1] = off[1] + Len(f) /\ Len(f) \in Nat
      BY <1>2, <1>4 DEF f
    <3>2. QED
      BY <1>2, <1>5, <3>1
  <2>2. ASSUME NEW k \in 1..L - 1
        PROVE  IsFrame(N, r[k]) /\ o[k + 1] = o[k] + Len(r[k])
    <3>1. k \in 1..L /\ k + 1 \in 1..L
      BY <1>2
    <3>2. r[k] = q[k + 1] /\ o[k] = off[k + 1] /\ o[k + 1] = off[(k + 1) + 1]
      BY <1>3, <1>5, <3>1
    <3>3. QED
      BY <1>2, <3>1, <3>2
  <2>3. ASSUME NEW j \in 1..L, NEW k \in 1..L, j <= k PROVE o[j] <= o[k]
    <3>1. j + 1 \in 1..L + 1 /\ k + 1 \in 1..L + 1 /\ j + 1 <= k + 1
      BY <1>2, <2>3
    <3>2. QED
      BY <1>2, <1>5, <3>1
  <2>4. Len(r) = L - 1 /\ Len(r) + 1 = L
    BY <1>2, <1>3
  <2>5. QED
    BY <1>3, <1>5, <2>1, <2>2, <2>3, <2>4 DEF Offsets
<1>9. Waiting(N, cells, at, r, o)
  <2> SUFFICES ASSUME NEW k \in 1..L - 1, NEW i \in 0..Len(r[k]) - 1
               PROVE  cells[Place(N, at + (o[k] + i))] = r[k][i + 1]
    BY <1>3 DEF Waiting
  <2>1. k \in 1..L /\ k + 1 \in 1..L
    BY <1>2
  <2>2. r[k] = q[k + 1] /\ o[k] = off[k + 1]
    BY <1>3, <1>5, <2>1
  <2>3. QED
    BY <1>1, <2>1, <2>2 DEF Waiting, L
<1>10. Kept(N, cells, at, f, Len(f))
  BY <1>2, FetchReads DEF Kept, f, L
<1>11. Wiped(N, cells, at, f, Len(f))
  <2>1. Len(f)..Len(f) - 1 = {}
    BY <1>4
  <2>2. QED
    BY <2>1 DEF Wiped
<1>12. Free(N, cells, at, r, f, Len(f), o)
  BY <1>1, <1>6 DEF Free
<1>13. Holds(N, cells, at, w, r, f, Len(f), o)
  BY <1>1, <1>6, <1>7, <1>8, <1>9, <1>10, <1>11, <1>12 DEF Holds
<1>14. QED
  BY <1>13 DEF r, f

(* The last cell that is left is erased.  When it was the first of its     *)
(* frame, all of the frame is the writer's again.                          *)
LEMMA WipeKeeps ==
  ASSUME NEW N, NEW cells, NEW at, NEW w, NEW q, NEW cur, NEW kept, NEW off,
         Holds(N, cells, at, w, q, cur, kept, off), kept > 0
  PROVE  Holds(N, [cells EXCEPT ![Place(N, at + (kept - 1))] = 0], at, w, q,
               cur, kept - 1, off)
<1> DEFINE new == [cells EXCEPT ![Place(N, at + (kept - 1))] = 0]
           E == End(q, off)
<1>1. /\ Sides(N, cells, at, cur, kept) /\ Offsets(N, q, cur, off)
      /\ Waiting(N, cells, at, q, off) /\ Kept(N, cells, at, cur, kept)
      /\ Wiped(N, cells, at, cur, kept) /\ Free(N, cells, at, q, cur, kept, off)
      /\ w = Place(N, at + E)
  BY DEF Holds
<1>2. /\ N \in Nat \ {0} /\ at \in 0..N - 1 /\ kept \in 1..Len(cur)
      /\ cells \in [0..N - 1 -> Nat]
      /\ Len(cur) \in 0..N
  <2>1. Len(cur) \in 0..N
    BY Distances
  <2>2. QED
    BY <1>1, <2>1 DEF Sides
<1>3. /\ Floor(cur, kept) = 0 /\ E \in Len(cur)..N
      /\ \A k \in 1..Len(q) : off[k] \in Len(cur)..E /\ off[k] + Len(q[k]) <= E
  BY <1>2, Distances
<1>4. /\ kept - 1 \in 0..N - 1 /\ 0 \in 0..N
      /\ Place(N, at + (kept - 1)) \in 0..N - 1
  <2>1. kept - 1 \in 0..N - 1 /\ 0 \in 0..N /\ kept - 1 \in 0..2 * N
    BY <1>2
  <2>2. QED
    BY <1>2, <2>1, PlaceIn
<1>5. /\ new \in [0..N - 1 -> Nat]
      /\ \A i \in 0..N - 1 : new[Place(N, at + i)] =
           IF i = kept - 1 THEN 0 ELSE cells[Place(N, at + i)]
  <2>1. new \in [0..N - 1 -> Nat]
    BY <1>2
  <2>2. ASSUME NEW i \in 0..N - 1
        PROVE  new[Place(N, at + i)] =
                 IF i = kept - 1 THEN 0 ELSE cells[Place(N, at + i)]
    <3>1. Place(N, at + i) \in 0..N - 1
      <4>1. i \in 0..2 * N
        BY <1>2
      <4>2. QED
        BY <1>2, <4>1, PlaceIn
    <3>2. i \in 0..0 + N - 1 /\ kept - 1 \in 0..0 + N - 1
      BY <1>2, <1>4
    <3>3. Place(N, at + i) = Place(N, at + (kept - 1)) => i = kept - 1
      BY <1>2, <1>4, <3>2, PlacesApart
    <3>4. QED
      BY <1>2, <1>4, <3>1, <3>3
  <2>3. QED
    BY <2>1, <2>2
<1> HIDE DEF new, E
<1>6. Sides(N, new, at, cur, kept - 1)
  BY <1>1, <1>2, <1>5 DEF Sides
<1>7. Waiting(N, new, at, q, off)
  <2> SUFFICES ASSUME NEW k \in 1..Len(q), NEW i \in 0..Len(q[k]) - 1
               PROVE  new[Place(N, at + (off[k] + i))] = q[k][i + 1]
    BY DEF Waiting
  <2>1. /\ off[k] \in Len(cur)..E /\ off[k] + Len(q[k]) <= E
        /\ Len(q[k]) \in Nat
    BY <1>1, <1>3 DEF Offsets, IsFrame
  <2>2. E \in Nat /\ E <= N /\ Len(cur) \in Nat /\ kept - 1 < Len(cur)
    BY <1>2, <1>3
  <2>3. off[k] + i \in 0..N - 1 /\ off[k] + i # kept - 1
    <3>1. /\ off[k] \in Nat /\ off[k] >= Len(cur) /\ i \in Nat
          /\ off[k] + i < off[k] + Len(q[k])
      BY <2>1, <2>2
    <3>2. /\ off[k] + i \in Nat /\ off[k] + i < E /\ off[k] + i >= Len(cur)
          /\ N \in Nat /\ kept - 1 \in Int
      <4>1. N \in Nat /\ kept - 1 \in Int
        BY <1>2
      <4>2. QED
        BY <2>1, <2>2, <3>1, <4>1
    <3>3. QED
      BY <2>2, <3>2
  <2>4. new[Place(N, at + (off[k] + i))] = cells[Place(N, at + (off[k] + i))]
    BY <1>5, <2>3
  <2>5. QED
    BY <1>1, <2>4 DEF Waiting
<1>8. Kept(N, new, at, cur, kept - 1)
  <2> SUFFICES ASSUME NEW i \in 0..(kept - 1) - 1
               PROVE  new[Place(N, at + i)] = cur[i + 1]
    BY DEF Kept
  <2>1. i \in 0..kept - 1 /\ i \in 0..N - 1 /\ i # kept - 1
    BY <1>2
  <2>2. QED
    BY <1>1, <1>5, <2>1 DEF Kept
<1>9. ASSUME NEW i \in kept - 1..Len(cur) - 1 PROVE new[Place(N, at + i)] = 0
  <2>1. i \in 0..N - 1 /\ (i # kept - 1 => i \in kept..Len(cur) - 1) /\ kept > 0
    BY <1>2
  <2>2. QED
    BY <1>1, <1>5, <2>1 DEF Wiped
<1>10. ASSUME NEW i \in E..N - 1 PROVE new[Place(N, at + i)] = 0
  <2>1. i \in E..0 + N - 1 /\ i \in 0..N - 1
    BY <1>2, <1>3
  <2>2. cells[Place(N, at + i)] = 0
    BY <1>1, <1>3, <2>1 DEF Free, E
  <2>3. QED
    BY <1>5, <2>1, <2>2
<1>11. E <= Floor(cur, kept - 1) + N /\ Free(N, new, at, q, cur, kept - 1, off)
  <2>1. CASE kept - 1 # 0
    <3>1. Floor(cur, kept - 1) = 0 /\ 0 + N = N
      BY <1>2, <2>1 DEF Floor
    <3>2. E..Floor(cur, kept - 1) + N - 1 = E..N - 1
      BY <1>2, <3>1
    <3>3. E <= Floor(cur, kept - 1) + N
      BY <1>2, <1>3, <3>1
    <3>4. QED
      BY <1>10, <3>2, <3>3 DEF Free, E
  <2>2. CASE kept - 1 = 0
    <3>1. Floor(cur, kept - 1) = Len(cur)
      BY <2>2 DEF Floor
    <3>2. ASSUME NEW i \in E..Len(cur) + N - 1 PROVE new[Place(N, at + i)] = 0
      <4>1. CASE i < N
        <5>1. i \in E..N - 1
          BY <1>2, <1>3, <4>1
        <5>2. QED
          BY <1>10, <5>1
      <4>2. CASE ~(i < N)
        <5>1. PICK j \in 0..Len(cur) - 1 : i = j + N
          <6>1. i - N \in 0..Len(cur) - 1 /\ i = (i - N) + N
            BY <1>2, <1>3, <4>2
          <6>2. QED
            BY <6>1
        <5>2. j \in 0..2 * N /\ j \in kept - 1..Len(cur) - 1
          BY <1>2, <2>2
        <5>3. Place(N, at + (j + N)) = Place(N, at + j)
          BY <1>2, <5>2, PlaceAround
        <5>4. QED
          BY <1>9, <5>1, <5>2, <5>3
      <4>3. QED
        BY <4>1, <4>2
    <3>3. E <= Len(cur) + N
      BY <1>2, <1>3
    <3>4. QED
      BY <3>1, <3>2, <3>3 DEF Free, E
  <2>3. QED
    BY <2>1, <2>2
<1>12. Wiped(N, new, at, cur, kept - 1)
  BY <1>9 DEF Wiped
<1>13. QED
  BY <1>1, <1>6, <1>7, <1>8, <1>11, <1>12 DEF Holds, new, E

(* The pump goes on behind the frame that it erased.                       *)
LEMMA MoveKeeps ==
  ASSUME NEW N, NEW cells, NEW at, NEW w, NEW q, NEW cur, NEW off,
         Holds(N, cells, at, w, q, cur, 0, off)
  PROVE  \E o : Holds(N, cells, Place(N, at + Len(cur)), w, q, <<>>, 0, o)
<1> DEFINE C == Len(cur)
           E == End(q, off)
           L == Len(q)
           to == Place(N, at + C)
           o == [k \in 1..L + 1 |-> off[k] - C]
<1>1. /\ Sides(N, cells, at, cur, 0) /\ Offsets(N, q, cur, off)
      /\ Waiting(N, cells, at, q, off)
      /\ w = Place(N, at + E) /\ E <= C + N
      /\ \A i \in E..C + N - 1 : cells[Place(N, at + i)] = 0
  BY DEF Holds, Floor, Free
<1>2. /\ N \in Nat \ {0} /\ at \in 0..N - 1 /\ cells \in [0..N - 1 -> Nat]
  BY <1>1 DEF Sides
<1>3. /\ C \in 0..N /\ E \in C..C + N
      /\ \A k \in 1..L : off[k] \in C..E /\ off[k] + Len(q[k]) <= E
  <2>1. Floor(cur, 0) = C
    BY DEF Floor
  <2>2. QED
    BY <2>1, Distances
<1>4. /\ L \in Nat /\ q \in Seq(Seq(Nat)) /\ off \in [1..L + 1 -> Nat]
      /\ off[1] = C /\ off[L + 1] = E
      /\ \A k \in 1..L : /\ off[k + 1] = off[k] + Len(q[k])
                         /\ IsFrame(N, q[k])
      /\ \A j, k \in 1..L + 1 : j <= k => off[j] <= off[k]
  BY <1>1 DEF Offsets, End
<1>5. ASSUME NEW i \in 0..N PROVE Place(N, to + i) = Place(N, at + (C + i))
  <2>1. C \in 0..2 * N
    BY <1>2, <1>3
  <2>2. QED
    BY <1>2, <2>1, PlaceThen
<1>6. to \in 0..N - 1
  <2>1. C \in 0..2 * N
    BY <1>2, <1>3
  <2>2. QED
    BY <1>2, <2>1, PlaceIn
<1>7. /\ o \in [1..L + 1 -> Nat] /\ \A k \in 1..L + 1 : o[k] = off[k] - C
  <2>1. ASSUME NEW k \in 1..L + 1 PROVE off[k] - C \in Nat
    <3>1. off[1] <= off[k] /\ off[k] \in Nat /\ C \in Nat
      BY <1>3, <1>4
    <3>2. QED
      BY <1>4, <3>1
  <2>2. QED
    BY <2>1
<1>8. End(q, o) = E - C
  <2>1. L + 1 \in 1..L + 1
    BY <1>4
  <2>2. QED
    BY <1>4, <1>7, <2>1 DEF End
<1> HIDE DEF C, E, L, to, o
<1>9. Len(<<>>) = 0 /\ Floor(<<>>, 0) = 0
  BY DEF Floor
<1>10. Sides(N, cells, to, <<>>, 0)
  <2>1. 0 \in 0..0
    OBVIOUS
  <2>2. QED
    BY <1>2, <1>6, <1>9, <2>1 DEF Sides
<1>11. Offsets(N, q, <<>>, o)
  <2>1. o[1] = 0
    BY <1>3, <1>4, <1>7
  <2>2. ASSUME NEW k \in 1..L PROVE o[k + 1] = o[k] + Len(q[k])
    <3>1. k \in 1..L + 1 /\ k + 1 \in 1..L + 1
      BY <1>4
    <3>2. /\ o[k] = off[k] - C /\ o[k + 1] = off[k + 1] - C
          /\ off[k + 1] = off[k] + Len(q[k])
      BY <1>4, <1>7, <3>1
    <3>3. off[k] \in Nat /\ Len(q[k]) \in Nat /\ C \in Nat
      <4>1. IsFrame(N, q[k])
        BY <1>4
      <4>2. QED
        <5>1. Len(q[k]) \in Nat
          BY <4>1 DEF IsFrame
        <5>2. QED
          BY <1>3, <1>4, <3>1, <5>1
    <3>4. QED
      BY <3>2, <3>3
  <2>3. ASSUME NEW j \in 1..L + 1, NEW k \in 1..L + 1, j <= k PROVE o[j] <= o[k]
    <3>1. off[j] <= off[k] /\ off[j] \in Nat /\ off[k] \in Nat /\ C \in Nat
      BY <1>3, <1>4, <2>3
    <3>2. QED
      BY <1>7, <3>1
  <2>4. QED
    BY <1>4, <1>7, <1>9, <2>1, <2>2, <2>3 DEF Offsets, L
<1>12. w = Place(N, to + (E - C)) /\ E - C <= 0 + N
  <2>1. E - C \in 0..N /\ C + (E - C) = E
    BY <1>2, <1>3
  <2>2. QED
    BY <1>1, <1>2, <1>5, <2>1
<1>13. Waiting(N, cells, to, q, o)
  <2> SUFFICES ASSUME NEW k \in 1..L, NEW i \in 0..Len(q[k]) - 1
               PROVE  cells[Place(N, to + (o[k] + i))] = q[k][i + 1]
    BY DEF Waiting, L
  <2>1. IsFrame(N, q[k]) /\ k \in 1..L + 1 /\ o[k] = off[k] - C
    BY <1>4, <1>7
  <2>2. /\ off[k] \in C..E /\ off[k] + Len(q[k]) <= E /\ Len(q[k]) \in Nat
    <3>1. Len(q[k]) \in Nat
      BY <2>1 DEF IsFrame
    <3>2. QED
      BY <1>3, <3>1
  <2>3. C \in Nat /\ E \in Nat /\ E <= C + N /\ N \in Nat
    BY <1>2, <1>3
  <2>4. (off[k] - C) + i \in 0..N /\ C + ((off[k] - C) + i) = off[k] + i
    BY <2>2, <2>3
  <2>5. Place(N, to + (o[k] + i)) = Place(N, at + (off[k] + i))
    BY <1>5, <2>1, <2>4
  <2>6. QED
    BY <1>1, <2>5 DEF Waiting, L
<1>14. Kept(N, cells, to, <<>>, 0) /\ Wiped(N, cells, to, <<>>, 0)
  <2>1. 0..0 - 1 = {}
    OBVIOUS
  <2>2. QED
    BY <2>1 DEF Kept, Wiped
<1>15. Free(N, cells, to, q, <<>>, 0, o)
  <2> SUFFICES ASSUME NEW i \in E - C..0 + N - 1
               PROVE  cells[Place(N, to + i)] = 0
    BY <1>8, <1>9 DEF Free
  <2>1. i \in 0..N /\ C + i \in E..C + N - 1
    BY <1>2, <1>3
  <2>2. QED
    BY <1>1, <1>5, <2>1
<1>16. Holds(N, cells, to, w, q, <<>>, 0, o)
  BY <1>8, <1>9, <1>10, <1>11, <1>12, <1>13, <1>14, <1>15 DEF Holds
<1>17. QED
  BY <1>16 DEF to, C

-----------------------------------------------------------------------------
(* The invariant.                                                          *)

\* The frame that the pump erases, and how many of its cells are left.
Erasing(r) == IF r = ring /\ phase = "erase" THEN got ELSE <<>>
Left(r) == IF r = ring /\ phase = "erase" THEN Len(got) - erased ELSE 0

Laid(r) == \E off : Holds(Size[r], mem[r], reader[r], writer[r], pending[r],
                          Erasing(r), Left(r), off)

\* Each is a function on the rings.
Functions == /\ mem = [r \in Rings |-> mem[r]]
             /\ writer = [r \in Rings |-> writer[r]]
             /\ reader = [r \in Rings |-> reader[r]]
             /\ pending = [r \in Rings |-> pending[r]]
             /\ dispatched = [r \in Rings |-> dispatched[r]]

Queues == \A r \in Rings : /\ pending[r] \in Seq(Frames[r])
                           /\ dispatched[r] \in Frames[r] \cup {NoFrame}

\* What the pump has fetched is the beginning of the frame that waits longest.
PumpState ==
  /\ ring \in Rings /\ got \in Seq(Nat) /\ erased \in 0..Len(got)
  /\ phase \in {"fetch", "erase"}
  /\ phase = "fetch" =>
       /\ erased = 0
       /\ got # <<>> => /\ Len(pending[ring]) > 0
                        /\ Len(got) <= Len(pending[ring][1])
                        /\ \A i \in 1..Len(got) : got[i] = pending[ring][1][i]
  /\ phase = "erase" => got \in Frames[ring]

\* An IDE frame waits at most once, and not while the driver handles it.
Outstanding ==
  /\ handling \subseteq raised /\ raised \subseteq Frames[Controlled]
  /\ \A k \in 1..Len(pending[Controlled]) :
       /\ pending[Controlled][k] \in raised \ handling
       /\ \A j \in 1..Len(pending[Controlled]) :
            pending[Controlled][j] = pending[Controlled][k] => j = k

Inv == /\ Functions /\ Queues /\ PumpState /\ Outstanding
       /\ \A r \in Rings : Laid(r)

LEMMA FrameIs ==
  ASSUME NEW r \in Rings, NEW f \in Frames[r]
  PROVE  IsFrame(Size[r], f) /\ Size[r] \in Nat \ {0} /\ f # NoFrame
<1>1. f \in Seq(Nat)
  BY RingsAssumption
<1>2. QED
  BY <1>1, RingsAssumption DEF IsFrame

LEMMA InvTypes ==
  ASSUME Inv
  PROVE  TypeOK
<1>1. ASSUME NEW r \in Rings
      PROVE  /\ mem[r] \in [0..Size[r] - 1 -> Nat]
             /\ {writer[r], reader[r]} \subseteq 0..Size[r] - 1
  <2>1. PICK off : Holds(Size[r], mem[r], reader[r], writer[r], pending[r],
                         Erasing(r), Left(r), off)
    BY DEF Inv, Laid
  <2>2. /\ Size[r] \in Nat \ {0} /\ mem[r] \in [0..Size[r] - 1 -> Nat]
        /\ reader[r] \in 0..Size[r] - 1
        /\ writer[r] = Place(Size[r], reader[r] + End(pending[r], off))
    BY <2>1 DEF Holds, Sides
  <2>3. End(pending[r], off) \in 0..2 * Size[r]
    <3>1. /\ Len(Erasing(r)) \in 0..Size[r]
          /\ Floor(Erasing(r), Left(r)) \in 0..Len(Erasing(r))
          /\ End(pending[r], off) \in
               Floor(Erasing(r), Left(r))..Floor(Erasing(r), Left(r)) + Size[r]
      BY <2>1, Distances
    <3>2. QED
      BY <2>2, <3>1
  <2>4. writer[r] \in 0..Size[r] - 1
    BY <2>2, <2>3, PlaceIn
  <2>5. QED
    BY <2>2, <2>4
<1>2. QED
  BY <1>1 DEF Inv, Queues, PumpState, Outstanding, TypeOK

(* A ring of zeros.                                                        *)
LEMMA EmptyHolds ==
  ASSUME NEW N \in Nat \ {0}
  PROVE  \E off : Holds(N, [i \in 0..N - 1 |-> 0], 0, 0, <<>>, <<>>, 0, off)
<1> DEFINE off == [k \in 1..1 |-> 0]
           cells == [i \in 0..N - 1 |-> 0]
<1>1. /\ Len(<<>>) = 0 /\ Floor(<<>>, 0) = 0 /\ End(<<>>, off) = 0
      /\ <<>> \in Seq(Seq(Nat))
  BY DEF Floor, End
<1>2. off \in [1..0 + 1 -> Nat] /\ off[1] = 0 /\ 1..0 = {} /\ 0 \in 0..0
      /\ 0..0 - 1 = {} /\ \A k \in 1..0 + 1 : off[k] = 0
  OBVIOUS
<1>3. 0 = Place(N, 0 + 0) /\ 0 \in 0..N - 1
  BY PlaceIs
<1>4. \A i \in 0..0 + N - 1 : cells[Place(N, 0 + i)] = 0
  <2>1. ASSUME NEW i \in 0..0 + N - 1 PROVE cells[Place(N, 0 + i)] = 0
    <3>1. i \in 0..2 * N
      OBVIOUS
    <3>2. Place(N, 0 + i) \in 0..N - 1
      BY <1>3, <3>1, PlaceIn
    <3>3. QED
      BY <3>2
  <2>2. QED
    BY <2>1
<1>5. cells \in [0..N - 1 -> Nat]
  OBVIOUS
<1> HIDE DEF off, cells
<1>6. Sides(N, cells, 0, <<>>, 0) /\ Offsets(N, <<>>, <<>>, off)
  BY <1>1, <1>2, <1>3, <1>5 DEF Sides, Offsets
<1>7. /\ Waiting(N, cells, 0, <<>>, off) /\ Kept(N, cells, 0, <<>>, 0)
      /\ Wiped(N, cells, 0, <<>>, 0) /\ Free(N, cells, 0, <<>>, <<>>, 0, off)
  BY <1>1, <1>2, <1>4 DEF Waiting, Kept, Wiped, Free
<1>8. Holds(N, cells, 0, 0, <<>>, <<>>, 0, off)
  BY <1>1, <1>3, <1>6, <1>7 DEF Holds
<1>9. QED
  BY <1>8 DEF cells

LEMMA InitInv == Init => Inv
<1> SUFFICES ASSUME Init PROVE Inv
  OBVIOUS
<1>1. /\ ring \in Rings /\ ring = Controlled /\ phase = "fetch" /\ got = <<>>
      /\ erased = 0 /\ raised = {} /\ handling = {}
      /\ <<>> \in Seq(Nat) /\ Len(<<>>) = 0
  BY RingsAssumption DEF Init
<1>2. Functions
  BY DEF Init, Functions
<1>3. Queues
  BY DEF Init, Queues
<1>4. PumpState
  BY <1>1 DEF PumpState
<1>5. Outstanding
  BY <1>1, RingsAssumption DEF Init, Outstanding
<1>6. ASSUME NEW r \in Rings PROVE Laid(r)
  <2>1. Size[r] \in Nat \ {0}
    BY RingsAssumption
  <2>2. /\ mem[r] = [i \in 0..Size[r] - 1 |-> 0] /\ reader[r] = 0
        /\ writer[r] = 0 /\ pending[r] = <<>>
    BY DEF Init
  <2>3. Erasing(r) = <<>> /\ Left(r) = 0
    BY <1>1 DEF Erasing, Left
  <2>4. QED
    BY <2>1, <2>2, <2>3, EmptyHolds DEF Laid
<1>7. QED
  BY <1>2, <1>3, <1>4, <1>5, <1>6 DEF Inv

-----------------------------------------------------------------------------
(* The steps.                                                              *)

(* A ring whose cells, indices and frames stay.                            *)
LEMMA LaidStays ==
  ASSUME NEW r, Laid(r), mem'[r] = mem[r], reader'[r] = reader[r],
         writer'[r] = writer[r], pending'[r] = pending[r],
         Erasing(r)' = Erasing(r), Left(r)' = Left(r)
  PROVE  Laid(r)'
BY DEF Laid

(* The indices in terms of places.                                         *)
LEMMA CellIs == \A r, p, i : Cell(r, p, i) = Place(Size[r], p + i)
BY DEF Cell, Place

(* A frame that arrives is written behind those that wait, or discarded.   *)
LEMMA SendStep ==
  ASSUME Inv, NEW r \in Rings, NEW f \in Frames[r], Send(r, f),
         UNCHANGED <<reader, pumpVars>>
  PROVE  /\ \A s \in Rings : Laid(s)'
         /\ mem' = [s \in Rings |-> mem'[s]]
         /\ writer' = [s \in Rings |-> writer'[s]]
         /\ \/ pending' = pending
            \/ pending' = [pending EXCEPT ![r] = Append(@, f)]
<1> DEFINE N == Size[r]
           cur == Erasing(r)
           kept == Left(r)
<1>1. PICK off : Holds(N, mem[r], reader[r], writer[r], pending[r], cur, kept, off)
  BY DEF Inv, Laid
<1>2. N \in Nat \ {0} /\ IsFrame(N, f) /\ mem[r] \in [0..N - 1 -> Nat]
  BY <1>1, FrameIs DEF Holds, Sides
<1>3. Functions
  BY DEF Inv
<1>4. \A s : Erasing(s)' = Erasing(s) /\ Left(s)' = Left(s) /\ reader'[s] = reader[s]
  BY DEF Erasing, Left, pumpVars
<1>5. CASE Fits(r, f)
  <2>1. /\ mem' = [mem EXCEPT ![r] = [c \in DOMAIN mem[r] |->
                     LET i == (c - writer[r]) % N
                     IN  IF i < Len(f) THEN f[i + 1] ELSE mem[r][c]]]
        /\ writer' = [writer EXCEPT ![r] = Place(N, writer[r] + Len(f))]
        /\ pending' = [pending EXCEPT ![r] = Append(pending[r], f)]
    BY <1>5 DEF Send, Store, Cell, Place
  <2>2. DOMAIN mem[r] = 0..N - 1
    BY <1>2
  <2>3. Stored(N, mem[r], writer[r], f) =
          [c \in DOMAIN mem[r] |-> LET i == (c - writer[r]) % N
                                   IN  IF i < Len(f) THEN f[i + 1] ELSE mem[r][c]]
    BY <2>2 DEF Stored, Place
  <2>4. mem' = [mem EXCEPT ![r] = Stored(N, mem[r], writer[r], f)]
    BY <2>1, <2>3
  <2> HIDE DEF N, cur, kept
  <2>5. /\ mem' = [s \in Rings |-> mem'[s]] /\ writer' = [s \in Rings |-> writer'[s]]
        /\ mem'[r] = Stored(N, mem[r], writer[r], f)
        /\ writer'[r] = Place(N, writer[r] + Len(f))
        /\ pending'[r] = Append(pending[r], f)
        /\ \A s \in Rings \ {r} : /\ mem'[s] = mem[s] /\ writer'[s] = writer[s]
                                  /\ pending'[s] = pending[s]
    BY <1>3, <2>1, <2>4 DEF Functions
  <2>6. \A i \in 0..Len(f) - 1 : mem[r][Place(N, writer[r] + i)] = 0
    BY <1>5, CellIs DEF Fits, N
  <2>7. End(pending[r], off) + Len(f) <= Floor(cur, kept) + N
    BY <1>1, <1>2, <2>6, ScoutIs
  <2>8. \E o : Holds(N, mem'[r], reader[r], writer'[r], pending'[r], cur, kept, o)
    BY <1>1, <1>2, <2>5, <2>7, StoreKeeps
  <2>9. Laid(r)'
    <3>1. reader'[r] = reader[r] /\ Erasing(r)' = cur /\ Left(r)' = kept
      BY <1>4 DEF cur, kept
    <3>2. \E o : Holds(N, mem'[r], reader'[r], writer'[r], pending'[r],
                       Erasing(r)', Left(r)', o)
      BY <2>8, <3>1
    <3>3. QED
      BY <3>2 DEF Laid, N
  <2>10. \A s \in Rings \ {r} : Laid(s)'
    BY <1>4, <2>5, LaidStays DEF Inv
  <2>11. QED
    BY <2>1, <2>5, <2>9, <2>10
<1>6. CASE ~Fits(r, f)
  <2>1. UNCHANGED <<mem, writer, pending>>
    BY <1>6 DEF Send
  <2>2. \A s \in Rings : Laid(s)'
    BY <1>4, <2>1, LaidStays DEF Inv
  <2>3. QED
    BY <1>3, <2>1, <2>2 DEF Functions
<1>7. QED
  BY <1>5, <1>6

(* A frame that arrives leaves the pump as it is.                          *)
LEMMA SendKeeps ==
  ASSUME Inv, NEW r \in Rings, NEW f \in Frames[r], Send(r, f),
         UNCHANGED <<reader, pumpVars, dispatched>>
  PROVE  Functions' /\ Queues' /\ PumpState' /\ \A s \in Rings : Laid(s)'
<1>1. Functions /\ Queues /\ PumpState
  BY DEF Inv
<1>2. /\ \A s \in Rings : Laid(s)'
      /\ mem' = [s \in Rings |-> mem'[s]]
      /\ writer' = [s \in Rings |-> writer'[s]]
      /\ \/ pending' = pending
         \/ pending' = [pending EXCEPT ![r] = Append(@, f)]
  BY SendStep
<1>3. /\ reader' = reader /\ dispatched' = dispatched /\ ring' = ring
      /\ phase' = phase /\ got' = got /\ erased' = erased
  BY DEF pumpVars
<1>4. CASE pending' = pending
  <2>1. Functions' /\ Queues' /\ PumpState'
    BY <1>1, <1>2, <1>3, <1>4 DEF Functions, Queues, PumpState
  <2>2. QED
    BY <1>2, <2>1
<1>5. CASE pending' = [pending EXCEPT ![r] = Append(@, f)]
  <2>1. /\ pending' = [s \in Rings |-> pending'[s]]
        /\ pending'[r] = Append(pending[r], f)
        /\ \A s \in Rings \ {r} : pending'[s] = pending[s]
    BY <1>1, <1>5 DEF Functions
  <2>2. pending[r] \in Seq(Frames[r]) /\ pending'[r] \in Seq(Frames[r])
    <3>1. pending[r] \in Seq(Frames[r])
      BY <1>1 DEF Queues
    <3>2. Append(pending[r], f) \in Seq(Frames[r])
      BY <3>1, AppendProperties
    <3>3. QED
      BY <2>1, <3>1, <3>2
  <2>3. Functions' /\ Queues'
    BY <1>1, <1>2, <1>3, <2>1, <2>2 DEF Functions, Queues
  <2>4. ASSUME Len(pending[ring]) > 0
        PROVE  Len(pending'[ring]) > 0 /\ pending'[ring][1] = pending[ring][1]
    <3>1. CASE ring = r
      BY <2>1, <2>2, <2>4, <3>1
    <3>2. CASE ring # r
      BY <1>1, <2>1, <2>4, <3>2 DEF PumpState
    <3>3. QED
      BY <3>1, <3>2
  <2>5. PumpState'
    BY <1>1, <1>3, <2>4 DEF PumpState
  <2>6. QED
    BY <1>2, <2>3, <2>5
<1>6. QED
  BY <1>2, <1>4, <1>5

(* The IDE frame that arrives was not raised, so that it waits nowhere.    *)
LEMMA RaiseControlledKeeps ==
  ASSUME Inv, NEW f \in Frames[Controlled], RaiseControlled(f)
  PROVE  Inv'
<1> DEFINE q == pending[Controlled]
<1>1. /\ Send(Controlled, f) /\ raised' = raised \cup {f} /\ f \notin raised
      /\ UNCHANGED <<reader, pumpVars, dispatched, handling>>
      /\ Controlled \in Rings
  BY RingsAssumption DEF RaiseControlled
<1>2. Functions' /\ Queues' /\ PumpState' /\ \A s \in Rings : Laid(s)'
  BY <1>1, SendKeeps
<1>3. /\ handling \subseteq raised /\ raised \subseteq Frames[Controlled]
      /\ \A k \in 1..Len(q) :
           /\ q[k] \in raised \ handling
           /\ \A j \in 1..Len(q) : q[j] = q[k] => j = k
  BY DEF Inv, Outstanding
<1>4. q \in Seq(Frames[Controlled]) /\ Len(q) \in Nat
  BY <1>1 DEF Inv, Queues
<1>5. Outstanding'
  <2>1. CASE pending' = pending
    BY <1>1, <1>3, <2>1 DEF Outstanding
  <2>2. CASE pending' = [pending EXCEPT ![Controlled] = Append(@, f)]
    <3>1. pending'[Controlled] = Append(q, f)
      BY <1>1, <2>2 DEF Inv, Functions
    <3> HIDE DEF q
    <3>2. /\ Len(pending'[Controlled]) = Len(q) + 1
          /\ pending'[Controlled][Len(q) + 1] = f
          /\ \A k \in 1..Len(q) : pending'[Controlled][k] = q[k]
      BY <1>4, <3>1
    <3>3. \A k \in 1..Len(q) + 1 : k \in 1..Len(q) \/ k = Len(q) + 1
      BY <1>4
    <3>4. ASSUME NEW k \in 1..Len(q) + 1
          PROVE  /\ pending'[Controlled][k] \in raised' \ handling'
                 /\ \A j \in 1..Len(q) + 1 :
                      pending'[Controlled][j] = pending'[Controlled][k] => j = k
      BY <1>1, <1>3, <3>2, <3>3
    <3>5. QED
      BY <1>1, <1>3, <3>2, <3>4 DEF Outstanding
  <2>3. QED
    BY <1>1, <2>1, <2>2, SendStep
<1>6. QED
  BY <1>2, <1>5 DEF Inv

LEMMA RaiseKeeps ==
  ASSUME Inv, NEW r \in Rings, NEW f \in Frames[r], Raise(r, f)
  PROVE  Inv'
<1>1. /\ Send(r, f) /\ r # Controlled
      /\ UNCHANGED <<reader, pumpVars, dispatched, raised, handling>>
  BY DEF Raise
<1>2. Functions' /\ Queues' /\ PumpState' /\ \A s \in Rings : Laid(s)'
  BY <1>1, SendKeeps
<1>3. pending'[Controlled] = pending[Controlled]
  <2>1. pending = [s \in Rings |-> pending[s]] /\ Controlled \in Rings
    BY RingsAssumption DEF Inv, Functions
  <2>2. QED
    BY <1>1, <2>1, SendStep
<1>4. Outstanding'
  BY <1>1, <1>3 DEF Inv, Outstanding
<1>5. QED
  BY <1>2, <1>4 DEF Inv

LEMMA AcknowledgeKeeps ==
  ASSUME Inv, NEW f \in Frames[Controlled], Acknowledge(f)
  PROVE  Inv'
<1>1. /\ f \in handling /\ handling' = handling \ {f} /\ raised' = raised \ {f}
      /\ mem' = mem /\ writer' = writer /\ reader' = reader /\ ring' = ring
      /\ phase' = phase /\ got' = got /\ erased' = erased
      /\ dispatched' = dispatched /\ pending' = pending
  BY DEF Acknowledge, pumpVars
<1>2. Functions' /\ Queues' /\ PumpState'
  BY <1>1 DEF Inv, Functions, Queues, PumpState
<1>3. Outstanding'
  BY <1>1 DEF Inv, Outstanding
<1>4. \A r \in Rings : Laid(r)'
  BY <1>1 DEF Inv, Laid, Erasing, Left
<1>5. QED
  BY <1>2, <1>3, <1>4 DEF Inv

(* A step of the pump changes nothing at the other rings.                  *)
LEMMA OthersStay ==
  ASSUME Inv, NEW r \in Rings, r # ring, ring' = ring \/ phase' = "fetch",
         mem'[r] = mem[r], reader'[r] = reader[r],
         writer'[r] = writer[r], pending'[r] = pending[r]
  PROVE  Laid(r)'
<1>1. Erasing(r)' = Erasing(r) /\ Left(r)' = Left(r)
  BY DEF Erasing, Left
<1>2. QED
  BY <1>1, LaidStays DEF Inv

LEMMA NextRingIn == ring \in Rings => NextRing \in Rings
BY DEF NextRing

(* What the pump reads continues the frame that waits longest.             *)
LEMMA FetchKeeps ==
  ASSUME Inv, Fetch
  PROVE  Inv'
<1> DEFINE N == Size[ring]
           q == pending[ring]
           cell == mem[ring][Place(N, reader[ring] + Len(got))]
<1>1. /\ phase = "fetch" /\ phase' = "fetch" /\ ~Whole
      /\ mem' = mem /\ writer' = writer /\ reader' = reader /\ erased' = erased
      /\ dispatched' = dispatched /\ raised' = raised /\ handling' = handling
      /\ pending' = pending
  BY DEF Fetch
<1>2. IF got = <<>> /\ cell = 0
      THEN ring' = NextRing /\ got' = got
      ELSE got' = Append(got, cell) /\ ring' = ring
  BY CellIs DEF Fetch
<1>3. /\ Functions /\ Queues /\ PumpState /\ Outstanding
      /\ ring \in Rings /\ got \in Seq(Nat) /\ erased = 0
  BY <1>1 DEF Inv, PumpState
<1>4. ring' \in Rings
  BY <1>2, <1>3, NextRingIn
<1>5. PICK off : Holds(N, mem[ring], reader[ring], writer[ring], q, <<>>, 0, off)
  <2>1. Erasing(ring) = <<>> /\ Left(ring) = 0
    BY <1>1 DEF Erasing, Left
  <2>2. QED
    BY <1>3, <2>1 DEF Inv, Laid
<1>6. q \in Seq(Frames[ring]) /\ Len(q) \in Nat
  <2>1. q \in Seq(Frames[ring])
    BY <1>3 DEF Queues
  <2>2. QED
    BY <2>1
<1> HIDE DEF q, cell, N
<1>7. CASE got = <<>> /\ cell = 0
  <2>1. PumpState'
    BY <1>1, <1>2, <1>3, <1>4, <1>7 DEF PumpState
  <2>2. QED
    <3>1. \A r \in Rings : Laid(r)'
      <4>1. \A r : Erasing(r) = <<>> /\ Erasing(r)' = <<>> /\ Left(r) = 0 /\ Left(r)' = 0
        BY <1>1 DEF Erasing, Left
      <4>2. QED
        BY <1>1, <4>1, LaidStays DEF Inv
    <3>2. QED
      BY <1>1, <1>3, <2>1, <3>1 DEF Inv, Functions, Queues, Outstanding
<1>8. CASE ~(got = <<>> /\ cell = 0)
  <2>1. got' = Append(got, cell) /\ ring' = ring
    BY <1>2, <1>8
  <2>2. Len(q) > 0
    <3>1. CASE got = <<>>
      <4>1. Len(got) = 0 /\ cell # 0
        BY <1>8, <3>1
      <4>2. Len(q) # 0
        BY <1>5, <4>1, FetchReads DEF cell
      <4>3. QED
        BY <1>6, <4>2
    <3>2. CASE got # <<>>
      BY <1>1, <1>3, <3>2 DEF PumpState, q
    <3>3. QED
      BY <3>1, <3>2
  <2>3. /\ q[1] \in Frames[ring] /\ Len(q[1]) \in Nat /\ Len(q[1]) >= 2
        /\ Len(q[1]) = 2 + q[1][2] /\ q[1] \in Seq(Nat)
    <3>1. q[1] \in Frames[ring]
      BY <1>6, <2>2
    <3>2. QED
      BY <1>3, <3>1, FrameIs DEF IsFrame
  <2>4. Len(got) \in Nat /\ Len(got) < Len(q[1])
        /\ \A i \in 1..Len(got) : got[i] = q[1][i]
    <3>1. CASE got = <<>>
      BY <2>3, <3>1
    <3>2. CASE got # <<>>
      <4>1. /\ Len(got) <= Len(q[1]) /\ Len(got) \in Nat
            /\ \A i \in 1..Len(got) : got[i] = q[1][i]
        BY <1>1, <1>3, <3>2 DEF PumpState, q
      <4>2. Len(got) # Len(q[1])
        <5> SUFFICES ASSUME Len(got) = Len(q[1]) PROVE FALSE
          OBVIOUS
        <5>1. Len(got) >= 2 /\ 2 \in 1..Len(got)
          BY <2>3, <4>1
        <5>2. got[2] = q[1][2]
          BY <4>1, <5>1
        <5>3. QED
          BY <1>1, <2>3, <5>1, <5>2 DEF Whole
      <4>3. QED
        BY <2>3, <4>1, <4>2
    <3>3. QED
      BY <3>1, <3>2
  <2>5. cell = q[1][Len(got) + 1]
    <3>1. Len(got) \in 0..Len(q[1]) - 1
      BY <2>3, <2>4
    <3>2. QED
      BY <1>5, <2>2, <3>1, FetchReads DEF cell
  <2>6. cell \in Nat
    <3>1. Len(got) + 1 \in 1..Len(q[1])
      BY <2>3, <2>4
    <3>2. QED
      BY <2>3, <2>5, <3>1
  <2>7. /\ got' \in Seq(Nat) /\ Len(got') = Len(got) + 1
        /\ \A i \in 1..Len(got) + 1 :
             got'[i] = IF i = Len(got) + 1 THEN cell ELSE got[i]
    BY <1>3, <2>1, <2>6
  <2>8. \A i \in 1..Len(got') : got'[i] = q[1][i]
    <3>1. \A i \in 1..Len(got) + 1 : i # Len(got) + 1 => i \in 1..Len(got)
      BY <2>4
    <3>2. QED
      BY <2>4, <2>5, <2>7, <3>1
  <2>9. PumpState'
    <3>1. Len(got') <= Len(q[1]) /\ 0 \in 0..Len(got')
      BY <2>3, <2>4, <2>7
    <3>2. /\ erased' \in 0..Len(got') /\ erased' = 0 /\ phase' # "erase"
          /\ pending'[ring'] = q
      BY <1>1, <1>3, <2>1, <3>1 DEF q
    <3>3. QED
      BY <1>1, <1>4, <2>2, <2>7, <2>8, <3>1, <3>2 DEF PumpState
  <2>10. \A r \in Rings : Laid(r)'
    <3>1. \A r : Erasing(r) = <<>> /\ Erasing(r)' = <<>> /\ Left(r) = 0 /\ Left(r)' = 0
      BY <1>1 DEF Erasing, Left
    <3>2. QED
      BY <1>1, <3>1, LaidStays DEF Inv
  <2>11. QED
    BY <1>1, <1>3, <2>9, <2>10 DEF Inv, Functions, Queues, Outstanding
<1>9. QED
  BY <1>7, <1>8

(* A whole frame is the one that waits longest.                            *)
LEMMA WholeIsFirst ==
  ASSUME Inv, phase = "fetch", Whole
  PROVE  /\ Len(pending[ring]) > 0 /\ pending[ring] # <<>>
         /\ got = pending[ring][1] /\ got \in Frames[ring]
         /\ pending[ring] \in Seq(Frames[ring])
<1>1. /\ ring \in Rings /\ got \in Seq(Nat) /\ Len(got) >= 2
      /\ Len(got) = 2 + got[2] /\ Len(got) \in Nat
      /\ pending[ring] \in Seq(Frames[ring])
  BY DEF Inv, PumpState, Queues, Whole
<1>2. /\ Len(pending[ring]) > 0
      /\ Len(got) <= Len(pending[ring][1])
      /\ \A i \in 1..Len(got) : got[i] = pending[ring][1][i]
  <2>1. got # <<>>
    BY <1>1
  <2>2. QED
    BY <2>1 DEF Inv, PumpState
<1>3. pending[ring][1] \in Frames[ring]
  BY <1>1, <1>2
<1>4. /\ pending[ring][1] \in Seq(Nat)
      /\ Len(pending[ring][1]) = 2 + pending[ring][1][2]
  BY <1>1, <1>3, FrameIs DEF IsFrame
<1>5. got[2] = pending[ring][1][2]
  <2>1. 2 \in 1..Len(got)
    BY <1>1
  <2>2. QED
    BY <1>2, <2>1
<1>6. Len(got) = Len(pending[ring][1])
  BY <1>1, <1>4, <1>5
<1>7. got = pending[ring][1]
  BY <1>1, <1>2, <1>4, <1>6, SeqEqual
<1>8. QED
  BY <1>1, <1>2, <1>3, <1>7

LEMMA DispatchKeeps ==
  ASSUME Inv, Dispatch
  PROVE  Inv'
<1> DEFINE N == Size[ring]
           q == pending[ring]
<1>1. /\ phase = "fetch" /\ phase' = "erase" /\ Whole
      /\ dispatched' = [dispatched EXCEPT ![ring] = got]
      /\ pending' = [pending EXCEPT ![ring] = IF q = <<>> THEN q ELSE Tail(q)]
      /\ handling' = handling \cup (IF ring = Controlled THEN {got} ELSE {})
      /\ mem' = mem /\ writer' = writer /\ reader' = reader /\ ring' = ring
      /\ got' = got /\ erased' = erased /\ raised' = raised
  BY DEF Dispatch
<1>2. /\ Len(q) > 0 /\ q # <<>> /\ got = q[1] /\ got \in Frames[ring]
      /\ q \in Seq(Frames[ring])
  BY <1>1, WholeIsFirst
<1>3. /\ Functions /\ Queues /\ PumpState /\ Outstanding
      /\ ring \in Rings /\ got \in Seq(Nat) /\ erased = 0
  BY <1>1 DEF Inv, PumpState
<1> HIDE DEF q
<1>4. /\ pending' = [s \in Rings |-> pending'[s]]
      /\ dispatched' = [s \in Rings |-> dispatched'[s]]
      /\ pending'[ring] = Tail(q) /\ dispatched'[ring] = got
      /\ \A s \in Rings \ {ring} : /\ pending'[s] = pending[s]
                                   /\ dispatched'[s] = dispatched[s]
  BY <1>1, <1>2, <1>3 DEF Functions
<1>5. /\ Tail(q) \in Seq(Frames[ring]) /\ Len(Tail(q)) = Len(q) - 1
      /\ \A k \in 1..Len(q) - 1 : Tail(q)[k] = q[k + 1]
      /\ Len(q) \in Nat
  BY <1>2
<1>6. Functions' /\ Queues'
  BY <1>1, <1>2, <1>3, <1>4, <1>5 DEF Functions, Queues
<1>7. PumpState'
  BY <1>1, <1>2, <1>3 DEF PumpState
<1>8. Outstanding'
  <2>1. CASE ring = Controlled
    <3>1. /\ handling \subseteq raised /\ raised \subseteq Frames[Controlled]
          /\ \A k \in 1..Len(q) :
               /\ q[k] \in raised \ handling
               /\ \A j \in 1..Len(q) : q[j] = q[k] => j = k
      BY <1>3, <2>1 DEF Outstanding, q
    <3>2. 1 \in 1..Len(q) /\ got \in raised
      BY <1>2, <1>5, <3>1
    <3>3. handling' = handling \cup {got} /\ handling' \subseteq raised'
      BY <1>1, <2>1, <3>1, <3>2
    <3>4. /\ Len(pending'[Controlled]) = Len(q) - 1
          /\ \A k \in 1..Len(q) - 1 : pending'[Controlled][k] = q[k + 1]
      BY <1>4, <1>5, <2>1
    <3>5. \A k \in 1..Len(q) - 1 : k + 1 \in 1..Len(q) /\ k + 1 # 1
      BY <1>5
    <3>6. ASSUME NEW k \in 1..Len(q) - 1
          PROVE  /\ pending'[Controlled][k] \in raised' \ handling'
                 /\ \A j \in 1..Len(q) - 1 :
                      pending'[Controlled][j] = pending'[Controlled][k] => j = k
      <4>1. q[k + 1] \in raised \ handling /\ q[k + 1] # got
        BY <1>2, <3>1, <3>2, <3>5
      <4>2. ASSUME NEW j \in 1..Len(q) - 1,
                   pending'[Controlled][j] = pending'[Controlled][k]
            PROVE  j = k
        <5>1. j + 1 = k + 1
          BY <3>1, <3>4, <3>5, <4>2
        <5>2. QED
          BY <1>5, <5>1
      <4>3. QED
        BY <1>1, <3>3, <3>4, <4>1, <4>2
    <3>7. QED
      BY <1>1, <3>1, <3>3, <3>4, <3>6 DEF Outstanding
  <2>2. CASE ring # Controlled
    <3>1. handling' = handling /\ pending'[Controlled] = pending[Controlled]
      BY <1>1, <1>4, <2>2, RingsAssumption
    <3>2. QED
      BY <1>1, <1>3, <3>1 DEF Outstanding
  <2>3. QED
    BY <2>1, <2>2
<1>9. Laid(ring)'
  <2>1. PICK off : Holds(N, mem[ring], reader[ring], writer[ring], q, <<>>, 0, off)
    <3>1. Erasing(ring) = <<>> /\ Left(ring) = 0
      BY <1>1 DEF Erasing, Left
    <3>2. QED
      BY <1>3, <3>1 DEF Inv, Laid, q
  <2>2. \E o : Holds(N, mem[ring], reader[ring], writer[ring], Tail(q), got,
                     Len(got), o)
    BY <1>2, <2>1, TakeKeeps
  <2>3. Erasing(ring)' = got /\ Left(ring)' = Len(got)
    BY <1>1, <1>3 DEF Erasing, Left
  <2>4. QED
    BY <1>1, <1>4, <2>2, <2>3 DEF Laid
<1>10. \A r \in Rings : Laid(r)'
  BY <1>1, <1>4, <1>9, OthersStay
<1>11. QED
  BY <1>6, <1>7, <1>8, <1>10 DEF Inv

LEMMA EraseKeeps ==
  ASSUME Inv, Erase
  PROVE  Inv'
<1> DEFINE N == Size[ring]
           cell == Place(N, reader[ring] + (Len(got) - 1 - erased))
<1>1. /\ phase = "erase" /\ phase' = "erase" /\ erased < Len(got)
      /\ mem' = [mem EXCEPT ![ring][cell] = 0] /\ erased' = erased + 1
      /\ writer' = writer /\ reader' = reader /\ ring' = ring /\ got' = got
      /\ dispatched' = dispatched /\ raised' = raised /\ handling' = handling
      /\ pending' = pending
  BY CellIs DEF Erase
<1>2. /\ Functions /\ Queues /\ PumpState /\ Outstanding
      /\ ring \in Rings /\ got \in Seq(Nat) /\ Len(got) \in Nat
      /\ erased \in 0..Len(got) /\ got \in Frames[ring]
  BY <1>1 DEF Inv, PumpState
<1> HIDE DEF cell
<1>3. /\ mem' = [s \in Rings |-> mem'[s]]
      /\ mem'[ring] = [mem[ring] EXCEPT ![cell] = 0]
      /\ \A s \in Rings \ {ring} : mem'[s] = mem[s]
  BY <1>1, <1>2 DEF Functions
<1>4. Functions' /\ Queues' /\ Outstanding'
  BY <1>1, <1>2, <1>3 DEF Functions, Queues, Outstanding
<1>5. PumpState'
  <2>1. erased' \in 0..Len(got)
    BY <1>1, <1>2
  <2>2. QED
    BY <1>1, <1>2, <2>1 DEF PumpState
<1>6. Laid(ring)'
  <2>1. /\ Erasing(ring) = got /\ Left(ring) = Len(got) - erased
        /\ Erasing(ring)' = got /\ Left(ring)' = Len(got) - (erased + 1)
    BY <1>1 DEF Erasing, Left
  <2>2. PICK off : Holds(N, mem[ring], reader[ring], writer[ring], pending[ring],
                         got, Len(got) - erased, off)
    BY <1>2, <2>1 DEF Inv, Laid
  <2>3. /\ Len(got) - erased > 0
        /\ Len(got) - erased - 1 = Len(got) - (erased + 1)
        /\ Len(got) - 1 - erased = Len(got) - erased - 1
    BY <1>1, <1>2
  <2>4. cell = Place(N, reader[ring] + (Len(got) - erased - 1))
    BY <2>3 DEF cell
  <2>5. Holds(N, mem'[ring], reader[ring], writer[ring], pending[ring],
              got, Len(got) - erased - 1, off)
    BY <1>3, <2>2, <2>3, <2>4, WipeKeeps
  <2>6. QED
    BY <1>1, <2>1, <2>3, <2>5 DEF Laid
<1>7. \A r \in Rings : Laid(r)'
  BY <1>1, <1>3, <1>6, OthersStay
<1>8. QED
  BY <1>4, <1>5, <1>7 DEF Inv

LEMMA MoveKeepsInv ==
  ASSUME Inv, Move
  PROVE  Inv'
<1> DEFINE N == Size[ring]
<1>1. /\ phase = "erase" /\ phase' = "fetch" /\ erased = Len(got)
      /\ reader' = [reader EXCEPT ![ring] = Place(N, reader[ring] + Len(got))]
      /\ got' = <<>> /\ erased' = 0 /\ ring' = NextRing
      /\ mem' = mem /\ writer' = writer /\ dispatched' = dispatched
      /\ raised' = raised /\ handling' = handling /\ pending' = pending
  BY CellIs DEF Move
<1>2. /\ Functions /\ Queues /\ PumpState /\ Outstanding
      /\ ring \in Rings /\ got \in Seq(Nat) /\ Len(got) \in Nat
      /\ ring' \in Rings
  BY <1>1, NextRingIn DEF Inv, PumpState
<1>3. /\ reader' = [s \in Rings |-> reader'[s]]
      /\ reader'[ring] = Place(N, reader[ring] + Len(got))
      /\ \A s \in Rings \ {ring} : reader'[s] = reader[s]
  BY <1>1, <1>2 DEF Functions
<1>4. Functions' /\ Queues' /\ Outstanding'
  BY <1>1, <1>2, <1>3 DEF Functions, Queues, Outstanding
<1>5. PumpState'
  <2>1. <<>> \in Seq(Nat) /\ 0 \in 0..Len(<<>>)
    OBVIOUS
  <2>2. QED
    BY <1>1, <1>2, <2>1 DEF PumpState
<1>6. ASSUME NEW r \in Rings, r = ring PROVE Laid(r)'
  <2>1. /\ Erasing(r) = got /\ Left(r) = 0
        /\ Erasing(r)' = <<>> /\ Left(r)' = 0
    <3>1. Len(got) - erased = 0
      BY <1>1, <1>2
    <3>2. QED
      BY <1>1, <1>6, <3>1 DEF Erasing, Left
  <2>2. PICK off : Holds(Size[r], mem[r], reader[r], writer[r], pending[r],
                         got, 0, off)
    BY <1>2, <2>1 DEF Inv, Laid
  <2>3. \E o : Holds(Size[r], mem[r], reader'[r], writer[r], pending[r], <<>>, 0, o)
    BY <1>3, <1>6, <2>2, MoveKeeps
  <2>4. QED
    BY <1>1, <2>1, <2>3 DEF Laid
<1>7. \A r \in Rings : Laid(r)'
  BY <1>1, <1>3, <1>6, OthersStay
<1>8. QED
  BY <1>4, <1>5, <1>7 DEF Inv

LEMMA NextInv ==
  ASSUME Inv, [Next]_vars
  PROVE  Inv'
<1>1. CASE UNCHANGED vars
  <2>1. /\ mem' = mem /\ writer' = writer /\ reader' = reader /\ ring' = ring
        /\ phase' = phase /\ got' = got /\ erased' = erased
        /\ dispatched' = dispatched /\ raised' = raised /\ handling' = handling
        /\ pending' = pending
    BY <1>1 DEF vars, pumpVars
  <2>2. \A r : Erasing(r)' = Erasing(r) /\ Left(r)' = Left(r)
    BY <2>1 DEF Erasing, Left
  <2>3. QED
    BY <2>1, <2>2, LaidStays
       DEF Inv, Functions, Queues, PumpState, Outstanding
<1>2. ASSUME NEW f \in Frames[Controlled], RaiseControlled(f) PROVE Inv'
  BY <1>2, RaiseControlledKeeps
<1>3. ASSUME NEW f \in Frames[Controlled], Acknowledge(f) PROVE Inv'
  BY <1>3, AcknowledgeKeeps
<1>4. ASSUME NEW r \in Rings, NEW f \in Frames[r], Raise(r, f) PROVE Inv'
  BY <1>4, RaiseKeeps
<1>5. CASE Pump
  BY <1>5, FetchKeeps, DispatchKeeps, EraseKeeps, MoveKeepsInv DEF Pump
<1>6. QED
  BY <1>1, <1>2, <1>3, <1>4, <1>5 DEF Next

LEMMA Invariance == Spec => []Inv
BY InitInv, NextInv, PTL DEF Spec

(* The two sides of a ring keep to their cells, and a frame that the       *)
(* driver handles is one whose interrupt is not acknowledged:              *)
(* send_gambit_int and the pump of gambini.scm.                            *)
THEOREM TypeCorrect == Spec => []TypeOK
BY Invariance, InvTypes, PTL

-----------------------------------------------------------------------------
(* The refinement of FrameFifo.                                            *)

Out == [r \in Rings |-> IF dispatched[r] = NoFrame THEN <<>> ELSE dispatched[r]]

LEMMA SendDelivers ==
  ASSUME Inv, NEW r \in Rings, NEW f \in Frames[r], Send(r, f),
         UNCHANGED <<reader, pumpVars, dispatched>>
  PROVE  [Fifo!Next]_(Fifo!vars)
<1>1. Out' = Out
  BY DEF Out
<1>2. \/ pending' = pending
      \/ pending' = [pending EXCEPT ![r] = Append(@, f)]
  BY SendStep
<1>3. CASE pending' = pending
  BY <1>1, <1>3 DEF Fifo!vars, Out
<1>4. CASE pending' = [pending EXCEPT ![r] = Append(@, f)]
  <2>1. Fifo!Accept(r, f)
    BY <1>1, <1>4 DEF Fifo!Accept, Out
  <2>2. QED
    BY <2>1 DEF Fifo!Next
<1>5. QED
  BY <1>2, <1>3, <1>4

LEMMA DispatchDelivers ==
  ASSUME Inv, Dispatch
  PROVE  Fifo!Next
<1>1. /\ phase = "fetch" /\ Whole /\ ring \in Rings
      /\ dispatched' = [dispatched EXCEPT ![ring] = got]
      /\ pending' = [pending EXCEPT ![ring] = IF @ = <<>> THEN @ ELSE Tail(@)]
      /\ dispatched = [r \in Rings |-> dispatched[r]]
      /\ pending = [r \in Rings |-> pending[r]]
  BY DEF Dispatch, Inv, PumpState, Functions
<1>2. /\ Len(pending[ring]) > 0 /\ pending[ring] # <<>>
      /\ got = pending[ring][1] /\ got \in Frames[ring] /\ got # NoFrame
  BY <1>1, WholeIsFirst, FrameIs
<1>3. pending' = [pending EXCEPT ![ring] = Tail(@)]
  BY <1>1, <1>2
<1>4. Head(pending[ring]) = got
  BY <1>2
<1>5. Out' = [Out EXCEPT ![ring] = Head(pending[ring])]
  <2>1. /\ dispatched'[ring] = got
        /\ \A r \in Rings \ {ring} : dispatched'[r] = dispatched[r]
    BY <1>1
  <2>2. \A r \in Rings : (IF dispatched'[r] = NoFrame THEN <<>> ELSE dispatched'[r])
                           = IF r = ring THEN got ELSE Out[r]
    BY <1>2, <2>1 DEF Out
  <2>3. QED
    BY <1>4, <2>2 DEF Out
<1>6. PICK r \in Rings : r = ring
  BY <1>1
<1>7. Fifo!Deliver(r)
  BY <1>2, <1>3, <1>5, <1>6 DEF Fifo!Deliver, Out
<1>8. QED
  BY <1>7 DEF Fifo!Next

(* A driver gets the frames that its ring took, whole, once and in order,  *)
(* although a frame can arrive between any two cells that the pump reads   *)
(* or erases: the rings implement FrameFifo (send_gambit_int, gambini.scm).*)
THEOREM FramesInOrder == Spec => DeliversInOrder
<1>1. Init => Fifo!Init
  BY DEF Init, Fifo!Init
<1>2. ASSUME Inv, [Next]_vars PROVE [Fifo!Next]_(Fifo!vars)
  <2>1. CASE UNCHANGED <<pending, dispatched>>
    BY <2>1 DEF Fifo!vars
  <2>2. ASSUME NEW f \in Frames[Controlled], RaiseControlled(f)
        PROVE  [Fifo!Next]_(Fifo!vars)
    BY <1>2, <2>2, SendDelivers, RingsAssumption DEF RaiseControlled
  <2>3. ASSUME NEW r \in Rings, NEW f \in Frames[r], Raise(r, f)
        PROVE  [Fifo!Next]_(Fifo!vars)
    BY <1>2, <2>3, SendDelivers DEF Raise
  <2>4. CASE Dispatch
    BY <1>2, <2>4, DispatchDelivers
  <2>5. QED
    BY <1>2, <2>1, <2>2, <2>3, <2>4
       DEF Next, Pump, Fetch, Erase, Move, Acknowledge, vars
<1>3. QED
  BY <1>1, <1>2, Invariance, PTL DEF Spec, DeliversInOrder, Fifo!Spec

-----------------------------------------------------------------------------
(* Room in the flow-controlled ring.                                       *)

\* It has cells for all of its frames, each of at most L cells, and one more.
RoomForAll ==
  /\ IsFiniteSet(Frames[Controlled])
  /\ \E L \in Nat :
       /\ \A f \in Frames[Controlled] : Len(f) <= L
       /\ (Cardinality(Frames[Controlled]) + 1) * L <= Size[Controlled]

(* A set of numbers has a least one.                                       *)
LEMMA LeastOf ==
  ASSUME NEW T \in SUBSET Nat, T # {}
  PROVE  \E n \in T : \A m \in T : n <= m
<1> DEFINE R == OpToRel(<, Nat)
<1>1. IsWellFoundedOn(R, Nat)
  BY NatLessThanWellFounded
<1>2. ASSUME NEW m \in Nat, NEW n \in Nat PROVE <<m, n>> \in R <=> m < n
  BY DEF OpToRel
<1> HIDE DEF R
<1>3. PICK n \in T : \A m \in T : <<m, n>> \notin R
  BY <1>1, WFMin
<1>4. ASSUME NEW m \in T PROVE n <= m
  <2>1. m \in Nat /\ n \in Nat /\ ~(m < n)
    BY <1>2, <1>3
  <2>2. QED
    BY <2>1
<1>5. QED
  BY <1>4

LEMMA Products ==
  ASSUME NEW a \in Nat, NEW b \in Nat, NEW L \in Nat
  PROVE  /\ a * L \in Nat /\ 1 * L = L /\ (a + 1) * L = a * L + L
         /\ a <= b => a * L <= b * L
<1>1. a * L \in Nat /\ 1 * L = L /\ (a + 1) * L = a * L + L
  OBVIOUS
<1>2. ASSUME a <= b PROVE a * L <= b * L
  <2>1. PICK d \in Nat : b = a + d
    <3>1. b - a \in Nat /\ b = a + (b - a)
      BY <1>2
    <3>2. QED
      BY <3>1
  <2>2. b * L = a * L + d * L /\ d * L \in Nat
    BY <2>1
  <2>3. QED
    BY <1>1, <2>2
<1>3. QED
  BY <1>1, <1>2

(* The frames end within as many times the longest as there are frames.    *)
LEMMA EndBound ==
  ASSUME NEW N, NEW q, NEW cur, NEW off, Offsets(N, q, cur, off),
         NEW L \in Nat, Len(cur) <= L, \A k \in 1..Len(q) : Len(q[k]) <= L
  PROVE  End(q, off) <= (Len(q) + 1) * L
<1> DEFINE T == {k \in 1..Len(q) + 1 : ~(off[k] <= k * L)}
<1>1. /\ Len(q) \in Nat /\ off \in [1..Len(q) + 1 -> Nat] /\ off[1] = Len(cur)
      /\ \A k \in 1..Len(q) : /\ off[k + 1] = off[k] + Len(q[k])
                              /\ IsFrame(N, q[k])
  BY DEF Offsets
<1>2. ASSUME T # {} PROVE FALSE
  <2>1. PICK k \in T : \A m \in T : k <= m
    <3>1. T \in SUBSET Nat
      BY <1>1
    <3>2. QED
      BY <1>2, <3>1, LeastOf
  <2>2. k \in 1..Len(q) + 1 /\ ~(off[k] <= k * L)
    BY <2>1
  <2>3. k # 1
    BY <1>1, <2>2, Products
  <2>4. PICK j \in 1..Len(q) : k = j + 1
    <3>1. k - 1 \in 1..Len(q) /\ k = (k - 1) + 1
      BY <1>1, <2>2, <2>3
    <3>2. QED
      BY <3>1
  <2>5. off[j] <= j * L
    <3>1. j \in 1..Len(q) + 1 /\ ~(k <= j)
      BY <1>1, <2>4
    <3>2. j \notin T
      BY <2>1, <3>1
    <3>3. QED
      BY <3>1, <3>2
  <2>6. /\ off[j] \in Nat /\ Len(q[j]) \in Nat /\ Len(q[j]) <= L
        /\ off[k] = off[j] + Len(q[j]) /\ j \in Nat
    <3>1. Len(q[j]) \in Nat
      BY <1>1 DEF IsFrame
    <3>2. j \in 1..Len(q) + 1
      BY <1>1
    <3>3. off[j] \in Nat
      BY <1>1, <3>2
    <3>4. Len(q[j]) <= L /\ off[j + 1] = off[j] + Len(q[j])
      BY <1>1
    <3>5. QED
      BY <1>1, <2>4, <3>1, <3>3, <3>4
  <2>7. k * L = j * L + L /\ j * L \in Nat
    BY <2>4, <2>6, Products
  <2>8. PICK x \in Nat : x = j * L
    BY <2>7
  <2>9. off[j] <= x /\ ~(off[k] <= x + L)
    BY <2>2, <2>5, <2>7, <2>8
  <2>10. QED
    BY <2>6, <2>8, <2>9
<1>3. Len(q) + 1 \in 1..Len(q) + 1
  BY <1>1
<1>4. off[Len(q) + 1] <= (Len(q) + 1) * L
  BY <1>2, <1>3
<1>5. QED
  BY <1>4 DEF End

(* Different frames, all of them but f, are fewer than the frames.         *)
LEMMA FewerFrames ==
  ASSUME NEW S, IsFiniteSet(S), NEW f \in S, NEW n \in Nat,
         NEW q, \A k \in 1..n : q[k] \in S \ {f},
         \A j, k \in 1..n : q[j] = q[k] => j = k
  PROVE  n + 1 <= Cardinality(S) /\ Cardinality(S) \in Nat
<1> DEFINE g == [k \in 1..n |-> q[k]]
<1>1. /\ IsFiniteSet(S \ {f}) /\ Cardinality(S \ {f}) = Cardinality(S) - 1
      /\ Cardinality(S) \in Nat
  BY FS_RemoveElement, FS_CardinalityType
<1>2. g \in [1..n -> S \ {f}] /\ \A j, k \in 1..n : g[j] = g[k] => j = k
  OBVIOUS
<1> HIDE DEF g
<1>3. g \in Injection(1..n, S \ {f})
  BY <1>2 DEF Injection, IsInjective
<1>4. Cardinality(1..n) <= Cardinality(S \ {f})
  BY <1>1, <1>3, FS_Injection
<1>5. Cardinality(1..n) = n
  <2>1. Cardinality(1..n) = IF 1 > n THEN 0 ELSE n - 1 + 1
    BY FS_Interval
  <2>2. QED
    BY <2>1
<1>6. QED
  BY <1>1, <1>4, <1>5

(* The scout finds room for an IDE frame that was not raised.              *)
LEMMA RoomFor ==
  ASSUME Inv, RoomForAll, NEW f \in Frames[Controlled], f \notin raised
  PROVE  Fits(Controlled, f)
<1> DEFINE N == Size[Controlled]
           S == Frames[Controlled]
           q == pending[Controlled]
           cur == Erasing(Controlled)
           kept == Left(Controlled)
<1>1. Controlled \in Rings
  BY RingsAssumption
<1>2. PICK off : Holds(N, mem[Controlled], reader[Controlled], writer[Controlled],
                       q, cur, kept, off)
  BY <1>1 DEF Inv, Laid
<1>3. PICK L \in Nat : /\ \A g \in S : Len(g) <= L
                       /\ (Cardinality(S) + 1) * L <= N
  BY DEF RoomForAll
<1>4. q \in Seq(S) /\ Len(q) \in Nat /\ \A k \in 1..Len(q) : q[k] \in S
  <2>1. q \in Seq(S)
    BY <1>1 DEF Inv, Queues
  <2>2. QED
    BY <2>1
<1>5. \A k \in 1..Len(q) : /\ q[k] \in raised
                           /\ \A j \in 1..Len(q) : q[j] = q[k] => j = k
  BY DEF Inv, Outstanding
<1>6. Len(cur) <= L
  <2>1. cur = <<>> \/ cur \in S
    BY DEF Erasing, Inv, PumpState
  <2>2. Len(<<>>) = 0
    OBVIOUS
  <2>3. QED
    BY <1>3, <2>1, <2>2
<1>7. IsFrame(N, f) /\ N \in Nat
  BY <1>1, FrameIs
<1> HIDE DEF N, S, q, cur, kept
<1>8. Len(q) + 1 <= Cardinality(S) /\ Cardinality(S) \in Nat
  <2>1. IsFiniteSet(S) /\ f \in S
    BY DEF RoomForAll, S
  <2>2. \A k \in 1..Len(q) : q[k] \in S \ {f}
    BY <1>4, <1>5
  <2>3. QED
    BY <1>4, <1>5, <2>1, <2>2, FewerFrames
<1>9. End(q, off) <= (Len(q) + 1) * L
  <2>1. Offsets(N, q, cur, off)
    BY <1>2 DEF Holds
  <2>2. \A k \in 1..Len(q) : Len(q[k]) <= L
    BY <1>3, <1>4
  <2>3. QED
    BY <1>6, <2>1, <2>2, EndBound
<1>10. /\ (Len(q) + 1) * L <= Cardinality(S) * L
       /\ (Cardinality(S) + 1) * L = Cardinality(S) * L + L
       /\ (Len(q) + 1) * L \in Nat /\ Cardinality(S) * L \in Nat
  <2>1. Len(q) + 1 \in Nat
    BY <1>4
  <2>2. QED
    BY <1>8, <2>1, Products
<1>11. End(q, off) + Len(f) <= Floor(cur, kept) + N
  <2>1. /\ Floor(cur, kept) \in 0..Len(cur) /\ Len(cur) \in 0..N
        /\ End(q, off) \in Floor(cur, kept)..Floor(cur, kept) + N
    BY <1>2, Distances
  <2>2. Floor(cur, kept) \in Nat /\ End(q, off) \in Nat
    BY <1>7, <2>1
  <2>3. Len(f) \in Nat /\ Len(f) <= L
    BY <1>3, <1>7 DEF IsFrame, S
  <2>4. QED
    BY <1>3, <1>7, <1>9, <1>10, <2>2, <2>3
<1>12. \A i \in 0..Len(f) - 1 :
         mem[Controlled][Place(N, writer[Controlled] + i)] = 0
  BY <1>2, <1>7, <1>11, ScoutIs
<1>13. QED
  BY <1>12, CellIs DEF Fits, N

(* In a ring with room for every IDE frame and one more, no IDE interrupt  *)
(* is discarded: at most one frame of each controller waits, and at most   *)
(* one frame is being erased (flow_controlled of src/rtlib.cpp).           *)
THEOREM IdeInterruptsTaken ==
  ASSUME RoomForAll
  PROVE  Spec => ControlledTaken
<1> DEFINE Taken == \A f \in Frames[Controlled] :
             f \notin raised /\ f \in raised' => f \in ToSet(pending'[Controlled])
<1>1. ASSUME Inv, [Next]_vars PROVE [Taken]_vars
  <2> SUFFICES ASSUME NEW f \in Frames[Controlled], f \notin raised, f \in raised'
               PROVE  f \in ToSet(pending'[Controlled])
    OBVIOUS
  <2>1. RaiseControlled(f)
    BY <1>1 DEF Next, RaiseControlled, Raise, Acknowledge, Pump, Fetch, Dispatch,
                Erase, Move, vars
  <2>2. Fits(Controlled, f)
    BY <1>1, RoomFor
  <2>3. pending' = [pending EXCEPT ![Controlled] = Append(@, f)]
    BY <2>1, <2>2 DEF RaiseControlled, Send
  <2>4. Controlled \in Rings /\ pending[Controlled] \in Seq(Frames[Controlled])
    BY <1>1, RingsAssumption DEF Inv, Queues
  <2>5. pending'[Controlled] = Append(pending[Controlled], f)
    BY <1>1, <2>3, <2>4 DEF Inv, Functions
  <2>6. /\ Len(pending[Controlled]) + 1 \in DOMAIN pending'[Controlled]
        /\ pending'[Controlled][Len(pending[Controlled]) + 1] = f
    BY <2>4, <2>5
  <2>7. QED
    BY <2>6 DEF ToSet
<1>2. QED
  BY <1>1, Invariance, PTL DEF Spec, ControlledTaken

=============================================================================
