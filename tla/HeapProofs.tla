------------------------------ MODULE HeapProofs ------------------------------
(***************************************************************************)
(* The heap, of any size and for any sizes of requests.  The blocks tile   *)
(* the heap because their sizes add up, which takes the used bits out of   *)
(* the head words: a size is even, so that a sum of two head words, one of *)
(* them in use, is odd, and clearing its bit 0 leaves the sum of the sizes.*)
(***************************************************************************)
EXTENDS Heap, PrioQueueProofs, FiniteSetTheorems

Address == Nat

-----------------------------------------------------------------------------
(* Head words.                                                             *)

LEMMA BitOf ==
  ASSUME NEW n \in Nat
  PROVE  /\ n % 2 \in 0..1 /\ n - (n % 2) \in Nat
         /\ (n + 1 - (n % 2)) % 2 = 1
         /\ n + 1 - (n % 2) \in Nat
         /\ (n + 1 - (n % 2)) - 1 = n - (n % 2)
         /\ (n - (n % 2)) % 2 = 0
<1>1. n % 2 \in 0..1 /\ n - (n % 2) \in Nat /\ n + 1 - (n % 2) \in Nat
  OBVIOUS
<1>2. (n + 1 - (n % 2)) % 2 = 1
  OBVIOUS
<1>3. (n - (n % 2)) % 2 = 0
  OBVIOUS
<1>4. QED
  BY <1>1, <1>2, <1>3

LEMMA WordIs ==
  ASSUME NEW n \in Nat
  PROVE  /\ Word(n) \in Nat /\ n <= Word(n) /\ Word(n) <= n + 3
         /\ Word(n) % 2 = 0
<1>1. PICK q \in Nat : q = (n + 3) \div 4 /\ n <= q * 4 /\ q * 4 <= n + 3
  <2>1. /\ (n + 3) \div 4 \in Nat /\ n <= ((n + 3) \div 4) * 4
        /\ ((n + 3) \div 4) * 4 <= n + 3
    OBVIOUS
  <2>2. QED
    BY <2>1
<1>2. (q * 4) % 2 = 0
  BY <1>1
<1>3. QED
  BY <1>1, <1>2 DEF Word

LEMMA EvenSums ==
  ASSUME NEW m \in Nat, NEW n \in Nat, m % 2 = 0
  PROVE  /\ n % 2 = 0 => (m - n) % 2 = 0
         /\ n % 2 = 1 => (m + Header + n) % 2 = 1
<1>1. n % 2 = 0 => (m - n) % 2 = 0
  OBVIOUS
<1>2. n % 2 = 1 => (m + 12 + n) % 2 = 1
  OBVIOUS
<1>3. QED
  BY <1>1, <1>2 DEF Header

LEMMA SizeIs ==
  ASSUME NEW h, NEW b, h[b] \in Nat
  PROVE  /\ Size(h, b) \in Nat
         /\ Used(h, b) \in BOOLEAN
         /\ ~Used(h, b) => Size(h, b) = h[b] /\ h[b] % 2 = 0
         /\ Used(h, b) => Size(h, b) + 1 = h[b] /\ h[b] % 2 = 1
<1>1. h[b] % 2 \in 0..1 /\ h[b] - (h[b] % 2) \in Nat
  BY BitOf
<1>2. QED
  BY <1>1 DEF Size, Used

(* Marking a block changes neither a size nor another block.               *)
LEMMA MarkIs ==
  ASSUME NEW D, NEW h \in [D -> Nat], NEW b \in D
  PROVE  /\ Mark(h, b) \in [D -> Nat] /\ Used(Mark(h, b), b)
         /\ \A x \in D : Size(Mark(h, b), x) = Size(h, x)
         /\ \A x \in D \ {b} : Used(Mark(h, b), x) <=> Used(h, x)
<1> DEFINE n == h[b]
           g == Mark(h, b)
<1>1. n \in Nat
  OBVIOUS
<1> HIDE DEF n
<1>2. /\ n + 1 - (n % 2) \in Nat /\ (n + 1 - (n % 2)) % 2 = 1
      /\ (n + 1 - (n % 2)) - 1 = n - (n % 2)
  BY <1>1, BitOf
<1>3. g = [h EXCEPT ![b] = n + 1 - (n % 2)]
  BY DEF Mark, n
<1>4. /\ g \in [D -> Nat] /\ g[b] = n + 1 - (n % 2)
      /\ \A x \in D \ {b} : g[x] = h[x]
  BY <1>2, <1>3
<1> HIDE DEF g
<1>5. Used(g, b) /\ Size(g, b) = Size(h, b)
  BY <1>2, <1>4 DEF Used, Size, n
<1>6. \A x \in D \ {b} : Size(g, x) = Size(h, x) /\ (Used(g, x) <=> Used(h, x))
  BY <1>4 DEF Used, Size
<1>7. QED
  BY <1>4, <1>5, <1>6 DEF g

LEMMA ClearIs ==
  ASSUME NEW D, NEW h \in [D -> Nat], NEW b \in D
  PROVE  /\ Clear(h, b) \in [D -> Nat] /\ ~Used(Clear(h, b), b)
         /\ \A x \in D : Size(Clear(h, b), x) = Size(h, x)
         /\ \A x \in D \ {b} : Used(Clear(h, b), x) <=> Used(h, x)
<1> DEFINE n == h[b]
           g == Clear(h, b)
<1>1. n \in Nat
  OBVIOUS
<1> HIDE DEF n
<1>2. n - (n % 2) \in Nat /\ (n - (n % 2)) % 2 = 0
  BY <1>1, BitOf
<1>3. g = [h EXCEPT ![b] = n - (n % 2)]
  BY DEF Clear, n
<1>4. /\ g \in [D -> Nat] /\ g[b] = n - (n % 2)
      /\ \A x \in D \ {b} : g[x] = h[x]
  BY <1>2, <1>3
<1> HIDE DEF g
<1>5. ~Used(g, b) /\ Size(g, b) = Size(h, b)
  <2>1. (n - (n % 2)) - 0 = n - (n % 2) /\ 0 # 1
    BY <1>2
  <2>2. QED
    BY <1>2, <1>4, <2>1 DEF Used, Size, n
<1>6. \A x \in D \ {b} : Size(g, x) = Size(h, x) /\ (Used(g, x) <=> Used(h, x))
  BY <1>4 DEF Used, Size
<1>7. QED
  BY <1>4, <1>5, <1>6 DEF g

-----------------------------------------------------------------------------
(* The free list: each block of S once, and its last one if that is set.   *)

Lists(list, S) ==
  /\ list.nodes \in Seq(Address) /\ ToSet(list.nodes) = S
  /\ \A i, j \in 1..Len(list.nodes) : list.nodes[i] = list.nodes[j] => i = j
  /\ list.last # Null => /\ Len(list.nodes) > 0
                         /\ list.last = list.nodes[Len(list.nodes)]

LEMMA SetOf ==
  ASSUME NEW S, NEW q \in Seq(S)
  PROVE  ToSet(q) = {q[i] : i \in 1..Len(q)} /\ DOMAIN q = 1..Len(q)
BY DEF ToSet

LEMMA DetachSpec ==
  ASSUME NEW list, NEW S, Lists(list, S), NEW b \in S
  PROVE  Lists(Detach(list, b), S \ {b})
<1> DEFINE q == list.nodes
           L == Len(q)
           i == CHOOSE k \in DOMAIN q : q[k] = b
           r == RemoveAt(q, i)
           last == IF i < L THEN list.last ELSE IF i = 1 THEN Null ELSE q[i - 1]
<1>1. /\ q \in Seq(Address) /\ L \in Nat /\ DOMAIN q = 1..L
      /\ ToSet(q) = S /\ S = {q[k] : k \in 1..L}
      /\ \A j, k \in 1..L : q[j] = q[k] => j = k
      /\ list.last # Null => L > 0 /\ list.last = q[L]
  <2>1. /\ q \in Seq(Address) /\ ToSet(q) = S
        /\ \A j, k \in 1..L : q[j] = q[k] => j = k
        /\ list.last # Null => L > 0 /\ list.last = q[L]
    BY DEF Lists
  <2>2. L \in Nat /\ DOMAIN q = 1..L /\ ToSet(q) = {q[k] : k \in 1..L}
    BY <2>1, SetOf
  <2>3. QED
    BY <2>1, <2>2
<1>2. i \in 1..L /\ q[i] = b
  BY <1>1
<1>3. Detach(list, b) = [nodes |-> r, last |-> last]
  BY DEF Detach
<1> HIDE DEF q, i, L
<1>4. /\ r \in Seq(Address) /\ Len(r) = L - 1
      /\ \A k \in 1..L - 1 : r[k] = IF k < i THEN q[k] ELSE q[k + 1]
  BY <1>1, <1>2, RemoveAtSpec DEF L
<1> HIDE DEF r
<1>5. ToSet(r) = {r[k] : k \in 1..L - 1}
  BY <1>4, SetOf
<1>6. ASSUME NEW k \in 1..L - 1 PROVE r[k] \in S \ {b}
  <2>1. CASE k < i
    <3>1. k \in 1..L /\ k # i
      BY <1>1, <2>1
    <3>2. QED
      BY <1>1, <1>2, <1>4, <2>1, <3>1
  <2>2. CASE ~(k < i)
    <3>1. k + 1 \in 1..L /\ k + 1 # i
      BY <1>1, <1>2, <2>2
    <3>2. QED
      BY <1>1, <1>2, <1>4, <2>2, <3>1
  <2>3. QED
    BY <2>1, <2>2
<1>7. ASSUME NEW x \in S \ {b} PROVE x \in ToSet(r)
  <2>1. PICK k \in 1..L : q[k] = x /\ k # i
    BY <1>1, <1>2
  <2>2. CASE k < i
    <3>1. k \in 1..L - 1
      BY <1>1, <1>2, <2>2
    <3>2. QED
      BY <1>4, <1>5, <2>1, <2>2, <3>1
  <2>3. CASE ~(k < i)
    <3>1. k - 1 \in 1..L - 1 /\ ~(k - 1 < i) /\ (k - 1) + 1 = k
      BY <1>1, <1>2, <2>1, <2>3
    <3>2. QED
      BY <1>4, <1>5, <2>1, <3>1
  <2>4. QED
    BY <2>2, <2>3
<1>8. ToSet(r) = S \ {b}
  BY <1>5, <1>6, <1>7
<1>9. ASSUME NEW j \in 1..L - 1, NEW k \in 1..L - 1, r[j] = r[k] PROVE j = k
  <2> DEFINE at(n) == IF n < i THEN n ELSE n + 1
  <2>1. at(j) \in 1..L /\ at(k) \in 1..L /\ (at(j) = at(k) => j = k)
    BY <1>1, <1>2
  <2>2. r[j] = q[at(j)] /\ r[k] = q[at(k)]
    BY <1>4
  <2> HIDE DEF at
  <2>3. QED
    BY <1>1, <1>9, <2>1, <2>2
<1>10. last # Null => Len(r) > 0 /\ last = r[Len(r)]
  <2>1. CASE i < L
    <3>1. /\ last = list.last /\ L - 1 \in 1..L - 1 /\ ~(L - 1 < i)
          /\ (L - 1) + 1 = L
      BY <1>1, <1>2, <2>1
    <3>2. r[L - 1] = q[L]
      BY <1>4, <3>1
    <3>3. QED
      BY <1>1, <1>4, <3>1, <3>2
  <2>2. CASE i = L /\ i # 1
    <3>1. last = q[L - 1] /\ L - 1 \in 1..L - 1 /\ L - 1 < i /\ L - 1 > 0
      BY <1>1, <1>2, <2>2
    <3>2. QED
      BY <1>4, <3>1
  <2>3. CASE i = L /\ i = 1
    BY <2>3
  <2>4. QED
    BY <1>1, <1>2, <2>1, <2>2, <2>3
<1> HIDE DEF last
<1>11. QED
  BY <1>3, <1>4, <1>8, <1>9, <1>10 DEF Lists

LEMMA GreatestIn ==
  ASSUME NEW n \in Nat, NEW T \in SUBSET (1..n), T # {}
  PROVE  \E k \in T : \A j \in T : j <= k
<1> DEFINE U == {n - k : k \in T}
<1>1. U \in SUBSET Nat /\ U # {}
  <2>1. \A k \in T : n - k \in Nat
    OBVIOUS
  <2>2. QED
    BY <2>1
<1>2. PICK u \in U : \A v \in U : u <= v
  BY <1>1, LeastNat
<1>3. PICK k \in T : u = n - k
  OBVIOUS
<1>4. ASSUME NEW j \in T PROVE j <= k
  <2>1. n - j \in U
    OBVIOUS
  <2>2. n - k <= n - j /\ j \in 1..n /\ k \in 1..n
    BY <1>2, <1>3, <2>1
  <2>3. QED
    BY <2>2
<1>5. QED
  BY <1>4

LEMMA InsertSpec ==
  ASSUME NEW list, NEW S, Lists(list, S), NEW h, NEW b \in Address, b \notin S
  PROVE  Lists(Insert(list, h, b), S \cup {b})
<1> DEFINE q == list.nodes
           L == Len(q)
           smaller == {k \in DOMAIN q : Size(h, q[k]) < Size(h, b)}
           at == IF list.last = Null \/ smaller = {} THEN 0
                 ELSE CHOOSE k \in smaller : \A j \in smaller : j <= k
           i == at + 1
           r == InsertAt(q, i, b)
           last == IF at > 0 /\ at = L THEN b ELSE list.last
<1>1. /\ q \in Seq(Address) /\ L \in Nat /\ DOMAIN q = 1..L
      /\ ToSet(q) = S /\ S = {q[k] : k \in 1..L}
      /\ \A j, k \in 1..L : q[j] = q[k] => j = k
      /\ list.last # Null => L > 0 /\ list.last = q[L]
  <2>1. /\ q \in Seq(Address) /\ ToSet(q) = S
        /\ \A j, k \in 1..L : q[j] = q[k] => j = k
        /\ list.last # Null => L > 0 /\ list.last = q[L]
    BY DEF Lists
  <2>2. L \in Nat /\ DOMAIN q = 1..L /\ ToSet(q) = {q[k] : k \in 1..L}
    BY <2>1, SetOf
  <2>3. QED
    BY <2>1, <2>2
<1>2. Insert(list, h, b) = [nodes |-> r, last |-> last]
  BY DEF Insert
<1>3. at \in 0..L
  <2>1. CASE list.last = Null \/ smaller = {}
    BY <1>1, <2>1
  <2>2. CASE ~(list.last = Null \/ smaller = {})
    <3>1. smaller \in SUBSET (1..L) /\ smaller # {}
      BY <1>1, <2>2
    <3> HIDE DEF smaller
    <3>2. \E k \in smaller : \A j \in smaller : j <= k
      BY <1>1, <3>1, GreatestIn
    <3>3. at \in smaller
      BY <2>2, <3>2
    <3> HIDE DEF at
    <3>4. at \in 1..L
      BY <3>1, <3>3
    <3>5. QED
      BY <1>1, <3>4
  <2>3. QED
    BY <2>1, <2>2
<1> HIDE DEF at
<1>4. i \in 1..L + 1
  BY <1>1, <1>3
<1> HIDE DEF q, L, i
<1>5. /\ r \in Seq(Address) /\ Len(r) = L + 1
      /\ \A k \in 1..L + 1 : r[k] = IF k < i THEN q[k]
                                    ELSE IF k = i THEN b ELSE q[k - 1]
  <2>1. i \in 1..(Len(q) + 1) /\ q \in Seq(Address)
    BY <1>1, <1>4 DEF L
  <2> HIDE DEF r
  <2>2. r = InsertAt(q, i, b)
    BY DEF r
  <2>3. /\ r \in Seq(Address) /\ Len(r) = Len(q) + 1
        /\ \A k \in 1..(Len(q) + 1) : r[k] = IF k < i THEN q[k]
                                             ELSE IF k = i THEN b ELSE q[k - 1]
    BY <2>1, <2>2, InsertAtSpec, SMTT(60)
  <2>4. QED
    BY <2>3 DEF L
<1> HIDE DEF r
<1>6. ToSet(r) = {r[k] : k \in 1..L + 1}
  BY <1>5, SetOf
<1>7. last # Null => Len(r) > 0 /\ last = r[Len(r)]
  <2>1. CASE at > 0 /\ at = L
    <3>1. L + 1 \in 1..L + 1 /\ ~(L + 1 < i) /\ L + 1 = i /\ L + 1 > 0
      BY <1>1, <1>4, <2>1 DEF i
    <3>2. QED
      BY <1>5, <2>1, <3>1
  <2>2. CASE ~(at > 0 /\ at = L)
    <3>1. last = list.last
      BY <2>2
    <3>2. ASSUME list.last # Null PROVE Len(r) > 0 /\ list.last = r[Len(r)]
      <4>1. L > 0 /\ list.last = q[L]
        BY <1>1, <3>2
      <4>2. L + 1 \in 1..L + 1 /\ ~(L + 1 < i) /\ L + 1 # i /\ (L + 1) - 1 = L
        BY <1>1, <1>3, <2>2, <4>1 DEF i
      <4>3. QED
        BY <1>1, <1>5, <4>1, <4>2
    <3>3. QED
      BY <3>1, <3>2
  <2>3. QED
    BY <2>1, <2>2
<1> HIDE DEF last
<1>8. ASSUME NEW k \in 1..L + 1 PROVE r[k] \in S \cup {b}
  <2>1. CASE k < i
    <3>1. k \in 1..L
      BY <1>1, <1>4, <2>1
    <3>2. QED
      BY <1>1, <1>5, <2>1, <3>1
  <2>2. CASE k > i
    <3>1. k - 1 \in 1..L /\ ~(k < i) /\ k # i
      BY <1>1, <1>4, <2>2
    <3>2. QED
      BY <1>1, <1>5, <3>1
  <2>3. CASE k = i
    <3>1. ~(k < i)
      BY <1>4, <2>3
    <3>2. QED
      BY <1>5, <2>3, <3>1
  <2>4. QED
    BY <1>4, <2>1, <2>2, <2>3
<1>9. b \in ToSet(r)
  <2>1. ~(i < i)
    BY <1>4
  <2>2. r[i] = b
    BY <1>4, <1>5, <2>1
  <2>3. QED
    BY <1>4, <1>6, <2>2
<1>10. ASSUME NEW x \in S PROVE x \in ToSet(r)
  <2>1. PICK k \in 1..L : q[k] = x
    BY <1>1
  <2>2. CASE k < i
    <3>1. k \in 1..L + 1
      BY <1>1
    <3>2. QED
      BY <1>5, <1>6, <2>1, <2>2, <3>1
  <2>3. CASE ~(k < i)
    <3>1. k + 1 \in 1..L + 1 /\ ~(k + 1 < i) /\ k + 1 # i /\ (k + 1) - 1 = k
      BY <1>1, <1>4, <2>3
    <3>2. QED
      BY <1>5, <1>6, <2>1, <3>1
  <2>4. QED
    BY <2>2, <2>3
<1>11. ToSet(r) = S \cup {b}
  BY <1>6, <1>8, <1>9, <1>10
<1>12. ASSUME NEW j \in 1..L + 1, NEW k \in 1..L + 1, r[j] = r[k] PROVE j = k
  <2> DEFINE of(n) == IF n < i THEN n ELSE n - 1
  <2>1. \A n \in 1..L + 1 : n # i => of(n) \in 1..L /\ r[n] = q[of(n)]
    <3>1. ASSUME NEW n \in 1..L + 1, n # i PROVE of(n) \in 1..L /\ r[n] = q[of(n)]
      <4>1. of(n) \in 1..L
        BY <1>1, <1>4, <3>1
      <4>2. QED
        BY <1>5, <3>1, <4>1
    <3>2. QED
      BY <3>1
  <2>2. \A n \in 1..L + 1 : n = i => r[n] = b
    <3>1. ~(i < i)
      BY <1>4
    <3>2. QED
      BY <1>5, <3>1
  <2>3. \A n \in 1..L : q[n] # b
    BY <1>1
  <2>4. CASE j # i /\ k # i
    <3>1. of(j) = of(k)
      <4> HIDE DEF of
      <4>1. QED
        BY <1>1, <1>12, <2>1, <2>4
    <3>2. QED
      BY <1>1, <1>4, <2>4, <3>1
  <2>5. CASE ~(j # i /\ k # i)
    <3> HIDE DEF of
    <3>1. QED
      BY <1>12, <2>1, <2>2, <2>3, <2>5
  <2>6. QED
    BY <2>4, <2>5
<1>13. QED
  BY <1>2, <1>5, <1>7, <1>11, <1>12 DEF Lists

-----------------------------------------------------------------------------
(* The chain ch of blocks, of sizes sz, fills the heap up to end.          *)

Tiled(ch, sz, end) ==
  /\ ch \in Seq(Address) /\ end \in Nat
  /\ \A i \in 1..Len(ch) : ch[i] \in Nat /\ sz[ch[i]] \in Nat
  /\ Len(ch) = 0 => end = 0
  /\ Len(ch) > 0 => ch[1] = 0
  /\ \A i \in 1..Len(ch) :
       ch[i] + Header + sz[ch[i]] = IF i = Len(ch) THEN end ELSE ch[i + 1]
  /\ \A i, j \in 1..Len(ch) : i < j => ch[i] + Header + sz[ch[i]] <= ch[j]
  /\ \A i \in 1..Len(ch) : ch[i] + Header + sz[ch[i]] <= end

LEMMA Distinct ==
  ASSUME NEW ch, NEW sz, NEW end, Tiled(ch, sz, end)
  PROVE  /\ Len(ch) \in Nat
         /\ \A i, j \in 1..Len(ch) : ch[i] = ch[j] => i = j
         /\ \A i \in 1..Len(ch) : ch[i] < end
<1>1. Len(ch) \in Nat
  BY DEF Tiled
<1>2. \A i, j \in 1..Len(ch) : i < j => ch[i] < ch[j]
  BY DEF Tiled, Header
<1>3. ASSUME NEW i \in 1..Len(ch), NEW j \in 1..Len(ch), ch[i] = ch[j] PROVE i = j
  <2>1. ch[i] \in Nat /\ ch[j] \in Nat
    BY DEF Tiled
  <2>2. ~(ch[i] < ch[j]) /\ ~(ch[j] < ch[i])
    BY <1>3, <2>1
  <2>3. ~(i < j) /\ ~(j < i)
    BY <1>2, <2>2
  <2>4. QED
    BY <2>3
<1>4. \A i \in 1..Len(ch) : ch[i] < end
  BY DEF Tiled, Header
<1>5. QED
  BY <1>1, <1>3, <1>4

(* A block at the end.                                                     *)
LEMMA AppendTiled ==
  ASSUME NEW ch, NEW sz, NEW end, Tiled(ch, sz, end), NEW n \in Nat,
         NEW z, z[end] = n, \A x \in ToSet(ch) : z[x] = sz[x]
  PROVE  /\ Tiled(Append(ch, end), z, end + Header + n)
         /\ end \notin ToSet(ch) /\ ToSet(Append(ch, end)) = ToSet(ch) \cup {end}
<1> DEFINE L == Len(ch)
           r == Append(ch, end)
           to == end + Header + n
<1>1. /\ ch \in Seq(Address) /\ L \in Nat /\ end \in Nat
      /\ \A i \in 1..L : ch[i] < end
  BY Distinct DEF Tiled
<1>2. ToSet(ch) = {ch[i] : i \in 1..L} /\ end \notin ToSet(ch)
  <2>1. ToSet(ch) = {ch[i] : i \in 1..L}
    BY <1>1, SetOf
  <2>2. \A i \in 1..L : ch[i] # end
    BY <1>1 DEF Tiled
  <2>3. QED
    BY <2>1, <2>2
<1>3. /\ r \in Seq(Address) /\ Len(r) = L + 1 /\ r[L + 1] = end
      /\ \A i \in 1..L : r[i] = ch[i]
  <2>1. end \in Address
    BY <1>1 DEF Address
  <2>2. QED
    BY <1>1, <2>1, AppendProperties
<1>4. \A i \in 1..L : /\ ch[i] \in Nat /\ sz[ch[i]] \in Nat /\ z[ch[i]] = sz[ch[i]]
                      /\ ch[i] + Header + sz[ch[i]] = IF i = L THEN end ELSE ch[i + 1]
                      /\ ch[i] + Header + sz[ch[i]] <= end
                      /\ \A j \in 1..L : i < j => ch[i] + Header + sz[ch[i]] <= ch[j]
  BY <1>2 DEF Tiled
<1>5. L = 0 => end = 0
  BY DEF Tiled
<1>6. L > 0 => ch[1] = 0
  BY DEF Tiled
<1>7. to \in Nat /\ end <= to /\ end + Header + n = to
  BY <1>1 DEF Header
<1> HIDE DEF L, r, to
<1>8. \A i \in 1..L + 1 : i # L + 1 => i \in 1..L
  BY <1>1
<1>9. ASSUME NEW i \in 1..L + 1
      PROVE  /\ r[i] \in Nat /\ z[r[i]] \in Nat
             /\ r[i] + Header + z[r[i]] = IF i = L + 1 THEN to ELSE r[i + 1]
             /\ r[i] + Header + z[r[i]] <= to
             /\ \A j \in 1..L + 1 : i < j => r[i] + Header + z[r[i]] <= r[j]
  <2>1. CASE i = L + 1
    <3>1. \A j \in 1..L + 1 : ~(i < j)
      BY <1>1, <2>1
    <3>2. r[i] = end /\ z[r[i]] = n
      BY <1>3, <2>1
    <3>3. QED
      BY <1>1, <1>7, <2>1, <3>1, <3>2
  <2>2. CASE i # L + 1
    <3>1. i \in 1..L /\ r[i] = ch[i] /\ z[r[i]] = sz[ch[i]]
      BY <1>3, <1>4, <1>8, <2>2
    <3>2. PICK e \in Nat : e = ch[i] + Header + sz[ch[i]] /\ e <= end
      BY <1>4, <3>1 DEF Header
    <3>3. e = r[i + 1]
      <4>1. CASE i = L
        BY <1>3, <1>4, <3>1, <3>2, <4>1
      <4>2. CASE i # L
        <5>1. i + 1 \in 1..L
          BY <1>1, <3>1, <4>2
        <5>2. QED
          BY <1>3, <1>4, <3>1, <3>2, <4>2, <5>1
      <4>3. QED
        BY <4>1, <4>2
    <3>4. ASSUME NEW j \in 1..L + 1, i < j PROVE e <= r[j]
      BY <1>3, <1>4, <1>8, <3>1, <3>2, <3>4
    <3>5. e <= to
      BY <1>1, <1>7, <3>2
    <3>6. QED
      BY <1>4, <2>2, <3>1, <3>2, <3>3, <3>4, <3>5
  <2>3. QED
    BY <2>1, <2>2
<1>10. Len(r) > 0 /\ r[1] = 0
  <2>1. CASE L = 0
    BY <1>3, <1>5, <2>1
  <2>2. CASE L > 0
    <3>1. 1 \in 1..L
      BY <1>1, <2>2
    <3>2. QED
      BY <1>1, <1>3, <1>6, <2>2, <3>1
  <2>3. QED
    BY <1>1, <2>1, <2>2
<1>11. Tiled(r, z, to)
  BY <1>3, <1>7, <1>9, <1>10 DEF Tiled
<1>12. ToSet(r) = ToSet(ch) \cup {end}
  <2>1. ToSet(r) = {r[i] : i \in 1..L + 1}
    BY <1>3, SetOf
  <2>2. L + 1 \in 1..L + 1 /\ \A i \in 1..L : i \in 1..L + 1
    BY <1>1
  <2>3. QED
    BY <1>2, <1>3, <1>8, <2>1, <2>2
<1>13. QED
  BY <1>2, <1>11, <1>12 DEF r, to

(* InsertAt, cell by cell, for an address that is computed.                *)
LEMMA InsertedIs ==
  \A q \in Seq(Address), e \in Address : \A k \in 1..(Len(q) + 1) :
    /\ InsertAt(q, k, e) \in Seq(Address)
    /\ Len(InsertAt(q, k, e)) = Len(q) + 1
    /\ \A i \in 1..(Len(q) + 1) : /\ i < k => InsertAt(q, k, e)[i] = q[i]
                                  /\ i = k => InsertAt(q, k, e)[i] = e
                                  /\ i > k => InsertAt(q, k, e)[i] = q[i - 1]
<1> SUFFICES ASSUME NEW q \in Seq(Address), NEW e \in Address, NEW k \in 1..(Len(q) + 1)
             PROVE  /\ InsertAt(q, k, e) \in Seq(Address)
                    /\ Len(InsertAt(q, k, e)) = Len(q) + 1
                    /\ \A i \in 1..(Len(q) + 1) :
                         /\ i < k => InsertAt(q, k, e)[i] = q[i]
                         /\ i = k => InsertAt(q, k, e)[i] = e
                         /\ i > k => InsertAt(q, k, e)[i] = q[i - 1]
  OBVIOUS
<1> DEFINE r == InsertAt(q, k, e)
<1>1. /\ r \in Seq(Address) /\ Len(r) = Len(q) + 1
      /\ \A i \in 1..(Len(q) + 1) :
           r[i] = IF i < k THEN q[i] ELSE IF i = k THEN e ELSE q[i - 1]
  BY InsertAtSpec
<1> HIDE DEF r
<1>2. \A i \in 1..(Len(q) + 1) :
        /\ i < k => r[i] = q[i]
        /\ i = k => r[i] = e
        /\ i > k => r[i] = q[i - 1]
  BY <1>1
<1>3. QED
  BY <1>1, <1>2 DEF r

(* A block becomes two: the ith, of n bytes, and other, of m.              *)
Splits(ch, sz, i, n, m, other, z) ==
  /\ sz[ch[i]] = n + Header + m /\ other = ch[i] + Header + n
  /\ z[ch[i]] = n /\ z[other] = m
  /\ \A x \in ToSet(ch) \ {ch[i], other} : z[x] = sz[x]

LEMMA SplitTiled ==
  ASSUME NEW ch, NEW sz, NEW end, Tiled(ch, sz, end), NEW i \in 1..Len(ch),
         NEW n \in Nat, NEW m \in Nat, NEW other, NEW z,
         Splits(ch, sz, i, n, m, other, z)
  PROVE  /\ Tiled(InsertAt(ch, i + 1, other), z, end)
         /\ other \in Nat /\ other \notin ToSet(ch)
         /\ ToSet(InsertAt(ch, i + 1, other)) = ToSet(ch) \cup {other}
<1> DEFINE L == Len(ch)
           r == InsertAt(ch, i + 1, other)
           of(k) == IF k <= i THEN k ELSE k - 1
           to(k) == ch[k] + Header + sz[ch[k]]
<1>a. /\ sz[ch[i]] = n + Header + m /\ other = ch[i] + Header + n
      /\ z[ch[i]] = n /\ z[other] = m
      /\ \A x \in ToSet(ch) \ {ch[i], other} : z[x] = sz[x]
  BY DEF Splits
<1>1. /\ ch \in Seq(Address) /\ L \in Nat /\ end \in Nat /\ i \in 1..L
      /\ \A j, k \in 1..L : ch[j] = ch[k] => j = k
      /\ ToSet(ch) = {ch[k] : k \in 1..L}
  <2>1. ch \in Seq(Address) /\ end \in Nat
    BY DEF Tiled
  <2>2. QED
    BY <2>1, Distinct, SetOf
<1>2. \A k \in 1..L : /\ ch[k] \in Nat /\ sz[ch[k]] \in Nat
                      /\ to(k) = IF k = L THEN end ELSE ch[k + 1]
                      /\ to(k) <= end
                      /\ \A j \in 1..L : k < j => to(k) <= ch[j]
  BY DEF Tiled
<1>3. L > 0 => ch[1] = 0
  BY DEF Tiled
<1>4. ASSUME NEW k \in 1..L PROVE to(k) \in Nat /\ ch[k] <= to(k)
  <2>1. ch[k] \in Nat /\ sz[ch[k]] \in Nat
    BY <1>2
  <2>2. QED
    BY <2>1 DEF Header
<1>5. /\ other \in Nat /\ other = ch[i] + Header + n
      /\ ch[i] < other /\ other < to(i) /\ to(i) = other + Header + m
  <2>1. ch[i] \in Nat /\ to(i) = ch[i] + Header + (n + Header + m)
    BY <1>1, <1>2, <1>a
  <2> HIDE DEF to
  <2>2. QED
    BY <1>a, <2>1 DEF Header
<1>7. ASSUME NEW k \in 1..L PROVE ch[k] # other
  <2>1. CASE k < i
    <3>1. to(k) <= ch[i]
      BY <1>1, <1>2, <2>1
    <3>2. ch[k] <= to(k) /\ to(k) \in Nat /\ ch[k] \in Nat /\ ch[i] \in Nat
      BY <1>1, <1>2, <1>4
    <3>3. QED
      BY <1>5, <3>1, <3>2
  <2>2. CASE k = i
    BY <1>1, <1>2, <1>5, <2>2
  <2>3. CASE i < k
    <3>1. to(i) <= ch[k]
      BY <1>1, <1>2, <2>3
    <3>2. ch[k] \in Nat /\ to(i) \in Nat /\ i \in 1..L
      BY <1>1, <1>2, <1>4
    <3>3. QED
      BY <1>5, <3>1, <3>2
  <2>4. QED
    BY <1>1, <2>1, <2>2, <2>3
<1>6. \A k \in 1..L : k # i => z[ch[k]] = sz[ch[k]]
  BY <1>1, <1>7, <1>a
<1>8. other \notin ToSet(ch)
  BY <1>1, <1>7
<1>9. /\ r \in Seq(Address) /\ Len(r) = L + 1
      /\ \A k \in 1..L + 1 : r[k] = IF k < i + 1 THEN ch[k]
                                    ELSE IF k = i + 1 THEN other ELSE ch[k - 1]
  <2>1. other \in Address /\ i + 1 \in 1..(Len(ch) + 1)
    BY <1>1, <1>5 DEF Address
  <2> HIDE DEF r
  <2>2. r = InsertAt(ch, i + 1, other)
    BY DEF r
  <2>3. /\ r \in Seq(Address) /\ Len(r) = Len(ch) + 1
        /\ \A k \in 1..(Len(ch) + 1) : r[k] = IF k < i + 1 THEN ch[k]
                                              ELSE IF k = i + 1 THEN other ELSE ch[k - 1]
    <3>1. \A e \in Address :
            /\ InsertAt(ch, i + 1, e) \in Seq(Address)
            /\ Len(InsertAt(ch, i + 1, e)) = Len(ch) + 1
            /\ \A k \in 1..(Len(ch) + 1) :
                 /\ k < i + 1 => InsertAt(ch, i + 1, e)[k] = ch[k]
                 /\ k = i + 1 => InsertAt(ch, i + 1, e)[k] = e
                 /\ k > i + 1 => InsertAt(ch, i + 1, e)[k] = ch[k - 1]
      BY <1>1, <2>1, InsertedIs
    <3>2. /\ r \in Seq(Address) /\ Len(r) = Len(ch) + 1
          /\ \A k \in 1..(Len(ch) + 1) : /\ k < i + 1 => r[k] = ch[k]
                                         /\ k = i + 1 => r[k] = other
                                         /\ k > i + 1 => r[k] = ch[k - 1]
      BY <2>1, <2>2, <3>1
    <3>3. \A k \in 1..(Len(ch) + 1) : k < i + 1 \/ k = i + 1 \/ k > i + 1
      BY <1>1
    <3>4. QED
      BY <3>2, <3>3
  <2>4. QED
    BY <2>3
<1> HIDE DEF L, r, to
<1>10. ASSUME NEW k \in 1..L + 1
       PROVE  /\ of(k) \in 1..L
              /\ k = i + 1 => r[k] = other /\ z[r[k]] = m /\ of(k) = i
              /\ k = i => r[k] = ch[i] /\ z[r[k]] = n /\ of(k) = i
              /\ k # i /\ k # i + 1 =>
                   r[k] = ch[of(k)] /\ z[r[k]] = sz[ch[of(k)]] /\ of(k) # i
  <2>1. CASE k < i
    <3>1. k \in 1..L /\ of(k) = k /\ k < i + 1 /\ k # i
      BY <1>1, <2>1
    <3>2. QED
      BY <1>1, <1>6, <1>9, <3>1
  <2>2. CASE k = i
    <3>1. of(k) = i /\ k < i + 1
      BY <1>1, <2>2
    <3>2. QED
      BY <1>1, <1>9, <1>a, <2>2, <3>1
  <2>3. CASE k = i + 1
    <3>1. of(k) = i /\ ~(k < i + 1) /\ k # i
      BY <1>1, <2>3
    <3>2. QED
      BY <1>1, <1>9, <1>a, <2>3, <3>1
  <2>4. CASE k > i + 1
    <3>1. of(k) = k - 1 /\ k - 1 \in 1..L /\ ~(k < i + 1) /\ k - 1 # i
          /\ k # i + 1 /\ k # i
      BY <1>1, <2>4
    <3>2. QED
      BY <1>1, <1>6, <1>9, <3>1
  <2>5. QED
    BY <1>1, <2>1, <2>2, <2>3, <2>4
<1>11. ASSUME NEW k \in 1..L + 1
       PROVE  /\ r[k] \in Nat /\ z[r[k]] \in Nat /\ ch[of(k)] <= r[k]
              /\ r[k] + Header + z[r[k]] <= to(of(k))
              /\ k = i => r[k] + Header + z[r[k]] = other
              /\ k # i => r[k] + Header + z[r[k]] = to(of(k))
  <2>1. CASE k = i
    BY <1>1, <1>2, <1>5, <1>10, <2>1 DEF Header
  <2>2. CASE k = i + 1
    <3>1. k # i
      BY <1>1, <2>2
    <3>2. QED
      BY <1>1, <1>2, <1>4, <1>5, <1>10, <2>2, <3>1
  <2>3. CASE k # i /\ k # i + 1
    <3>1. of(k) \in 1..L /\ r[k] = ch[of(k)] /\ z[r[k]] = sz[ch[of(k)]]
      BY <1>10, <2>3
    <3> HIDE DEF of
    <3>2. QED
      BY <1>2, <1>4, <2>3, <3>1 DEF to
  <2>4. QED
    BY <2>1, <2>2, <2>3
<1>12. ASSUME NEW k \in 1..L + 1
       PROVE  r[k] + Header + z[r[k]] = IF k = L + 1 THEN end ELSE r[k + 1]
  <2>1. CASE k = i
    <3>1. i + 1 \in 1..L + 1 /\ i # L + 1
      BY <1>1
    <3>2. r[i + 1] = other
      BY <1>10, <3>1
    <3>3. QED
      BY <1>11, <2>1, <3>1, <3>2
  <2>2. CASE k # i
    <3>1. of(k) \in 1..L /\ r[k] + Header + z[r[k]] = to(of(k))
      BY <1>10, <1>11, <2>2
    <3>2. to(of(k)) = IF of(k) = L THEN end ELSE ch[of(k) + 1]
      <4> HIDE DEF of
      <4>1. QED
        BY <1>2, <3>1
    <3>3. CASE k = L + 1
      <4>1. of(k) = L
        BY <1>1, <3>3
      <4>2. QED
        BY <3>1, <3>2, <3>3, <4>1
    <3>4. CASE k # L + 1
      <4>1. k + 1 \in 1..L + 1 /\ of(k) # L /\ of(k + 1) = of(k) + 1
            /\ k + 1 # i + 1
        <5>1. L \in Nat /\ i \in 1..L
          BY <1>1
        <5>2. QED
          BY <2>2, <3>4, <5>1
      <4>2. r[k + 1] = ch[of(k + 1)]
        <5>1. CASE k + 1 = i
          BY <1>1, <1>10, <4>1, <5>1
        <5>2. CASE k + 1 # i
          <6> HIDE DEF of
          <6>1. QED
            BY <1>10, <4>1, <5>2
        <5>3. QED
          BY <5>1, <5>2
      <4> HIDE DEF of
      <4>3. QED
        BY <3>1, <3>2, <3>4, <4>1, <4>2
    <3>5. QED
      BY <3>3, <3>4
  <2>3. QED
    BY <2>1, <2>2
<1>13. ASSUME NEW j \in 1..L + 1, NEW k \in 1..L + 1, j < k
       PROVE  r[j] + Header + z[r[j]] <= r[k]
  <2>1. of(j) \in 1..L /\ of(k) \in 1..L
    BY <1>10
  <2>2. CASE of(j) < of(k)
    <3> HIDE DEF of
    <3>1. /\ r[j] + Header + z[r[j]] <= to(of(j)) /\ to(of(j)) <= ch[of(k)]
          /\ ch[of(k)] <= r[k]
      BY <1>2, <1>11, <2>1, <2>2
    <3>2. /\ to(of(j)) \in Nat /\ ch[of(k)] \in Nat /\ r[k] \in Nat
          /\ r[j] \in Nat /\ z[r[j]] \in Nat
      BY <1>2, <1>4, <1>11, <2>1
    <3> HIDE DEF to, r
    <3>3. QED
      BY <3>1, <3>2 DEF Header
  <2>3. CASE ~(of(j) < of(k))
    <3>1. j = i /\ k = i + 1
      BY <1>1, <1>13, <2>3
    <3>2. r[k] = other /\ r[j] + Header + z[r[j]] = other
      BY <1>10, <1>11, <3>1
    <3>3. QED
      BY <1>5, <3>2
  <2>4. QED
    BY <2>2, <2>3
<1>14. ASSUME NEW k \in 1..L + 1 PROVE r[k] + Header + z[r[k]] <= end
  <2>1. of(k) \in 1..L
    BY <1>10
  <2> HIDE DEF of
  <2>2. /\ r[k] + Header + z[r[k]] <= to(of(k)) /\ to(of(k)) <= end
        /\ to(of(k)) \in Nat /\ r[k] \in Nat /\ z[r[k]] \in Nat
    BY <1>2, <1>4, <1>11, <2>1
  <2>3. QED
    BY <1>1, <2>2 DEF Header
<1>15. r[1] = 0 /\ Len(r) > 0
  <2>1. 1 \in 1..L + 1 /\ 1 < i + 1 /\ L > 0
    BY <1>1
  <2>2. QED
    BY <1>1, <1>3, <1>9, <2>1
<1>16. Tiled(r, z, end)
  <2>1. \A k \in 1..L + 1 : r[k] \in Nat /\ z[r[k]] \in Nat
    BY <1>11
  <2>2. Len(r) = L + 1 /\ Len(r) # 0 /\ r \in Seq(Address) /\ end \in Nat
    BY <1>1, <1>9, <1>15
  <2> HIDE DEF of
  <2>3. QED
    BY <1>12, <1>13, <1>14, <1>15, <2>1, <2>2 DEF Tiled
<1>17. ToSet(r) = ToSet(ch) \cup {other}
  <2>1. ToSet(r) = {r[k] : k \in 1..L + 1}
    BY <1>9, SetOf
  <2>2. ASSUME NEW k \in 1..L + 1 PROVE r[k] \in ToSet(ch) \cup {other}
    <3>1. of(k) \in 1..L
      BY <1>10
    <3>2. of(k) \in 1..L => ch[of(k)] \in ToSet(ch)
      BY <1>1
    <3>3. ch[i] \in ToSet(ch)
      BY <1>1
    <3> HIDE DEF of
    <3>4. QED
      BY <1>10, <3>1, <3>2, <3>3
  <2>3. ASSUME NEW k \in 1..L PROVE ch[k] \in ToSet(r)
    <3>1. CASE k < i + 1
      <4>1. k \in 1..L + 1
        BY <1>1
      <4>2. QED
        BY <1>9, <2>1, <3>1, <4>1
    <3>2. CASE ~(k < i + 1)
      <4>1. k + 1 \in 1..L + 1 /\ ~(k + 1 < i + 1) /\ k + 1 # i + 1
            /\ (k + 1) - 1 = k
        BY <1>1, <3>2
      <4>2. QED
        BY <1>9, <2>1, <4>1
    <3>3. QED
      BY <3>1, <3>2
  <2>4. other \in ToSet(r)
    <3>1. i + 1 \in 1..L + 1
      BY <1>1
    <3>2. r[i + 1] = other
      BY <1>10, <3>1
    <3>3. QED
      BY <2>1, <3>1, <3>2
  <2>5. \A x \in ToSet(r) : x \in ToSet(ch) \cup {other}
    BY <2>1, <2>2
  <2>6. \A x \in ToSet(ch) : x \in ToSet(r)
    BY <1>1, <2>3
  <2>7. QED
    BY <2>4, <2>5, <2>6
<1>18. QED
  BY <1>5, <1>8, <1>16, <1>17 DEF r

(* Two neighbours become one block.                                        *)
LEMMA JoinTiled ==
  ASSUME NEW ch, NEW sz, NEW end, Tiled(ch, sz, end), NEW i \in 2..Len(ch),
         NEW z, z[ch[i - 1]] = sz[ch[i - 1]] + Header + sz[ch[i]],
         \A x \in ToSet(ch) \ {ch[i - 1], ch[i]} : z[x] = sz[x]
  PROVE  /\ Tiled(RemoveAt(ch, i), z, end)
         /\ ToSet(RemoveAt(ch, i)) = ToSet(ch) \ {ch[i]}
<1> DEFINE L == Len(ch)
           r == RemoveAt(ch, i)
           of(k) == IF k < i THEN k ELSE k + 1
           lastOf(k) == IF k < i - 1 THEN k ELSE k + 1
           to(k) == ch[k] + Header + sz[ch[k]]
<1>1. /\ ch \in Seq(Address) /\ L \in Nat /\ end \in Nat /\ i \in 2..L
      /\ \A j, k \in 1..L : ch[j] = ch[k] => j = k
      /\ ToSet(ch) = {ch[k] : k \in 1..L}
  <2>1. ch \in Seq(Address) /\ end \in Nat
    BY DEF Tiled
  <2>2. QED
    BY <2>1, Distinct, SetOf
<1>2. \A k \in 1..L : /\ ch[k] \in Nat /\ sz[ch[k]] \in Nat
                      /\ to(k) = IF k = L THEN end ELSE ch[k + 1]
                      /\ to(k) <= end
                      /\ \A j \in 1..L : k < j => to(k) <= ch[j]
  BY DEF Tiled
<1>3. L > 0 => ch[1] = 0
  BY DEF Tiled
<1> HIDE DEF L, r, to
<1>a. L \in Nat /\ i \in 2..L
  BY <1>1
<1>4. i - 1 \in 1..L /\ i \in 1..L /\ i # L + 1 /\ i - 1 # L /\ (i - 1) + 1 = i
  BY <1>a
<1>5. /\ \A k \in 1..L : k # i - 1 /\ k # i => z[ch[k]] = sz[ch[k]]
      /\ to(i - 1) = ch[i] /\ z[ch[i - 1]] \in Nat
      /\ ch[i - 1] + Header + z[ch[i - 1]] = to(i)
  <2>1. \A k \in 1..L : k # i - 1 /\ k # i => z[ch[k]] = sz[ch[k]]
    BY <1>1, <1>4
  <2>2. to(i - 1) = ch[i]
    BY <1>2, <1>4
  <2>3. /\ ch[i - 1] \in Nat /\ ch[i] \in Nat
        /\ sz[ch[i - 1]] \in Nat /\ sz[ch[i]] \in Nat
    BY <1>2, <1>4
  <2>4. /\ z[ch[i - 1]] \in Nat
        /\ ch[i - 1] + Header + z[ch[i - 1]] = to(i)
    <3> DEFINE p == ch[i - 1]
               q == ch[i]
    <3>1. z[p] = sz[p] + Header + sz[q] /\ p + Header + sz[p] = q
      BY <2>2 DEF to
    <3>2. to(i) = q + Header + sz[q]
      BY DEF to
    <3>3. p \in Nat /\ q \in Nat /\ sz[p] \in Nat /\ sz[q] \in Nat
      BY <2>3
    <3>4. ASSUME NEW x \in Nat, NEW y \in Nat, NEW u \in Nat, NEW v \in Nat,
                 x + Header + u = y
          PROVE  /\ u + Header + v \in Nat
                 /\ x + Header + (u + Header + v) = y + Header + v
      BY <3>4 DEF Header
    <3>5. /\ sz[p] + Header + sz[q] \in Nat
          /\ p + Header + (sz[p] + Header + sz[q]) = q + Header + sz[q]
      <4> HIDE DEF p, q
      <4>1. QED
        BY <3>1, <3>3, <3>4
    <3>6. QED
      BY <3>1, <3>2, <3>5
  <2>5. QED
    BY <2>1, <2>2, <2>4
<1>6. /\ r \in Seq(Address) /\ Len(r) = L - 1
      /\ \A k \in 1..L - 1 : r[k] = IF k < i THEN ch[k] ELSE ch[k + 1]
  BY <1>1, <1>4, RemoveAtSpec DEF L, r
<1>7. ASSUME NEW k \in 1..L - 1
      PROVE  /\ of(k) \in 1..L /\ lastOf(k) \in 1..L /\ of(k) # i
             /\ r[k] = ch[of(k)] /\ r[k] \in Nat
             /\ k < L - 1 => /\ lastOf(k) # L /\ lastOf(k) + 1 = of(k + 1)
                             /\ k + 1 \in 1..L - 1
             /\ ~(k < L - 1) => lastOf(k) = L
             /\ \A j \in 1..L - 1 : k < j => lastOf(k) < of(j)
  <2>1. /\ of(k) \in 1..L /\ lastOf(k) \in 1..L /\ of(k) # i
        /\ k < L - 1 => /\ lastOf(k) # L /\ lastOf(k) + 1 = of(k + 1)
                        /\ k + 1 \in 1..L - 1
        /\ ~(k < L - 1) => lastOf(k) = L
        /\ \A j \in 1..L - 1 : k < j => lastOf(k) < of(j)
    BY <1>1
  <2>2. r[k] = ch[of(k)]
    BY <1>6
  <2>3. r[k] \in Nat
    <3> HIDE DEF of, lastOf
    <3>1. QED
      BY <1>2, <2>1, <2>2
  <2>4. QED
    BY <2>1, <2>2, <2>3
<1>8. ASSUME NEW k \in 1..L - 1
      PROVE  z[r[k]] \in Nat /\ r[k] + Header + z[r[k]] = to(lastOf(k))
  <2>1. CASE k = i - 1
    <3>1. of(k) = i - 1 /\ lastOf(k) = i
      BY <1>1, <2>1
    <3>2. r[k] = ch[i - 1]
      BY <1>7, <3>1
    <3>3. QED
      BY <1>5, <3>1, <3>2
  <2>2. CASE k # i - 1
    <3>1. of(k) = lastOf(k) /\ of(k) # i - 1
      BY <1>1, <2>2
    <3>2. of(k) \in 1..L /\ of(k) # i /\ r[k] = ch[of(k)]
      BY <1>7
    <3> HIDE DEF of, lastOf
    <3>3. z[r[k]] = sz[ch[of(k)]]
      BY <1>5, <3>1, <3>2
    <3>4. QED
      BY <1>2, <3>1, <3>2, <3>3 DEF to
  <2>3. QED
    BY <2>1, <2>2
<1> HIDE DEF of, lastOf
<1>9. ASSUME NEW k \in 1..L - 1
      PROVE  r[k] + Header + z[r[k]] = IF k = L - 1 THEN end ELSE r[k + 1]
  <2>1. CASE k = L - 1
    <3>1. lastOf(k) = L /\ L \in 1..L
      BY <1>1, <1>7, <2>1
    <3>2. QED
      BY <1>2, <1>8, <2>1, <3>1
  <2>2. CASE k # L - 1
    <3>1. k < L - 1 /\ k + 1 \in 1..L - 1
      BY <1>a, <2>2
    <3>2. lastOf(k) # L /\ lastOf(k) + 1 = of(k + 1) /\ lastOf(k) \in 1..L
      BY <1>7, <3>1
    <3>3. r[k + 1] = ch[of(k + 1)]
      BY <1>7, <3>1
    <3>4. QED
      BY <1>2, <1>8, <2>2, <3>2, <3>3
  <2>3. QED
    BY <2>1, <2>2
<1>10. ASSUME NEW j \in 1..L - 1, NEW k \in 1..L - 1, j < k
       PROVE  r[j] + Header + z[r[j]] <= r[k]
  <2>1. lastOf(j) < of(k) /\ lastOf(j) \in 1..L /\ of(k) \in 1..L /\ r[k] = ch[of(k)]
    BY <1>7, <1>10
  <2>2. QED
    BY <1>2, <1>8, <2>1
<1>11. \A k \in 1..L - 1 : r[k] + Header + z[r[k]] <= end
  BY <1>2, <1>7, <1>8
<1>12. r[1] = 0 /\ L - 1 > 0
  <2>1. 1 \in 1..L - 1 /\ 1 < i /\ L > 0 /\ L - 1 > 0
    BY <1>1
  <2>2. r[1] = ch[1]
    BY <1>6, <2>1
  <2>3. QED
    BY <1>3, <2>1, <2>2
<1>13. Tiled(r, z, end)
  <2>1. \A k \in 1..L - 1 : r[k] \in Nat /\ z[r[k]] \in Nat
    BY <1>7, <1>8
  <2>2. Len(r) = L - 1 /\ Len(r) # 0 /\ r \in Seq(Address) /\ end \in Nat
    BY <1>1, <1>6, <1>12
  <2>3. QED
    BY <1>9, <1>10, <1>11, <1>12, <2>1, <2>2 DEF Tiled
<1>14. ToSet(r) = ToSet(ch) \ {ch[i]}
  <2>1. ToSet(r) = {r[k] : k \in 1..L - 1}
    BY <1>6, SetOf
  <2>2. ASSUME NEW k \in 1..L - 1 PROVE r[k] \in ToSet(ch) \ {ch[i]}
    <3>1. of(k) \in 1..L /\ of(k) # i /\ r[k] = ch[of(k)]
      BY <1>7
    <3>2. QED
      BY <1>1, <1>4, <3>1
  <2>3. ASSUME NEW k \in 1..L, k # i PROVE ch[k] \in ToSet(r)
    <3>1. CASE k < i
      <4>1. k \in 1..L - 1
        BY <1>1, <3>1
      <4>2. QED
        BY <1>6, <2>1, <3>1, <4>1
    <3>2. CASE ~(k < i)
      <4>1. k - 1 \in 1..L - 1 /\ ~(k - 1 < i) /\ (k - 1) + 1 = k
        BY <1>1, <2>3, <3>2
      <4>2. QED
        BY <1>6, <2>1, <4>1
    <3>3. QED
      BY <3>1, <3>2
  <2>4. \A x \in ToSet(r) : x \in ToSet(ch) \ {ch[i]}
    BY <2>1, <2>2
  <2>5. \A x \in ToSet(ch) \ {ch[i]} : x \in ToSet(r)
    BY <1>1, <1>4, <2>3
  <2>6. QED
    BY <2>4, <2>5
<1>15. QED
  BY <1>13, <1>14 DEF r

-----------------------------------------------------------------------------
(* The heap as a value: h are its head words.                              *)

Sizes(h) == [b \in DOMAIN h |-> Size(h, b)]
FreeOf(ch, h) == {b \in ToSet(ch) : ~Used(h, b)}

Shape(end, h, ch, list) ==
  /\ end \in Nat /\ end <= HeapSize
  /\ h \in [ToSet(ch) -> Nat]
  /\ Tiled(ch, Sizes(h), end)
  /\ Lists(list, FreeOf(ch, h))

\* Nothing changes of the blocks in D.
Same(g, h, D) == \A x \in D : /\ Size(g, x) = Size(h, x)
                              /\ Used(g, x) <=> Used(h, x)

\* Marks and free lists do not matter to the tiling.
LEMMA RetaggedTiled ==
  ASSUME NEW ch, NEW end, NEW h, NEW g, Tiled(ch, Sizes(h), end),
         DOMAIN h = ToSet(ch), DOMAIN g = ToSet(ch),
         \A x \in ToSet(ch) : Size(g, x) = Size(h, x)
  PROVE  Tiled(ch, Sizes(g), end)
<1>1. Sizes(g) = Sizes(h)
  BY DEF Sizes
<1>2. QED
  BY <1>1

LEMMA BlockIs ==
  ASSUME NEW end, NEW h, NEW ch, NEW list, Shape(end, h, ch, list)
  PROVE  /\ DOMAIN h = ToSet(ch)
         /\ \A b \in ToSet(ch) :
              /\ h[b] \in Nat /\ b \in Nat /\ b \in Address
              /\ Size(h, b) \in Nat /\ Sizes(h)[b] = Size(h, b)
              /\ \E i \in 1..Len(ch) : ch[i] = b
         /\ \A i \in 1..Len(ch) : ch[i] \in ToSet(ch)
<1>1. /\ h \in [ToSet(ch) -> Nat] /\ Tiled(ch, Sizes(h), end)
      /\ ch \in Seq(Address)
  BY DEF Shape, Tiled
<1>2. ToSet(ch) = {ch[i] : i \in 1..Len(ch)}
  BY <1>1, SetOf
<1>3. ASSUME NEW b \in ToSet(ch)
      PROVE  /\ h[b] \in Nat /\ b \in Nat /\ b \in Address
             /\ Size(h, b) \in Nat /\ Sizes(h)[b] = Size(h, b)
             /\ \E i \in 1..Len(ch) : ch[i] = b
  <2>1. h[b] \in Nat /\ b \in DOMAIN h
    BY <1>1
  <2>2. Size(h, b) \in Nat
    BY <2>1, SizeIs
  <2>3. Sizes(h)[b] = Size(h, b)
    BY <2>1 DEF Sizes
  <2>4. PICK i \in 1..Len(ch) : ch[i] = b
    BY <1>2
  <2>5. b \in Nat
    BY <1>1, <2>4 DEF Tiled
  <2>6. QED
    BY <2>1, <2>2, <2>3, <2>4, <2>5 DEF Address
<1>4. QED
  BY <1>1, <1>2, <1>3

LEMMA TakeShape ==
  ASSUME NEW end, NEW h, NEW ch, NEW list, Shape(end, h, ch, list),
         NEW b \in ToSet(ch), ~Used(h, b)
  PROVE  /\ Shape(end, Mark(h, b), ch, Detach(list, b))
         /\ Same(Mark(h, b), h, ToSet(ch) \ {b})
         /\ Used(Mark(h, b), b) /\ Size(Mark(h, b), b) = Size(h, b)
<1> DEFINE g == Mark(h, b)
<1>1. /\ h \in [ToSet(ch) -> Nat] /\ Tiled(ch, Sizes(h), end)
      /\ Lists(list, FreeOf(ch, h))
  BY DEF Shape
<1>2. /\ g \in [ToSet(ch) -> Nat] /\ Used(g, b)
      /\ \A x \in ToSet(ch) : Size(g, x) = Size(h, x)
      /\ \A x \in ToSet(ch) \ {b} : Used(g, x) <=> Used(h, x)
  BY <1>1, MarkIs
<1> HIDE DEF g
<1>3. Tiled(ch, Sizes(g), end)
  BY <1>1, <1>2, RetaggedTiled
<1>4. FreeOf(ch, g) = FreeOf(ch, h) \ {b} /\ b \in FreeOf(ch, h)
  BY <1>2 DEF FreeOf
<1>5. Lists(Detach(list, b), FreeOf(ch, g))
  BY <1>1, <1>4, DetachSpec
<1>6. Shape(end, g, ch, Detach(list, b))
  BY <1>2, <1>3, <1>5 DEF Shape
<1>7. QED
  BY <1>2, <1>6 DEF Same, g

\* A block is given back, or a free one is marked as free again.
LEMMA GiveShape ==
  ASSUME NEW end, NEW h, NEW ch, NEW list, NEW b \in ToSet(ch),
         end \in Nat, end <= HeapSize, h \in [ToSet(ch) -> Nat],
         Tiled(ch, Sizes(h), end), Lists(list, FreeOf(ch, h) \ {b})
  PROVE  /\ Shape(end, Clear(h, b), ch, Insert(list, Clear(h, b), b))
         /\ Same(Clear(h, b), h, ToSet(ch) \ {b})
<1> DEFINE g == Clear(h, b)
<1>1. /\ g \in [ToSet(ch) -> Nat] /\ ~Used(g, b)
      /\ \A x \in ToSet(ch) : Size(g, x) = Size(h, x)
      /\ \A x \in ToSet(ch) \ {b} : Used(g, x) <=> Used(h, x)
  BY ClearIs
<1> HIDE DEF g
<1>2. Tiled(ch, Sizes(g), end)
  BY <1>1, RetaggedTiled
<1>3. FreeOf(ch, g) = (FreeOf(ch, h) \ {b}) \cup {b}
  BY <1>1 DEF FreeOf
<1>4. b \in Address
  <2>1. ch \in Seq(Address)
    BY DEF Tiled
  <2>2. ToSet(ch) = {ch[i] : i \in 1..Len(ch)}
    BY <2>1, SetOf
  <2>3. QED
    BY <2>1, <2>2
<1>5. Lists(Insert(list, g, b), FreeOf(ch, g))
  BY <1>3, <1>4, InsertSpec
<1>6. Shape(end, g, ch, Insert(list, g, b))
  BY <1>1, <1>2, <1>5 DEF Shape
<1>7. QED
  BY <1>1, <1>6 DEF Same, g

\* The head words that extend_heap, split and merge compute.
Extended(h, end, n) ==
  [b \in DOMAIN h \cup {end} |->
     IF b = end THEN Word(n + Header) - Header ELSE h[b]]

IsAt(ch, i, b) == i \in 1..Len(ch) /\ b = ch[i]
Other(b, n) == b + Header + Word(n)
Splittable(h, b, n) == Size(h, b) >= MinSplitDelta + n

Divided(h, b, n) ==
  [x \in DOMAIN h \cup {Other(b, n)} |->
     CASE x = b -> Word(n)
       [] x = Other(b, n) -> h[b] - Word(n) - Header
       [] OTHER -> h[x]]

AreAt(ch, i, left, b) == i \in 2..Len(ch) /\ left = ch[i - 1] /\ b = ch[i]

Joined(h, left, b) ==
  [x \in DOMAIN h \ {b} |->
     IF x = left THEN h[left] + Header + h[b] ELSE h[x]]

LEMMA ExtendShape ==
  ASSUME NEW end, NEW h, NEW ch, NEW list, Shape(end, h, ch, list),
         NEW n \in Nat, end + Word(n + Header) <= HeapSize,
         NEW hn, hn = Extended(h, end, n)
  PROVE  /\ Shape(end + Word(n + Header), Mark(hn, end), Append(ch, end), list)
         /\ Same(Mark(hn, end), h, ToSet(ch))
         /\ ToSet(Append(ch, end)) = ToSet(ch) \cup {end} /\ end \notin ToSet(ch)
         /\ Used(Mark(hn, end), end) /\ Size(Mark(hn, end), end) >= n
<1> DEFINE m == Word(n + Header) - Header
           w == Word(n + Header)
           g == Mark(hn, end)
<1>1. w \in Nat /\ m \in Nat /\ m >= n /\ w = m + Header /\ w % 2 = 0
  <2>1. n + Header \in Nat
    BY DEF Header
  <2>2. w \in Nat /\ n + Header <= w /\ w % 2 = 0
    BY <2>1, WordIs
  <2>3. QED
    <3> HIDE DEF w
    <3>1. w - Header \in Nat /\ w - Header >= n /\ w = (w - Header) + Header
      BY <2>2 DEF Header
    <3>2. QED
      BY <2>2, <3>1 DEF w
<1>2. m % 2 = 0
  <2>1. Header \in Nat /\ Header % 2 = 0
    BY DEF Header
  <2>2. QED
    BY <1>1, <2>1, EvenSums DEF m, w
<1>3. /\ h \in [ToSet(ch) -> Nat] /\ Tiled(ch, Sizes(h), end)
      /\ Lists(list, FreeOf(ch, h)) /\ end \in Nat
  BY DEF Shape
<1>4. /\ hn \in [ToSet(ch) \cup {end} -> Nat] /\ hn[end] = m
      /\ \A x \in ToSet(ch) \ {end} : hn[x] = h[x]
  BY <1>1, <1>3 DEF Extended
<1> HIDE DEF m, w, g
<1>5. /\ g \in [ToSet(ch) \cup {end} -> Nat] /\ Used(g, end)
      /\ \A x \in ToSet(ch) \cup {end} : Size(g, x) = Size(hn, x)
      /\ \A x \in ToSet(ch) \ {end} : Used(g, x) <=> Used(hn, x)
  <2> DEFINE D == ToSet(ch) \cup {end}
  <2>1. end \in D /\ hn \in [D -> Nat] /\ ToSet(ch) \ {end} = D \ {end}
    BY <1>4
  <2> HIDE DEF D
  <2>2. /\ g \in [D -> Nat] /\ Used(g, end)
        /\ \A x \in D : Size(g, x) = Size(hn, x)
        /\ \A x \in D \ {end} : Used(g, x) <=> Used(hn, x)
    BY ONLY <2>1, MarkIs DEF g
  <2>3. QED
    BY <2>1, <2>2 DEF D
<1>6. Size(hn, end) = m
  BY <1>1, <1>2, <1>4 DEF Size
<1>7. \A x \in ToSet(ch) \ {end} : /\ Size(hn, x) = Size(h, x)
                                   /\ Used(hn, x) <=> Used(h, x)
  BY <1>4 DEF Size, Used
<1>8. \A i \in 1..Len(ch) : ch[i] < end
  BY <1>3, Distinct
<1>9. end \notin ToSet(ch)
  <2>1. SUFFICES ASSUME end \in ToSet(ch) PROVE FALSE
    OBVIOUS
  <2>2. PICK i \in 1..Len(ch) : ch[i] = end
    BY <2>1, BlockIs
  <2>3. QED
    BY <1>3, <1>8, <2>2
<1>10. /\ Sizes(g)[end] = m
       /\ \A x \in ToSet(ch) : Sizes(g)[x] = Sizes(h)[x]
  BY <1>3, <1>5, <1>6, <1>7, <1>9 DEF Sizes
<1>11. /\ Tiled(Append(ch, end), Sizes(g), end + Header + m)
       /\ ToSet(Append(ch, end)) = ToSet(ch) \cup {end}
  BY <1>1, <1>3, <1>10, AppendTiled
<1>12. end + Header + m = end + w /\ end + w \in Nat
  BY <1>1, <1>3 DEF Header
<1>13. FreeOf(Append(ch, end), g) = FreeOf(ch, h)
  BY <1>5, <1>7, <1>9, <1>11 DEF FreeOf
<1>14. Shape(end + w, g, Append(ch, end), list)
  BY <1>3, <1>5, <1>11, <1>12, <1>13 DEF Shape, w
<1>15. Same(g, h, ToSet(ch))
  BY <1>5, <1>7, <1>9 DEF Same
<1>16. Size(g, end) >= n
  BY <1>1, <1>5, <1>6
<1>17. QED
  BY <1>5, <1>9, <1>11, <1>14, <1>15, <1>16 DEF g, w

LEMMA SplitShape ==
  ASSUME NEW end, NEW h, NEW ch, NEW list, Shape(end, h, ch, list),
         NEW i, NEW b, IsAt(ch, i, b), ~Used(h, b),
         NEW n \in Nat, Splittable(h, b, n),
         NEW other, other = Other(b, n),
         NEW hn, hn = Divided(h, b, n)
  PROVE  /\ Shape(end, Mark(hn, b), InsertAt(ch, i + 1, other),
                  Insert(Detach(list, b), hn, other))
         /\ Same(Mark(hn, b), h, ToSet(ch) \ {b})
         /\ ToSet(InsertAt(ch, i + 1, other)) = ToSet(ch) \cup {other}
         /\ Used(Mark(hn, b), b) /\ Size(Mark(hn, b), b) >= n
<1> DEFINE w == Word(n)
           m == h[b] - Word(n) - Header
           g == Mark(hn, b)
           c == InsertAt(ch, i + 1, other)
           l == Insert(Detach(list, b), hn, other)
<1>i. i \in 1..Len(ch) /\ b = ch[i]
  BY DEF IsAt
<1>1. /\ h \in [ToSet(ch) -> Nat] /\ Tiled(ch, Sizes(h), end)
      /\ Lists(list, FreeOf(ch, h)) /\ end \in Nat /\ end <= HeapSize
  BY DEF Shape
<1>2. /\ b \in ToSet(ch) /\ h[b] \in Nat /\ Sizes(h)[b] = Size(h, b)
      /\ b \in Nat
  BY <1>i, BlockIs
<1>3. Size(h, b) = h[b] /\ h[b] % 2 = 0
  BY <1>2, SizeIs
<1>4. w \in Nat /\ n <= w /\ w <= n + 3 /\ w % 2 = 0
  BY WordIs
<1>5. /\ m \in Nat /\ h[b] = w + Header + m
      /\ h[b] - w \in Nat /\ Header \in Nat
  <2>1. /\ \A x \in Nat : x >= MinSplitDelta + n
             => /\ x - w - Header \in Nat /\ x = w + Header + (x - w - Header)
                /\ x - w \in Nat /\ Header \in Nat
    <3> HIDE DEF w
    <3>1. QED
      BY <1>4, HeapAssumption DEF Header
  <2>2. QED
    BY <1>2, <1>3, <2>1 DEF Splittable
<1>6. m % 2 = 0
  <2>1. Header % 2 = 0
    BY DEF Header
  <2>2. (h[b] - w) % 2 = 0
    BY <1>2, <1>3, <1>4, EvenSums
  <2>3. QED
    BY <1>5, <2>1, <2>2, EvenSums
<1> HIDE DEF w, m, g, c, l
<1>7. other = b + Header + w /\ hn = [x \in DOMAIN h \cup {other} |->
                                        CASE x = b -> w [] x = other -> m
                                          [] OTHER -> h[x]]
  BY DEF w, m, Divided, Other
<1>8. other # b
  BY <1>2, <1>4, <1>7 DEF Header
<1>9. /\ hn \in [ToSet(ch) \cup {other} -> Nat] /\ hn[b] = w /\ hn[other] = m
      /\ \A x \in ToSet(ch) \ {b, other} : hn[x] = h[x]
  <2> DEFINE D == DOMAIN h \cup {other}
             val(x) == CASE x = b -> w [] x = other -> m [] OTHER -> h[x]
  <2>1. /\ val(b) = w /\ val(other) = m
        /\ \A x \in D \ {b, other} : val(x) = h[x] /\ h[x] \in Nat
    BY <1>1, <1>8
  <2>2. D = ToSet(ch) \cup {other} /\ b \in D /\ other \in D
    BY <1>1, <1>2
  <2>3. hn = [x \in D |-> val(x)]
    BY <1>7
  <2> HIDE DEF D, val
  <2>4. \A x \in D : val(x) \in Nat
    BY <1>4, <1>5, <2>1
  <2>5. /\ hn \in [D -> Nat] /\ hn[b] = w /\ hn[other] = m
        /\ \A x \in D \ {b, other} : hn[x] = h[x]
    BY ONLY <2>1, <2>2, <2>3, <2>4
  <2>6. QED
    BY ONLY <2>2, <2>5
<1>10. /\ g \in [ToSet(ch) \cup {other} -> Nat] /\ Used(g, b)
       /\ \A x \in ToSet(ch) \cup {other} : Size(g, x) = Size(hn, x)
       /\ \A x \in (ToSet(ch) \cup {other}) \ {b} : Used(g, x) <=> Used(hn, x)
  <2> DEFINE D == ToSet(ch) \cup {other}
  <2>1. b \in D /\ hn \in [D -> Nat]
    BY <1>2, <1>9
  <2> HIDE DEF D
  <2>2. /\ g \in [D -> Nat] /\ Used(g, b)
        /\ \A x \in D : Size(g, x) = Size(hn, x)
        /\ \A x \in D \ {b} : Used(g, x) <=> Used(hn, x)
    BY ONLY <2>1, MarkIs DEF g
  <2>3. QED
    BY <2>2 DEF D
<1>11. Size(hn, b) = w /\ Size(hn, other) = m /\ ~Used(hn, other)
  <2>1. \A x \in Nat : x % 2 = 0 => x - (x % 2) = x /\ x % 2 # 1
    OBVIOUS
  <2>2. QED
    BY <1>4, <1>5, <1>6, <1>9, <2>1 DEF Size, Used
<1>12. \A x \in ToSet(ch) \ {b, other} : /\ Size(hn, x) = Size(h, x)
                                         /\ Used(hn, x) <=> Used(h, x)
  BY <1>9 DEF Size, Used
<1>13. /\ Sizes(g)[b] = w /\ Sizes(g)[other] = m
       /\ \A x \in ToSet(ch) \ {b, other} : Sizes(g)[x] = Sizes(h)[x]
  BY <1>1, <1>2, <1>10, <1>11, <1>12 DEF Sizes
<1>14. Sizes(h)[ch[i]] = w + Header + m
  BY <1>i, <1>2, <1>3, <1>5
<1>15. other = ch[i] + Header + w /\ Sizes(g)[ch[i]] = w
  BY <1>i, <1>7, <1>13
<1>16. \A x \in ToSet(ch) \ {ch[i], other} : Sizes(g)[x] = Sizes(h)[x]
  BY <1>i, <1>13
<1>17. /\ Tiled(c, Sizes(g), end) /\ other \in Nat /\ other \notin ToSet(ch)
       /\ ToSet(c) = ToSet(ch) \cup {other}
  <2> DEFINE sz == Sizes(h)
             z == Sizes(g)
  <2>1. z[other] = m
    BY <1>13
  <2> HIDE DEF sz, z
  <2>2. Tiled(ch, sz, end) /\ Splits(ch, sz, i, w, m, other, z)
    BY <1>1, <1>14, <1>15, <1>16, <2>1 DEF sz, z, Splits
  <2>3. /\ Tiled(c, z, end) /\ other \in Nat /\ other \notin ToSet(ch)
        /\ ToSet(c) = ToSet(ch) \cup {other}
    BY <1>i, <1>4, <1>5, <2>2, SplitTiled DEF c
  <2>4. QED
    BY <2>3 DEF z
<1>18. /\ FreeOf(c, g) = (FreeOf(ch, h) \ {b}) \cup {other}
       /\ b \in FreeOf(ch, h) /\ other \notin FreeOf(ch, h) \ {b}
  <2>1. /\ Used(g, b) /\ ~Used(g, other) /\ b \in ToSet(ch)
        /\ \A x \in ToSet(ch) \ {b} : Used(g, x) <=> Used(h, x)
    BY <1>2, <1>8, <1>10, <1>11, <1>12, <1>17
  <2>2. b \in FreeOf(ch, h) /\ other \notin FreeOf(ch, h)
    BY <1>2, <1>17 DEF FreeOf
  <2>3. \A x : x \in FreeOf(c, g) <=> \/ x \in ToSet(ch) /\ ~Used(g, x)
                                     \/ x = other
    BY <1>17, <2>1 DEF FreeOf
  <2>4. \A x : x \in FreeOf(ch, h) <=> x \in ToSet(ch) /\ ~Used(h, x)
    BY DEF FreeOf
  <2>5. \A x : x \in FreeOf(c, g) <=> x \in (FreeOf(ch, h) \ {b}) \cup {other}
    BY <2>1, <2>3, <2>4
  <2>6. QED
    BY <2>2, <2>5
<1>19. Lists(l, FreeOf(c, g))
  <2>1. Lists(Detach(list, b), FreeOf(ch, h) \ {b})
    BY <1>1, <1>18, DetachSpec
  <2>2. QED
    BY <1>17, <1>18, <2>1, InsertSpec DEF l, Address
<1>20. Shape(end, g, c, l)
  BY <1>1, <1>10, <1>17, <1>19 DEF Shape
<1>21. Same(g, h, ToSet(ch) \ {b})
  BY <1>10, <1>12, <1>17 DEF Same
<1>22. Size(g, b) >= n
  BY <1>2, <1>4, <1>10, <1>11
<1>23. QED
  BY <1>10, <1>17, <1>20, <1>21, <1>22 DEF g, c, l

\* The used bit of the block that is joined on is in the sum until it is
\* cleared with the size's bit 0.
LEMMA JoinShape ==
  ASSUME NEW end, NEW h, NEW ch, NEW list, Shape(end, h, ch, list),
         NEW i, NEW left, NEW b, AreAt(ch, i, left, b),
         ~Used(h, left), Used(h, b),
         NEW hn, hn = Joined(h, left, b)
  PROVE  /\ Shape(end, Clear(hn, left), RemoveAt(ch, i),
                  Insert(Detach(list, left), Clear(hn, left), left))
         /\ Same(Clear(hn, left), h, ToSet(ch) \ {left, b})
         /\ ToSet(RemoveAt(ch, i)) = ToSet(ch) \ {b}
<1> DEFINE c == RemoveAt(ch, i)
           g == Clear(hn, left)
           l == Detach(list, left)
           sum == h[left] + Header + h[b]
<1>i. i \in 2..Len(ch) /\ left = ch[i - 1] /\ b = ch[i]
  BY DEF AreAt
<1>1. /\ h \in [ToSet(ch) -> Nat] /\ Tiled(ch, Sizes(h), end)
      /\ Lists(list, FreeOf(ch, h)) /\ end \in Nat /\ end <= HeapSize
  BY DEF Shape
<1>2. /\ Len(ch) \in Nat
      /\ \A j, k \in 1..Len(ch) : ch[j] = ch[k] => j = k
  BY <1>1, Distinct
<1>3. i - 1 \in 1..Len(ch) /\ i \in 1..Len(ch) /\ i - 1 # i
  BY <1>i, <1>2
<1>4. left # b /\ left \in ToSet(ch) /\ b \in ToSet(ch)
  BY <1>i, <1>2, <1>3, BlockIs
<1>5. /\ h[left] \in Nat /\ h[b] \in Nat
      /\ Sizes(h)[left] = Size(h, left) /\ Sizes(h)[b] = Size(h, b)
  BY <1>4, BlockIs
<1>6. /\ Size(h, left) = h[left] /\ h[left] % 2 = 0
      /\ Size(h, b) + 1 = h[b] /\ h[b] % 2 = 1 /\ Size(h, b) \in Nat
  BY <1>5, SizeIs
<1>7. sum \in Nat /\ sum % 2 = 1
  <2>1. sum % 2 = 1
    BY <1>5, <1>6, EvenSums
  <2>2. sum \in Nat
    BY <1>5 DEF Header
  <2>3. QED
    BY <2>1, <2>2
<1>8. sum - 1 = Size(h, left) + Header + Size(h, b)
  <2> DEFINE x == Size(h, left)
             y == Size(h, b)
  <2>1. x \in Nat /\ y \in Nat /\ sum = x + Header + (y + 1)
    BY <1>5, <1>6
  <2> HIDE DEF x, y, sum
  <2>2. sum - 1 = x + Header + y
    BY <2>1 DEF Header
  <2>3. QED
    BY <2>2 DEF x, y
<1> HIDE DEF sum, c, g, l
<1>9. hn = [x \in DOMAIN h \ {b} |-> IF x = left THEN sum ELSE h[x]]
  BY DEF sum, Joined
<1>10. /\ hn \in [ToSet(ch) \ {b} -> Nat] /\ hn[left] = sum
       /\ \A x \in ToSet(ch) \ {left, b} : hn[x] = h[x]
  BY <1>1, <1>4, <1>7, <1>9
<1>11. /\ g \in [ToSet(ch) \ {b} -> Nat] /\ ~Used(g, left)
       /\ \A x \in ToSet(ch) \ {b} : Size(g, x) = Size(hn, x)
       /\ \A x \in ToSet(ch) \ {b, left} : Used(g, x) <=> Used(hn, x)
  <2> DEFINE D == ToSet(ch) \ {b}
  <2>1. left \in D /\ hn \in [D -> Nat] /\ D \ {left} = ToSet(ch) \ {b, left}
    BY <1>4, <1>10
  <2> HIDE DEF D
  <2>2. /\ g \in [D -> Nat] /\ ~Used(g, left)
        /\ \A x \in D : Size(g, x) = Size(hn, x)
        /\ \A x \in D \ {left} : Used(g, x) <=> Used(hn, x)
    BY ONLY <2>1, ClearIs DEF g
  <2>3. QED
    BY <2>1, <2>2 DEF D
<1>12. Size(hn, left) = sum - 1
  BY <1>7, <1>10 DEF Size
<1>13. \A x \in ToSet(ch) \ {left, b} : /\ Size(hn, x) = Size(h, x)
                                        /\ Used(hn, x) <=> Used(h, x)
  BY <1>10 DEF Size, Used
<1>14. /\ Sizes(hn)[left] = Sizes(h)[left] + Header + Sizes(h)[b]
       /\ \A x \in ToSet(ch) \ {left, b} : Sizes(hn)[x] = Sizes(h)[x]
  <2>1. DOMAIN hn = ToSet(ch) \ {b} /\ DOMAIN h = ToSet(ch)
    BY <1>1, <1>10
  <2>2. Sizes(hn)[left] = sum - 1
    BY <1>4, <1>12, <2>1 DEF Sizes
  <2>3. \A x \in ToSet(ch) \ {left, b} : Sizes(hn)[x] = Sizes(h)[x]
    BY <1>13, <2>1 DEF Sizes
  <2>4. QED
    BY <1>5, <1>8, <2>2, <2>3
<1>15. Tiled(c, Sizes(hn), end) /\ ToSet(c) = ToSet(ch) \ {b}
  <2> DEFINE sz == Sizes(h)
             z == Sizes(hn)
  <2>1. /\ Tiled(ch, sz, end) /\ z[ch[i - 1]] = sz[ch[i - 1]] + Header + sz[ch[i]]
        /\ \A x \in ToSet(ch) \ {ch[i - 1], ch[i]} : z[x] = sz[x]
    BY <1>i, <1>1, <1>14
  <2> HIDE DEF sz, z
  <2>2. Tiled(c, z, end) /\ ToSet(c) = ToSet(ch) \ {ch[i]}
    BY <1>i, <2>1, JoinTiled DEF c
  <2>3. QED
    BY <1>i, <2>2 DEF z
<1>16. /\ FreeOf(c, hn) \ {left} = FreeOf(ch, h) \ {left}
       /\ left \in FreeOf(ch, h)
  BY <1>4, <1>13, <1>15 DEF FreeOf
<1>17. Lists(l, FreeOf(c, hn) \ {left})
  BY <1>1, <1>16, DetachSpec DEF l
<1>18. Shape(end, g, c, Insert(l, g, left))
  BY <1>1, <1>4, <1>10, <1>15, <1>17, GiveShape DEF g
<1>19. Same(g, h, ToSet(ch) \ {left, b})
  BY <1>11, <1>13 DEF Same
<1>20. QED
  BY <1>15, <1>18, <1>19 DEF c, g, l

-----------------------------------------------------------------------------
(* The blocks that clients cl have: one each, in use and large enough.     *)

Owned(ch, h, cl) ==
  /\ \A r \in cl : /\ r \in [at : Nat, size : Requests]
                   /\ BlockOf(r.at) \in ToSet(ch) /\ Used(h, BlockOf(r.at))
                   /\ r.size <= Size(h, BlockOf(r.at))
  /\ \A r, s \in cl : r.at = s.at => r = s

Inv ==
  /\ Shape(alloc, head, chain, List)
  /\ Owned(chain, head, held)

LEMMA OwnedKept ==
  ASSUME NEW ch, NEW h, NEW cl, Owned(ch, h, cl), NEW rest \in SUBSET cl,
         NEW c, NEW g, NEW D \in SUBSET ToSet(c), Same(g, h, D),
         \A r \in rest : BlockOf(r.at) \in D
  PROVE  Owned(c, g, rest)
BY DEF Owned, Same

LEMMA OwnedAdd ==
  ASSUME NEW ch, NEW h, NEW cl, Owned(ch, h, cl), NEW b \in Nat,
         NEW c, NEW g, Same(g, h, ToSet(ch) \ {b}),
         ToSet(ch) \subseteq ToSet(c), b \in ToSet(c),
         \A r \in cl : BlockOf(r.at) # b,
         NEW size \in Requests, Used(g, b), size <= Size(g, b)
  PROVE  /\ Owned(c, g, cl \cup {[at |-> Data(b), size |-> size]})
         /\ [at |-> Data(b), size |-> size] \notin cl
<1> DEFINE new == [at |-> Data(b), size |-> size]
           D == ToSet(ch) \ {b}
<1>1. /\ new \in [at : Nat, size : Requests] /\ new.size = size
      /\ new.at \in Nat /\ BlockOf(new.at) = b
  BY DEF Data, BlockOf, Header
<1> HIDE DEF new
<1>2. Owned(c, g, cl)
  <2>1. \A r \in cl : BlockOf(r.at) \in D
    BY DEF Owned
  <2>2. D \in SUBSET ToSet(c) /\ Same(g, h, D)
    OBVIOUS
  <2> HIDE DEF D
  <2>3. QED
    BY <2>1, <2>2, OwnedKept
<1>3. new \notin cl /\ \A r \in cl : r.at # new.at
  BY <1>1
<1>4. Owned(c, g, cl \cup {new})
  BY <1>1, <1>2, <1>3 DEF Owned
<1>5. QED
  BY <1>3, <1>4 DEF new

LEMMA SetListIs ==
  ASSUME NEW list, NEW S, Lists(list, S), SetList(list)
  PROVE  Lists(List', S)
BY DEF Lists, SetList, List

LEMMA SetListShape ==
  ASSUME NEW end, NEW h, NEW ch, NEW list, Shape(end, h, ch, list), SetList(list)
  PROVE  Shape(end, h, ch, List')
BY SetListIs DEF Shape

LEMMA PositionIs ==
  ASSUME Inv, NEW b \in ToSet(chain)
  PROVE  Position(b) \in 1..Len(chain) /\ chain[Position(b)] = b
<1>1. \E i \in 1..Len(chain) : chain[i] = b
  BY BlockIs DEF Inv
<1>2. DOMAIN chain = 1..Len(chain)
  BY DEF Inv, Shape, Tiled
<1>3. QED
  BY <1>1, <1>2 DEF Position

\* find_block returns a block of the list that is large enough.
LEMMA FindBlockIs ==
  ASSUME Inv, NEW n \in Nat, Fitting(n) # {}
  PROVE  /\ FindBlock(n) \in ToSet(chain) /\ ~Used(head, FindBlock(n))
         /\ Size(head, FindBlock(n)) >= n
<1>1. ff \in Seq(Address) /\ ToSet(ff) = FreeOf(chain, head)
  BY DEF Inv, Shape, Lists, List
<1>2. DOMAIN ff = 1..Len(ff) /\ ToSet(ff) = {ff[k] : k \in 1..Len(ff)}
  BY <1>1, SetOf
<1>3. Fitting(n) \in SUBSET Nat /\ Fitting(n) \subseteq 1..Len(ff)
  BY <1>2 DEF Fitting
<1>4. \E k \in Fitting(n) : \A j \in Fitting(n) : k <= j
  BY <1>3, LeastNat
<1>5. PICK k \in Fitting(n) : FindBlock(n) = ff[k]
  BY <1>4 DEF FindBlock
<1>6. ff[k] \in FreeOf(chain, head) /\ Size(head, ff[k]) >= n
  BY <1>1, <1>2, <1>3, <1>5 DEF Fitting
<1>7. QED
  BY <1>5, <1>6 DEF FreeOf

LEMMA InitInv ==
  ASSUME Init PROVE Inv
<1>1. alloc = 0 /\ head = <<>> /\ chain = <<>> /\ held = {}
      /\ ff = <<>> /\ lf = Null
  BY DEF Init
<1>2. /\ chain \in Seq(Address) /\ Len(chain) = 0 /\ ToSet(chain) = {}
      /\ ff \in Seq(Address) /\ Len(ff) = 0 /\ ToSet(ff) = {}
  BY <1>1 DEF ToSet
<1>3. head \in [ToSet(chain) -> Nat]
  BY <1>1, <1>2
<1>4. Tiled(chain, Sizes(head), alloc)
  BY <1>1, <1>2 DEF Tiled
<1>5. Lists(List, FreeOf(chain, head))
  BY <1>1, <1>2 DEF Lists, List, FreeOf
<1>6. QED
  BY <1>1, <1>3, <1>4, <1>5, HeapAssumption DEF Inv, Shape, Owned

-----------------------------------------------------------------------------
(* The steps.                                                              *)

Lent(b, size) == [at |-> Data(b), size |-> size]

\* What malloc leaves when it returns b.
Gives(b, size) ==
  /\ Shape(alloc', head', chain', List')
  /\ Same(head', head, ToSet(chain) \ {b})
  /\ ToSet(chain) \subseteq ToSet(chain') /\ b \in ToSet(chain')
  /\ Used(head', b) /\ size <= Size(head', b)
  /\ b \in ToSet(chain) => ~Used(head, b)

LEMMA GivesInv ==
  ASSUME Inv, NEW b \in Nat, NEW size \in Requests, Gives(b, size),
         held' = held \cup {Lent(b, size)}
  PROVE  Inv' /\ Lent(b, size) \notin held
<1>1. \A r \in held : BlockOf(r.at) # b
  BY DEF Inv, Owned, Gives
<1>2. Owned(chain, head, held)
  BY DEF Inv
<1>3. /\ Owned(chain', head', held \cup {Lent(b, size)})
      /\ Lent(b, size) \notin held
  BY <1>1, <1>2, OwnedAdd DEF Gives, Lent
<1>4. QED
  BY <1>3 DEF Inv, Gives

LEMMA ExtendStep ==
  ASSUME Inv, NEW n \in Nat, NEW size \in Nat, size <= n, Extend(n)
  PROVE  alloc \in Nat /\ Gives(alloc, size)
<1> DEFINE hn == Extended(head, alloc, n)
<1>1. /\ alloc + Word(n + Header) <= HeapSize
      /\ alloc' = alloc + Word(n + Header)
      /\ chain' = Append(chain, alloc) /\ head' = Mark(hn, alloc)
      /\ List' = List
  BY DEF Extend, Extended, List
<1>2. Shape(alloc, head, chain, List) /\ alloc \in Nat
  BY DEF Inv, Shape
<1>5. /\ Shape(alloc', head', chain', List)
      /\ Same(head', head, ToSet(chain))
      /\ ToSet(chain') = ToSet(chain) \cup {alloc} /\ alloc \notin ToSet(chain)
      /\ Used(head', alloc) /\ Size(head', alloc) >= n
  BY <1>1, <1>2, ExtendShape
<1>6. Size(head', alloc) \in Nat
  BY <1>5, BlockIs
<1>7. size <= Size(head', alloc)
  BY <1>5, <1>6
<1>8. Same(head', head, ToSet(chain) \ {alloc})
  BY <1>5 DEF Same
<1>9. QED
  BY <1>1, <1>2, <1>5, <1>7, <1>8 DEF Gives

LEMMA TakeStep ==
  ASSUME Inv, NEW b \in ToSet(chain), ~Used(head, b), NEW n \in Nat,
         Size(head, b) >= n, NEW size \in Nat, size <= n, Take(b), alloc' = alloc
  PROVE  b \in Nat /\ Gives(b, size)
<1>1. /\ SetList(Detach(List, b)) /\ head' = Mark(head, b) /\ chain' = chain
  BY DEF Take
<1>2. Shape(alloc, head, chain, List)
  BY DEF Inv
<1>3. b \in Nat /\ Size(head, b) \in Nat
  BY <1>2, BlockIs
<1>4. /\ Shape(alloc', head', chain', Detach(List, b))
      /\ Same(head', head, ToSet(chain) \ {b})
      /\ Used(head', b) /\ Size(head', b) = Size(head, b)
  BY <1>1, <1>2, TakeShape
<1>5. Shape(alloc', head', chain', List')
  BY <1>1, <1>4, SetListShape
<1>6. size <= Size(head', b)
  BY <1>3, <1>4
<1>7. QED
  BY <1>1, <1>3, <1>4, <1>5, <1>6 DEF Gives

LEMMA SplitStep ==
  ASSUME Inv, NEW b \in ToSet(chain), ~Used(head, b), NEW n \in Nat,
         Size(head, b) >= MinSplitDelta + n, NEW size \in Nat, size <= n,
         Split(b, n), alloc' = alloc
  PROVE  b \in Nat /\ Gives(b, size)
<1> DEFINE other == Other(b, n)
           h == Divided(head, b, n)
           i == Position(b)
           l == Insert(Detach(List, b), h, other)
<1>1. /\ head' = Mark(h, b) /\ chain' = InsertAt(chain, i + 1, other)
      /\ SetList(l)
  BY DEF Split, Divided, Other
<1>2. Shape(alloc, head, chain, List)
  BY DEF Inv
<1>3. i \in 1..Len(chain) /\ b = chain[i]
  BY PositionIs
<1>4. b \in Nat
  BY <1>2, BlockIs
<1>5. /\ Shape(alloc', head', chain', l)
      /\ Same(head', head, ToSet(chain) \ {b})
      /\ ToSet(chain') = ToSet(chain) \cup {other}
      /\ Used(head', b) /\ Size(head', b) >= n
  <2>1. other = Other(b, n) /\ h = Divided(head, b, n)
    OBVIOUS
  <2>2. l = Insert(Detach(List, b), h, other)
    OBVIOUS
  <2> HIDE DEF i, h, other, l
  <2>3. /\ Shape(alloc, Mark(h, b), InsertAt(chain, i + 1, other), l)
        /\ Same(Mark(h, b), head, ToSet(chain) \ {b})
        /\ ToSet(InsertAt(chain, i + 1, other)) = ToSet(chain) \cup {other}
        /\ Used(Mark(h, b), b) /\ Size(Mark(h, b), b) >= n
    <3>1. Splittable(head, b, n)
      BY DEF Splittable
    <3>2. IsAt(chain, i, b)
      BY <1>3 DEF IsAt
    <3>3. QED
      BY <1>2, <2>1, <2>2, <3>1, <3>2, SplitShape
  <2>4. QED
    BY <1>1, <2>3
<1>6. Shape(alloc', head', chain', List')
  <2> HIDE DEF l
  <2>1. QED
    BY <1>1, <1>5, SetListShape
<1>7. b \in ToSet(chain') /\ Size(head', b) \in Nat
  BY <1>5, <1>6, BlockIs
<1>8. size <= Size(head', b)
  BY <1>5, <1>7
<1>9. QED
  BY <1>4, <1>5, <1>6, <1>7, <1>8 DEF Gives

LEMMA MallocStep ==
  ASSUME Inv, NEW size \in Requests, Malloc(size)
  PROVE  Inv' /\ \E b \in Nat : /\ held' = held \cup {Lent(b, size)}
                                /\ Lent(b, size) \notin held
<1> DEFINE n == IF size < MinAlloc THEN MinAlloc ELSE size
<1>1. n \in Nat /\ size \in Nat /\ size <= n
  BY HeapAssumption DEF MinAlloc
<1>2. SUFFICES \E b \in Nat : held' = held \cup {Lent(b, size)} /\ Gives(b, size)
  BY GivesInv
<1>3. CASE Fitting(n) = {} /\ Extend(n)
           /\ held' = held \cup {[at |-> Data(alloc), size |-> size]}
  <2> HIDE DEF n
  <2>1. alloc \in Nat /\ Gives(alloc, size)
    BY <1>1, <1>3, ExtendStep
  <2>2. QED
    BY <1>3, <2>1 DEF Lent
<1>4. ASSUME Fitting(n) # {}, NEW b, b = FindBlock(n), alloc' = alloc,
             IF Size(head, b) >= MinSplitDelta + n THEN Split(b, n) ELSE Take(b),
             held' = held \cup {[at |-> Data(b), size |-> size]}
      PROVE  \E a \in Nat : held' = held \cup {Lent(a, size)} /\ Gives(a, size)
  <2> HIDE DEF n
  <2>1. b \in ToSet(chain) /\ ~Used(head, b) /\ Size(head, b) >= n
    BY <1>1, <1>4, FindBlockIs
  <2>2. b \in Nat /\ Gives(b, size)
    <3>1. CASE Size(head, b) >= MinSplitDelta + n
      BY <1>1, <1>4, <2>1, <3>1, SplitStep
    <3>2. CASE ~(Size(head, b) >= MinSplitDelta + n)
      BY <1>1, <1>4, <2>1, <3>2, TakeStep
    <3>3. QED
      BY <3>1, <3>2
  <2>3. QED
    BY <1>4, <2>2 DEF Lent
<1>5. QED
  BY <1>3, <1>4 DEF Malloc

\* What free leaves: the blocks of the others are in D.
LEMMA OthersInv ==
  ASSUME Inv, NEW r \in held, held' = held \ {r}, Shape(alloc', head', chain', List'),
         NEW D \in SUBSET ToSet(chain'), Same(head', head, D),
         \A s \in held \ {r} : BlockOf(s.at) \in D
  PROVE  Inv'
<1>1. Owned(chain, head, held) /\ held \ {r} \in SUBSET held
  BY DEF Inv
<1>2. Owned(chain', head', held \ {r})
  BY <1>1, OwnedKept
<1>3. QED
  BY <1>2 DEF Inv

LEMMA HeldIs ==
  ASSUME Inv, NEW r \in held
  PROVE  /\ BlockOf(r.at) \in ToSet(chain) /\ Used(head, BlockOf(r.at))
         /\ \A s \in held \ {r} : /\ BlockOf(s.at) \in ToSet(chain)
                                  /\ Used(head, BlockOf(s.at))
                                  /\ BlockOf(s.at) # BlockOf(r.at)
<1>1. \A s \in held : BlockOf(s.at) \in ToSet(chain) /\ Used(head, BlockOf(s.at))
  BY DEF Inv, Owned
<1>2. \A s \in held : s.at \in Nat
  BY DEF Inv, Owned
<1>3. ASSUME NEW s \in held \ {r} PROVE BlockOf(s.at) # BlockOf(r.at)
  <2>1. s.at # r.at
    BY DEF Inv, Owned
  <2>2. \A x, y \in Nat : x - Header = y - Header => x = y
    BY DEF Header
  <2>3. QED
    BY <1>2, <2>1, <2>2 DEF BlockOf
<1>4. QED
  BY <1>1, <1>3

LEMMA JoinStep ==
  ASSUME Inv, NEW r \in held, held' = held \ {r}, alloc' = alloc,
         NEW i \in 2..Len(chain), chain[i] = BlockOf(r.at),
         ~Used(head, chain[i - 1]), Join(i)
  PROVE  Inv'
<1> DEFINE left == chain[i - 1]
           b == chain[i]
           h == Joined(head, left, b)
           l == Insert(Detach(List, left), Clear(h, left), left)
           D == ToSet(chain) \ {left, b}
<1>1. head' = Clear(h, left) /\ SetList(l) /\ chain' = RemoveAt(chain, i)
  BY DEF Join, MarkAsFree, Joined
<1>2. Shape(alloc, head, chain, List)
  BY DEF Inv
<1>3. AreAt(chain, i, left, b)
  BY DEF AreAt
<1>4. ~Used(head, left) /\ Used(head, b)
  BY HeldIs
<1>5. /\ Shape(alloc, Clear(h, left), RemoveAt(chain, i), l)
      /\ Same(Clear(h, left), head, D)
      /\ ToSet(RemoveAt(chain, i)) = ToSet(chain) \ {b}
  <2>1. h = Joined(head, left, b)
    OBVIOUS
  <2> HIDE DEF h, left, b
  <2>2. QED
    BY <1>2, <1>3, <1>4, <2>1, JoinShape
<1> HIDE DEF l, h, left
<1>6. Shape(alloc', head', chain', List')
  BY <1>1, <1>5, SetListShape
<1>7. D \in SUBSET ToSet(chain') /\ Same(head', head, D)
  BY <1>1, <1>5
<1>8. \A s \in held \ {r} : BlockOf(s.at) \in D
  BY <1>4, HeldIs
<1>9. QED
  BY <1>6, <1>7, <1>8, OthersInv

LEMMA FreeStep ==
  ASSUME Inv, NEW r \in held, Free(r)
  PROVE  Inv'
<1> DEFINE b == BlockOf(r.at)
           i == Position(b)
           leftFree == i > 1 /\ ~Used(head, chain[i - 1])
           rightFree == i < Len(chain) /\ ~Used(head, chain[i + 1])
           left == chain[i - 1]
<1>1. /\ held' = held \ {r} /\ alloc' = alloc
      /\ \/ leftFree /\ rightFree /\ Join(i)
         \/ /\ leftFree /\ ~rightFree
            /\ MarkAsFree(Detach(List, left), head, left)
            /\ UNCHANGED chain
         \/ /\ ~leftFree
            /\ MarkAsFree(List, head, b)
            /\ UNCHANGED chain
  BY DEF Free
<1>2. /\ Shape(alloc, head, chain, List)
      /\ alloc \in Nat /\ alloc <= HeapSize /\ head \in [ToSet(chain) -> Nat]
      /\ Tiled(chain, Sizes(head), alloc)
      /\ Lists(List, FreeOf(chain, head))
  BY DEF Inv, Shape
<1>3. b \in ToSet(chain) /\ Used(head, b)
  BY HeldIs
<1>4. i \in 1..Len(chain) /\ chain[i] = b
  BY <1>3, PositionIs
<1>5. Len(chain) \in Nat
  BY <1>2, Distinct
<1> HIDE DEF i
<1>6. CASE leftFree /\ rightFree /\ Join(i)
  <2>1. i \in 2..Len(chain)
    BY <1>4, <1>5, <1>6
  <2>2. QED
    BY <1>1, <1>4, <1>6, <2>1, JoinStep
<1>7. ASSUME NEW d \in ToSet(chain), NEW list,
             Lists(list, FreeOf(chain, head) \ {d}),
             MarkAsFree(list, head, d), UNCHANGED chain,
             \A s \in held \ {r} : BlockOf(s.at) # d
      PROVE  Inv'
  <2> DEFINE l == Insert(list, Clear(head, d), d)
             D == ToSet(chain) \ {d}
  <2>1. head' = Clear(head, d) /\ SetList(l) /\ chain' = chain
    BY <1>7 DEF MarkAsFree
  <2>2. Shape(alloc, Clear(head, d), chain, l) /\ Same(Clear(head, d), head, D)
    BY <1>2, <1>7, GiveShape
  <2> HIDE DEF l
  <2>3. Shape(alloc', head', chain', List')
    BY <1>1, <2>1, <2>2, SetListShape
  <2>4. D \in SUBSET ToSet(chain') /\ Same(head', head, D)
    BY <2>1, <2>2
  <2>5. \A s \in held \ {r} : BlockOf(s.at) \in D
    BY <1>7, HeldIs
  <2>6. QED
    BY <1>1, <2>3, <2>4, <2>5, OthersInv
<1>8. CASE leftFree /\ MarkAsFree(Detach(List, left), head, left) /\ UNCHANGED chain
  <2>1. i - 1 \in 1..Len(chain)
    BY <1>4, <1>5, <1>8
  <2>2. left \in ToSet(chain) /\ ~Used(head, left)
    BY <1>2, <1>8, <2>1, BlockIs
  <2>3. left \in FreeOf(chain, head)
    BY <2>2 DEF FreeOf
  <2> HIDE DEF left
  <2>4. Lists(Detach(List, left), FreeOf(chain, head) \ {left})
    BY <1>2, <2>3, DetachSpec
  <2>5. \A s \in held \ {r} : BlockOf(s.at) # left
    BY <2>2, HeldIs
  <2>6. QED
    BY <1>7, <1>8, <2>2, <2>4, <2>5
<1>9. CASE ~leftFree /\ MarkAsFree(List, head, b) /\ UNCHANGED chain
  <2>1. FreeOf(chain, head) \ {b} = FreeOf(chain, head)
    BY <1>3 DEF FreeOf
  <2>2. \A s \in held \ {r} : BlockOf(s.at) # b
    BY HeldIs
  <2> HIDE DEF b
  <2>3. QED
    BY <1>2, <1>3, <1>7, <1>9, <2>1, <2>2
<1>10. QED
  BY <1>1, <1>6, <1>8, <1>9

LEMMA NextInv ==
  ASSUME Inv, [Next]_vars
  PROVE  Inv'
<1>1. CASE UNCHANGED vars
  BY <1>1 DEF Inv, vars, List
<1>2. CASE \E size \in Requests : Malloc(size)
  BY <1>2, MallocStep
<1>3. CASE \E r \in held : Free(r)
  BY <1>3, FreeStep
<1>4. QED
  BY <1>1, <1>2, <1>3 DEF Next

LEMMA Invariance == Spec => []Inv
<1>1. Init => Inv
  BY InitInv
<1>2. Inv /\ [Next]_vars => Inv'
  BY NextInv
<1>3. QED
  BY <1>1, <1>2, PTL DEF Spec

-----------------------------------------------------------------------------
(* The theorems.                                                           *)

LEMMA InvTiles ==
  ASSUME Inv PROVE BlocksTile
<1>1. /\ Tiled(chain, Sizes(head), alloc) /\ Lists(List, FreeOf(chain, head))
      /\ chain \in Seq(Address) /\ ff \in Seq(Address)
  BY DEF Inv, Shape, Tiled, Lists, List
<1>2. /\ DOMAIN chain = 1..Len(chain) /\ DOMAIN ff = 1..Len(ff)
      /\ Len(chain) \in Nat /\ Len(ff) \in Nat
  BY <1>1, SetOf
<1>3. chain = <<>> => alloc = 0
  BY <1>1 DEF Tiled
<1>4. chain # <<>> => chain[1] = 0
  <2>1. chain # <<>> => Len(chain) > 0
    BY <1>1, <1>2
  <2>2. QED
    BY <1>1, <2>1 DEF Tiled
<1>5. ASSUME NEW i \in DOMAIN chain
      PROVE  chain[i] + Header + Size(head, chain[i]) =
               (IF i = Len(chain) THEN alloc ELSE chain[i + 1])
  <2>1. Sizes(head)[chain[i]] = Size(head, chain[i])
    BY <1>2, BlockIs DEF Inv
  <2>2. QED
    BY <1>1, <1>2, <2>1 DEF Tiled
<1>6. ToSet(ff) = {b \in ToSet(chain) : ~Used(head, b)}
  BY <1>1 DEF Lists, List, FreeOf
<1>7. IsInjective(ff)
  BY <1>1, <1>2 DEF Lists, List, IsInjective
<1>8. lf # Null => lf = Last(ff)
  BY <1>1 DEF Lists, List, Last
<1>9. QED
  BY <1>3, <1>4, <1>5, <1>6, <1>7, <1>8 DEF BlocksTile

(* After any sequence of allocations and frees (heap_malloc, heap_free) the *)
(* blocks cover the heap up to heap->alloc without a gap or an overlap, and *)
(* the free list holds each block that is not in use once.                  *)
THEOREM Tiles == Spec => []BlocksTile
<1>1. Inv => BlocksTile
  BY InvTiles
<1>2. QED
  BY <1>1, Invariance, PTL

LEMMA OwnersApart ==
  ASSUME NEW end, NEW h, NEW ch, NEW list, Shape(end, h, ch, list),
         NEW cl, Owned(ch, h, cl), NEW r \in cl
  PROVE  /\ r.at \in Nat /\ r.size \in Requests /\ r.at + r.size <= end
         /\ \A s \in cl : s # r => Arena!Apart(r, s)
<1>1. Tiled(ch, Sizes(h), end) /\ end \in Nat
  BY DEF Shape
<1>2. Len(ch) \in Nat
  BY <1>1, Distinct
<1>3. ASSUME NEW s \in cl
      PROVE  \E i \in 1..Len(ch) :
               /\ s.at = ch[i] + Header /\ s.at \in Nat
               /\ s.size \in Nat /\ s.size \in Requests
               /\ ch[i] \in Nat /\ s.size <= Sizes(h)[ch[i]]
               /\ Sizes(h)[ch[i]] \in Nat
  <2>1. /\ s.at \in Nat /\ s.size \in Requests
        /\ BlockOf(s.at) \in ToSet(ch) /\ s.size <= Size(h, BlockOf(s.at))
    BY DEF Owned
  <2>2. PICK i \in 1..Len(ch) : ch[i] = BlockOf(s.at)
    BY <2>1, BlockIs
  <2>3. /\ ch[i] \in Nat /\ Sizes(h)[ch[i]] = Size(h, ch[i])
        /\ Size(h, ch[i]) \in Nat
    BY <2>1, <2>2, BlockIs
  <2>4. s.at = ch[i] + Header
    BY <2>1, <2>2 DEF BlockOf, Header
  <2>5. s.size \in Nat
    BY <2>1, HeapAssumption
  <2>6. QED
    BY <2>1, <2>2, <2>3, <2>4, <2>5
<1>4. PICK i \in 1..Len(ch) :
               /\ r.at = ch[i] + Header /\ r.at \in Nat
               /\ r.size \in Nat /\ r.size \in Requests
               /\ ch[i] \in Nat /\ r.size <= Sizes(h)[ch[i]]
               /\ Sizes(h)[ch[i]] \in Nat
  BY <1>3
<1>5. r.at + r.size <= end
  <2>1. ch[i] + Header + Sizes(h)[ch[i]] <= end
    BY <1>1 DEF Tiled
  <2>2. QED
    BY <1>1, <1>4, <2>1 DEF Header
<1>6. ASSUME NEW s \in cl, s # r PROVE Arena!Apart(r, s)
  <2>1. PICK j \in 1..Len(ch) :
               /\ s.at = ch[j] + Header /\ s.at \in Nat
               /\ s.size \in Nat /\ s.size \in Requests
               /\ ch[j] \in Nat /\ s.size <= Sizes(h)[ch[j]]
               /\ Sizes(h)[ch[j]] \in Nat
    BY <1>3
  <2>2. r.at # s.at
    BY <1>6 DEF Owned
  <2>3. i # j
    BY <1>4, <2>1, <2>2
  <2>4. CASE i < j
    <3>1. ch[i] + Header + Sizes(h)[ch[i]] <= ch[j]
      BY <1>1, <2>4 DEF Tiled
    <3>2. r.at + r.size <= s.at
      BY <1>4, <2>1, <3>1 DEF Header
    <3>3. QED
      BY <3>2 DEF Arena!Apart
  <2>5. CASE j < i
    <3>1. ch[j] + Header + Sizes(h)[ch[j]] <= ch[i]
      BY <1>1, <2>5 DEF Tiled
    <3>2. s.at + s.size <= r.at
      BY <1>4, <2>1, <3>1 DEF Header
    <3>3. QED
      BY <3>2 DEF Arena!Apart
  <2>6. QED
    BY <1>2, <2>3, <2>4, <2>5
<1>7. QED
  BY <1>4, <1>5, <1>6

LEMMA MallocArena ==
  ASSUME Inv, NEW size \in Requests, Malloc(size)
  PROVE  \E r \in held' : Arena!Malloc(r)
<1>1. PICK b \in Nat : Inv' /\ held' = held \cup {Lent(b, size)}
                       /\ Lent(b, size) \notin held
  BY MallocStep
<1> DEFINE r == Lent(b, size)
<1> HIDE DEF r
<1>2. held' = held \cup {r} /\ r \notin held
  BY <1>1 DEF r
<1>3. /\ r.at \in Nat /\ r.size \in Requests /\ r.at + r.size <= alloc'
      /\ \A s \in held' : s # r => Arena!Apart(r, s)
  BY <1>1, <1>2, OwnersApart DEF Inv
<1>4. alloc' \in Nat /\ alloc' <= HeapSize
  BY <1>1 DEF Inv, Shape
<1>5. r = [at |-> r.at, size |-> r.size]
  BY DEF r, Lent
<1>6. r.at + r.size <= HeapSize /\ r.at \in 0..HeapSize
  <2>1. r.size \in Nat /\ HeapSize \in Nat
    BY <1>3, HeapAssumption
  <2> DEFINE at == r.at
             n == r.size
  <2>2. at \in Nat /\ n \in Nat /\ at + n <= alloc'
    BY <1>3, <2>1
  <2> HIDE DEF at, n
  <2>3. at + n <= HeapSize /\ at \in 0..HeapSize
    BY <1>4, <2>1, <2>2
  <2>4. QED
    BY <2>3 DEF at, n
<1>7. r \in Arena!Ranges
  BY <1>3, <1>5, <1>6 DEF Arena!Ranges
<1>8. QED
  BY <1>2, <1>3, <1>6, <1>7 DEF Arena!Malloc

(* The heap is an allocator: what heap_malloc returns is inside the heap   *)
(* and apart from what any other client has, and heap_free takes back one  *)
(* range and leaves the others, whatever the sizes and the order.          *)
THEOREM HeapImplementsAllocator == Spec => ImplementsAllocator
<1>1. Init => Arena!Init
  BY DEF Init, Arena!Init
<1>2. Inv /\ [Next]_vars => [Arena!Next]_held
  <2>1. SUFFICES ASSUME Inv, [Next]_vars PROVE [Arena!Next]_held
    OBVIOUS
  <2>2. CASE UNCHANGED vars
    BY <2>2 DEF vars
  <2>3. CASE \E size \in Requests : Malloc(size)
    BY <2>1, <2>3, MallocArena DEF Arena!Next
  <2>4. CASE \E r \in held : Free(r)
    BY <2>4 DEF Free, Arena!Next, Arena!Free
  <2>5. QED
    BY <2>1, <2>2, <2>3, <2>4 DEF Next
<1>3. QED
  BY <1>1, <1>2, Invariance, PTL DEF Spec, ImplementsAllocator, Arena!Spec

=============================================================================
