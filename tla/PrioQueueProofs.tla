--------------------------- MODULE PrioQueueProofs ---------------------------
(* What the queue operators of PrioQueue return, for queues of any length. *)
EXTENDS PrioQueue, SequenceTheorems, WellFoundedInduction, TLAPS

(* Every non-empty set of naturals has a least element.                    *)
LEMMA LeastNat ==
  ASSUME NEW T \in SUBSET Nat, T # {}
  PROVE  \E n \in T : \A m \in T : n <= m
<1> DEFINE R == OpToRel(<, Nat)
<1>1. IsWellFoundedOn(R, Nat)
  BY NatLessThanWellFounded
<1>2. ASSUME NEW m \in Nat, NEW n \in Nat PROVE <<m, n>> \in R <=> m < n
  BY DEF OpToRel
<1> HIDE DEF R
<1>3. PICK n \in T : \A m \in T : <<m, n>> \notin R
  BY <1>1, WFMin
<1>4. ASSUME NEW m \in T PROVE n <= m
  <2>1. m \in Nat /\ n \in Nat /\ ~(m < n)
    BY <1>2, <1>3
  <2>2. QED
    BY <2>1
<1>5. QED
  BY <1>4

(* insert() stops within the queue: it passes exactly the nodes behind the *)
(* last one that the new node does not go before.                          *)
LEMMA PassedSpec ==
  ASSUME NEW S, NEW q \in Seq(S), NEW later
  PROVE  /\ Passed(q, later) \in 0..Len(q)
         /\ \A i \in (Len(q) - Passed(q, later) + 1)..Len(q) : q[i] \in later
         /\ Passed(q, later) < Len(q)
              => q[Len(q) - Passed(q, later)] \notin later
<1> DEFINE Stop == {n \in 0..Len(q) : n < Len(q) => q[Len(q) - n] \notin later}
<1>1. Len(q) \in Nat
  OBVIOUS
<1>2. Stop \in SUBSET Nat /\ Len(q) \in Stop
  BY <1>1
<1>3. PICK n \in Stop : \A m \in Stop : n <= m
  BY <1>2, LeastNat
<1>4. ASSUME NEW i \in (Len(q) - n + 1)..Len(q) PROVE q[i] \in later
  <2>1. /\ Len(q) - i \in 0..Len(q) /\ Len(q) - i < n /\ Len(q) - i < Len(q)
        /\ Len(q) - (Len(q) - i) = i
    BY <1>1, <1>3
  <2>2. Len(q) - i \notin Stop
    BY <1>1, <1>3, <2>1
  <2>3. QED
    BY <2>1, <2>2
<1>5. \E k \in 0..Len(q) : /\ \A i \in (Len(q) - k + 1)..Len(q) : q[i] \in later
                           /\ k < Len(q) => q[Len(q) - k] \notin later
  BY <1>3, <1>4
<1>6. QED
  BY <1>5 DEF Passed

(* RemoveAt and InsertAt, cell by cell.                                    *)
LEMMA RemoveAtSpec ==
  ASSUME NEW S, NEW q \in Seq(S), NEW k \in 1..Len(q)
  PROVE  /\ RemoveAt(q, k) \in Seq(S)
         /\ Len(RemoveAt(q, k)) = Len(q) - 1
         /\ \A i \in 1..(Len(q) - 1) :
              RemoveAt(q, k)[i] = IF i < k THEN q[i] ELSE q[i + 1]
<1> DEFINE front == SubSeq(q, 1, k - 1)
           back  == SubSeq(q, k + 1, Len(q))
<1>1. Len(q) \in Nat /\ k \in Nat /\ \A i \in 1..Len(q) : q[i] \in S
  BY ElementOfSeq, LenProperties
<1>2. /\ front \in Seq(S) /\ Len(front) = k - 1
      /\ \A i \in 1..(k - 1) : front[i] = q[i]
  BY <1>1, SubSeqProperties
<1>3. /\ back \in Seq(S) /\ Len(back) = Len(q) - k
      /\ \A i \in 1..(Len(q) - k) : back[i] = q[k + i]
  BY <1>1, SubSeqProperties
<1> HIDE DEF front, back
<1>4. /\ front \o back \in Seq(S)
      /\ Len(front \o back) = Len(q) - 1
      /\ \A i \in 1..(Len(q) - 1) :
            (front \o back)[i] = IF i < k THEN front[i] ELSE back[i - (k - 1)]
  <2>1. /\ front \o back \in Seq(S)
        /\ Len(front \o back) = Len(front) + Len(back)
        /\ \A i \in 1..(Len(front) + Len(back)) :
             (front \o back)[i] = IF i <= Len(front) THEN front[i]
                                  ELSE back[i - Len(front)]
    BY <1>2, <1>3, ConcatProperties
  <2>2. Len(front) + Len(back) = Len(q) - 1
    BY <1>1, <1>2, <1>3
  <2>3. QED
    BY <1>1, <1>2, <2>1, <2>2
<1>5. \A i \in 1..(Len(q) - 1) :
        (front \o back)[i] = IF i < k THEN q[i] ELSE q[i + 1]
  BY <1>1, <1>2, <1>3, <1>4
<1>6. QED
  BY <1>4, <1>5 DEF RemoveAt, front, back

LEMMA InsertAtSpec ==
  ASSUME NEW S, NEW q \in Seq(S), NEW e \in S, NEW k \in 1..(Len(q) + 1)
  PROVE  /\ InsertAt(q, k, e) \in Seq(S)
         /\ Len(InsertAt(q, k, e)) = Len(q) + 1
         /\ \A i \in 1..(Len(q) + 1) :
              InsertAt(q, k, e)[i] = IF i < k THEN q[i]
                                     ELSE IF i = k THEN e ELSE q[i - 1]
<1> DEFINE front == SubSeq(q, 1, k - 1)
           back  == SubSeq(q, k, Len(q))
           upto  == front \o <<e>>
<1>1. Len(q) \in Nat /\ k \in Nat /\ \A i \in 1..Len(q) : q[i] \in S
  BY ElementOfSeq, LenProperties
<1>2. /\ front \in Seq(S) /\ Len(front) = k - 1
      /\ \A i \in 1..(k - 1) : front[i] = q[i]
  BY <1>1, SubSeqProperties
<1>3. /\ back \in Seq(S) /\ Len(back) = Len(q) - k + 1
      /\ \A i \in 1..(Len(q) - k + 1) : back[i] = q[k + i - 1]
  BY <1>1, SubSeqProperties
<1>4. <<e>> \in Seq(S) /\ Len(<<e>>) = 1 /\ <<e>>[1] = e
  OBVIOUS
<1> HIDE DEF front, back
<1>5. /\ upto \in Seq(S) /\ Len(upto) = k
      /\ \A i \in 1..k : upto[i] = IF i < k THEN q[i] ELSE e
  BY <1>1, <1>2, <1>4, ConcatProperties
<1> HIDE DEF upto
<1>6. /\ upto \o back \in Seq(S)
      /\ Len(upto \o back) = Len(q) + 1
      /\ \A i \in 1..(Len(q) + 1) :
            (upto \o back)[i] = IF i <= k THEN upto[i] ELSE back[i - k]
  <2>1. /\ upto \o back \in Seq(S)
        /\ Len(upto \o back) = Len(upto) + Len(back)
        /\ \A i \in 1..(Len(upto) + Len(back)) :
             (upto \o back)[i] = IF i <= Len(upto) THEN upto[i]
                                 ELSE back[i - Len(upto)]
    BY <1>3, <1>5, ConcatProperties
  <2>2. Len(upto) + Len(back) = Len(q) + 1
    BY <1>1, <1>3, <1>5
  <2>3. QED
    BY <1>5, <2>1, <2>2
<1>7. \A i \in 1..(Len(q) + 1) :
        (upto \o back)[i] = IF i < k THEN q[i] ELSE IF i = k THEN e ELSE q[i - 1]
  BY <1>1, <1>3, <1>5, <1>6
<1>8. QED
  BY <1>6, <1>7 DEF InsertAt, front, back, upto

(* Insertion adds one element, and keeps a queue free of duplicates that   *)
(* did not hold it.                                                        *)
LEMMA QInsertSpec ==
  ASSUME NEW S, NEW q \in Seq(S), NEW e \in S, NEW later
  PROVE  /\ QInsert(e, q, later) \in Seq(S)
         /\ QInsert(e, q, later) # <<>>
         /\ ToSet(QInsert(e, q, later)) = ToSet(q) \cup {e}
         /\ IsInjective(q) /\ e \notin ToSet(q)
              => IsInjective(QInsert(e, q, later))
<1> DEFINE k == Len(q) - Passed(q, later) + 1
           r == InsertAt(q, k, e)
<1>1. Len(q) \in Nat /\ DOMAIN q = 1..Len(q)
  BY LenProperties
<1>2. k \in 1..(Len(q) + 1)
  BY <1>1, PassedSpec
<1> HIDE DEF k
<1>3. /\ r \in Seq(S) /\ Len(r) = Len(q) + 1
      /\ \A i \in 1..(Len(q) + 1) :
           r[i] = IF i < k THEN q[i] ELSE IF i = k THEN e ELSE q[i - 1]
  BY <1>2, InsertAtSpec
<1> HIDE DEF r
<1>4. DOMAIN r = 1..(Len(q) + 1)
  BY <1>3, LenProperties
<1>5. ToSet(r) \subseteq ToSet(q) \cup {e}
  <2>1. ASSUME NEW i \in 1..(Len(q) + 1)
        PROVE  r[i] = e \/ \E j \in 1..Len(q) : r[i] = q[j]
    <3>1. i < k => i \in 1..Len(q) /\ r[i] = q[i]
      BY <1>1, <1>2, <1>3
    <3>2. i > k => i - 1 \in 1..Len(q) /\ r[i] = q[i - 1]
      BY <1>1, <1>2, <1>3
    <3>3. i = k => r[i] = e
      BY <1>1, <1>2, <1>3
    <3>4. QED
      BY <1>1, <1>2, <3>1, <3>2, <3>3
  <2>2. QED
    BY <1>1, <1>4, <2>1 DEF ToSet
<1>6. e \in ToSet(r)
  BY <1>2, <1>3, <1>4 DEF ToSet
<1>7. ASSUME NEW i \in 1..Len(q) PROVE q[i] \in ToSet(r)
  <2>1. i < k => r[i] = q[i] /\ i \in DOMAIN r
    BY <1>1, <1>2, <1>3, <1>4
  <2>2. ~(i < k) => r[i + 1] = q[i] /\ i + 1 \in DOMAIN r
    BY <1>1, <1>2, <1>3, <1>4
  <2>3. QED
    BY <2>1, <2>2 DEF ToSet
<1>8. ToSet(r) = ToSet(q) \cup {e}
  BY <1>1, <1>5, <1>6, <1>7 DEF ToSet
<1>9. ASSUME IsInjective(q), e \notin ToSet(q) PROVE IsInjective(r)
  <2>1. ASSUME NEW i \in 1..(Len(q) + 1), NEW j \in 1..(Len(q) + 1), r[i] = r[j]
        PROVE  i = j
    <3>1. \A l \in 1..Len(q) : q[l] # e
      BY <1>1, <1>9 DEF ToSet
    <3>2. \A l, m \in 1..Len(q) : q[l] = q[m] => l = m
      BY <1>1, <1>9 DEF IsInjective
    <3>3. QED
      BY <1>1, <1>2, <1>3, <2>1, <3>1, <3>2
  <2>2. QED
    BY <1>4, <2>1 DEF IsInjective
<1>10. r # <<>>
  BY <1>1, <1>3
<1>11. QED
  BY <1>3, <1>8, <1>9, <1>10 DEF QInsert, r, k

(* Removal takes away one element and no other, whatever the queue; from a *)
(* queue without duplicates it takes it away altogether.                   *)
LEMMA QRemoveSpec ==
  ASSUME NEW S, NEW q \in Seq(S), NEW e
  PROVE  /\ QRemove(e, q) \in Seq(S)
         /\ ToSet(QRemove(e, q)) \subseteq ToSet(q)
         /\ ToSet(q) \ {e} \subseteq ToSet(QRemove(e, q))
         /\ IsInjective(q) => /\ IsInjective(QRemove(e, q))
                              /\ ToSet(QRemove(e, q)) = ToSet(q) \ {e}
<1>1. Len(q) \in Nat /\ DOMAIN q = 1..Len(q)
  BY LenProperties
<1>2. CASE e \notin ToSet(q)
  BY <1>2 DEF QRemove
<1>3. CASE e \in ToSet(q)
  <2> DEFINE k == CHOOSE i \in DOMAIN q : q[i] = e
             r == RemoveAt(q, k)
  <2>1. k \in 1..Len(q) /\ q[k] = e
    BY <1>1, <1>3 DEF ToSet
  <2> HIDE DEF k
  <2>2. /\ r \in Seq(S) /\ Len(r) = Len(q) - 1
        /\ \A i \in 1..(Len(q) - 1) : r[i] = IF i < k THEN q[i] ELSE q[i + 1]
    BY <2>1, RemoveAtSpec
  <2> HIDE DEF r
  <2>3. DOMAIN r = 1..(Len(q) - 1)
    BY <2>2, LenProperties
  <2>4. ToSet(r) \subseteq ToSet(q)
    BY <1>1, <2>1, <2>2, <2>3 DEF ToSet
  <2>5. ASSUME NEW i \in 1..Len(q), q[i] # e PROVE q[i] \in ToSet(r)
    <3>1. i < k => r[i] = q[i] /\ i \in DOMAIN r
      BY <1>1, <2>1, <2>2, <2>3
    <3>2. i > k => r[i - 1] = q[i] /\ i - 1 \in DOMAIN r
      BY <1>1, <2>1, <2>2, <2>3
    <3>3. QED
      BY <1>1, <2>1, <2>5, <3>1, <3>2 DEF ToSet
  <2>6. ToSet(q) \ {e} \subseteq ToSet(r)
    BY <1>1, <2>5 DEF ToSet
  <2>7. ASSUME IsInjective(q) PROVE IsInjective(r) /\ e \notin ToSet(r)
    <3>1. \A l, m \in 1..Len(q) : q[l] = q[m] => l = m
      BY <1>1, <2>7 DEF IsInjective
    <3>2. \A l, m \in 1..(Len(q) - 1) : r[l] = r[m] => l = m
      BY <1>1, <2>1, <2>2, <3>1
    <3>3. \A l \in 1..(Len(q) - 1) : r[l] # e
      BY <1>1, <2>1, <2>2, <3>1
    <3>4. QED
      BY <2>3, <3>2, <3>3 DEF IsInjective, ToSet
  <2>8. QRemove(e, q) = r
    BY <1>3 DEF QRemove, r, k
  <2>9. QED
    BY <2>2, <2>4, <2>6, <2>7, <2>8
<1>4. QED
  BY <1>2, <1>3

(* A queue in the order R: an insertion that goes before just the nodes     *)
(* that R puts after the new one keeps it, and so does a removal.          *)
Ordered(q, R) == \A i, j \in DOMAIN q : i < j => <<q[i], q[j]>> \in R

LEMMA InsertOrdered ==
  ASSUME NEW S, NEW q \in Seq(S), NEW e \in S, NEW later, NEW R,
         \A a, b, c \in S : <<a, b>> \in R /\ <<b, c>> \in R => <<a, c>> \in R,
         \A a \in S : IF a \in later THEN <<e, a>> \in R ELSE <<a, e>> \in R,
         Ordered(q, R)
  PROVE  Ordered(QInsert(e, q, later), R)
<1> DEFINE k == Len(q) - Passed(q, later) + 1
           r == InsertAt(q, k, e)
<1>1. /\ Len(q) \in Nat /\ DOMAIN q = 1..Len(q)
      /\ \A i \in 1..Len(q) : q[i] \in S
  BY ElementOfSeq, LenProperties
<1>2. /\ k \in 1..(Len(q) + 1)
      /\ \A i \in k..Len(q) : q[i] \in later
      /\ k > 1 => q[k - 1] \notin later
  <2> DEFINE n == Passed(q, later)
  <2>1. /\ n \in 0..Len(q)
        /\ \A i \in (Len(q) - n + 1)..Len(q) : q[i] \in later
        /\ n < Len(q) => q[Len(q) - n] \notin later
    BY PassedSpec
  <2> HIDE DEF n
  <2>2. k = Len(q) - n + 1 /\ k - 1 = Len(q) - n
    BY <1>1, <2>1 DEF n
  <2> HIDE DEF k
  <2>3. QED
    BY <1>1, <2>1, <2>2
<1> HIDE DEF k
<1>3. /\ r \in Seq(S) /\ Len(r) = Len(q) + 1
      /\ \A i \in 1..(Len(q) + 1) :
           r[i] = IF i < k THEN q[i] ELSE IF i = k THEN e ELSE q[i - 1]
  BY <1>2, InsertAtSpec
<1> HIDE DEF r
<1>4. DOMAIN r = 1..(Len(q) + 1)
  BY <1>3, LenProperties
<1> \A i, j \in 1..Len(q) : i < j => <<q[i], q[j]>> \in R
  BY <1>1 DEF Ordered
<1>5. \A i \in 1..Len(q) : IF i < k THEN <<q[i], e>> \in R
                                     ELSE <<e, q[i]>> \in R
  <2>1. ASSUME NEW i \in 1..Len(q), i < k PROVE <<q[i], e>> \in R
    <3>1. k - 1 \in 1..Len(q) /\ q[k - 1] \in S /\ q[k - 1] \notin later
      BY <1>1, <1>2, <2>1
    <3>2. i = k - 1 \/ <<q[i], q[k - 1]>> \in R
      BY <1>1, <1>2, <2>1, <3>1
    <3>3. QED
      BY <1>1, <3>1, <3>2
  <2>2. ASSUME NEW i \in 1..Len(q), ~(i < k) PROVE <<e, q[i]>> \in R
    <3>1. q[i] \in S /\ q[i] \in later
      BY <1>1, <1>2, <2>2
    <3>2. QED
      BY <3>1
  <2>3. QED
    BY <2>1, <2>2
<1>6. ASSUME NEW i \in 1..(Len(q) + 1), NEW j \in 1..(Len(q) + 1), i < j
      PROVE  <<r[i], r[j]>> \in R
  <2>1. CASE j < k
    BY <1>1, <1>2, <1>3, <1>6, <2>1
  <2>2. CASE j = k
    <3>1. i \in 1..Len(q) /\ i < k /\ r[i] = q[i] /\ r[j] = e
      BY <1>1, <1>2, <1>3, <1>6, <2>2
    <3>2. QED
      BY <1>5, <3>1
  <2>3. CASE j > k /\ i = k
    <3>1. j - 1 \in 1..Len(q) /\ ~(j - 1 < k)
      BY <1>1, <1>2, <2>3
    <3>2. r[i] = e /\ r[j] = q[j - 1]
      BY <1>1, <1>2, <1>3, <2>3
    <3>3. QED
      BY <1>5, <3>1, <3>2
  <2>4. CASE j > k /\ i < k
    <3>1. /\ i \in 1..Len(q) /\ j - 1 \in 1..Len(q) /\ i < j - 1
          /\ r[i] = q[i] /\ r[j] = q[j - 1]
      BY <1>1, <1>2, <1>3, <2>4
    <3>2. QED
      BY <3>1
  <2>5. CASE j > k /\ i > k
    <3>1. /\ i - 1 \in 1..Len(q) /\ j - 1 \in 1..Len(q) /\ i - 1 < j - 1
          /\ r[i] = q[i - 1] /\ r[j] = q[j - 1]
      BY <1>1, <1>2, <1>3, <1>6, <2>5
    <3>2. QED
      BY <3>1
  <2>6. QED
    BY <1>1, <1>2, <2>1, <2>2, <2>3, <2>4, <2>5
<1>7. QED
  BY <1>4, <1>6 DEF Ordered, QInsert, r, k

LEMMA RemoveOrdered ==
  ASSUME NEW S, NEW q \in Seq(S), NEW e, NEW R, Ordered(q, R)
  PROVE  Ordered(QRemove(e, q), R)
<1>1. Len(q) \in Nat /\ DOMAIN q = 1..Len(q)
  BY LenProperties
<1>2. CASE e \notin ToSet(q)
  BY <1>2 DEF QRemove
<1>3. CASE e \in ToSet(q)
  <2> DEFINE k == CHOOSE i \in DOMAIN q : q[i] = e
             r == RemoveAt(q, k)
  <2>1. k \in 1..Len(q)
    BY <1>1, <1>3 DEF ToSet
  <2> HIDE DEF k
  <2>2. /\ r \in Seq(S) /\ Len(r) = Len(q) - 1
        /\ \A i \in 1..(Len(q) - 1) : r[i] = IF i < k THEN q[i] ELSE q[i + 1]
    BY <2>1, RemoveAtSpec
  <2> HIDE DEF r
  <2>3. DOMAIN r = 1..(Len(q) - 1)
    BY <2>2, LenProperties
  <2>4. ASSUME NEW i \in 1..(Len(q) - 1), NEW j \in 1..(Len(q) - 1), i < j
        PROVE  <<r[i], r[j]>> \in R
    <3> DEFINE at(l) == IF l < k THEN l ELSE l + 1
    <3>1. at(i) \in 1..Len(q) /\ at(j) \in 1..Len(q) /\ at(i) < at(j)
      BY <1>1, <2>1, <2>4
    <3>2. r[i] = q[at(i)] /\ r[j] = q[at(j)]
      BY <2>2
    <3>3. \A l, m \in 1..Len(q) : l < m => <<q[l], q[m]>> \in R
      BY <1>1 DEF Ordered
    <3> HIDE DEF at
    <3>4. QED
      BY <3>1, <3>2, <3>3
  <2>5. Ordered(r, R)
    BY <2>3, <2>4 DEF Ordered
  <2>6. QED
    BY <1>3, <2>5 DEF QRemove, r, k
<1>4. QED
  BY <1>2, <1>3

(* The head comes before every other node.                                 *)
LEMMA HeadIsFirst ==
  ASSUME NEW S, NEW q \in Seq(S), q # <<>>, NEW R, Ordered(q, R)
  PROVE  \A a \in ToSet(q) : a = Head(q) \/ <<Head(q), a>> \in R
<1>1. Len(q) \in Nat /\ Len(q) # 0 /\ DOMAIN q = 1..Len(q)
  BY EmptySeq, LenProperties
<1>2. Head(q) = q[1] /\ 1 \in DOMAIN q
  BY <1>1, HeadTailProperties
<1>3. ASSUME NEW i \in DOMAIN q PROVE q[i] = Head(q) \/ <<Head(q), q[i]>> \in R
  BY <1>1, <1>2 DEF Ordered
<1>4. QED
  BY <1>3 DEF ToSet

=============================================================================
