------------------------------ MODULE Limits_proofs ------------------------------
(***************************************************************************)
(* Theorems about LruCache, about LimitListener, which counts in it, and   *)
(* about LimitHandler, which stands beside them.                           *)
(*                                                                         *)
(* For all keys, segments and sizes the segments of the cache stay in      *)
(* order, what leaves a full segment is the key that was used least        *)
(* recently, and what callers see is the map of ExpiringMap; nothing of    *)
(* that uses the listener. Then, for any number of connections, addresses  *)
(* and places, what the listener counts, and for any number of requests,   *)
(* clients and tokens, how many requests are served.                       *)
(***************************************************************************)
EXTENDS LimitListener, LimitHandler, SequenceTheorems, WellFoundedInduction, FiniteSetTheorems, TLAPS

-----------------------------------------------------------------------------
(* Lists                                                                   *)

LEMMA SmallestExists ==
  ASSUME NEW S \in SUBSET Nat, S # {}
  PROVE  Min(S) \in S /\ \A i \in S : Min(S) <= i
<1>1. IsWellFoundedOn(OpToRel(<, Nat), Nat)
  BY NatLessThanWellFounded
<1>2. PICK m \in S : \A i \in S : ~(<<i, m>> \in OpToRel(<, Nat))
  BY <1>1, WFMin
<1>3. ASSUME NEW i \in S PROVE m <= i
  <2>1. ~(i < m)
    BY <1>2 DEF OpToRel
  <2> QED
    BY <2>1
<1> QED
  BY <1>3 DEF Min

\* Removing a key closes the gap at one of its places.
LEMMA RemovedAt ==
  ASSUME NEW q \in Seq(Key), NEW k, k \in Range(q)
  PROVE  /\ RemoveFirst(q, k) \in Seq(Key)
         /\ Len(RemoveFirst(q, k)) = Len(q) - 1
         /\ \E i \in 1..Len(q) :
              /\ q[i] = k
              /\ \A j \in 1..Len(q) - 1 : RemoveFirst(q, k)[j] = IF j < i THEN q[j] ELSE q[j + 1]
<1> DEFINE P == {i \in 1..Len(q) : q[i] = k}
           n == Min(P)
           left == SubSeq(q, 1, n - 1)
           right == SubSeq(q, n + 1, Len(q))
<1>1. Len(q) \in Nat /\ DOMAIN q = 1..Len(q) /\ \A i \in 1..Len(q) : q[i] \in Key
  OBVIOUS
<1>2. P # {} /\ P \in SUBSET Nat
  BY <1>1 DEF Range
<1>3. n \in 1..Len(q) /\ q[n] = k
  BY <1>2, SmallestExists
<1>4. RemoveFirst(q, k) = left \o right
  <2>1. \E i \in 1..Len(q) : q[i] = k
    BY <1>3
  <2> QED
    BY <1>2, <2>1 DEF RemoveFirst, RemoveAt, SelectInSeq
<1> HIDE DEF n
<1>5. /\ left \in Seq(Key) /\ Len(left) = n - 1
      /\ \A j \in 1..n - 1 : left[j] = q[j]
  BY <1>1, <1>3, SubSeqProperties
<1>6. /\ right \in Seq(Key) /\ Len(right) = Len(q) - n
      /\ \A j \in 1..Len(q) - n : right[j] = q[j + n]
  <2>1. n + 1 \in Int /\ Len(q) \in Int /\ \A i \in n + 1..Len(q) : q[i] \in Key
    BY <1>1, <1>3
  <2>2. /\ right \in Seq(Key)
        /\ Len(right) = IF n + 1 <= Len(q) THEN Len(q) - (n + 1) + 1 ELSE 0
        /\ \A i \in 1..Len(q) - (n + 1) + 1 : right[i] = q[(n + 1) + i - 1]
    BY <2>1, SubSeqProperties
  <2> HIDE DEF left, right
  <2>3. n \in Int /\ Len(q) \in Int /\ 1 <= n /\ n <= Len(q)
    BY <1>1, <1>3
  <2>4. Len(right) = Len(q) - n
    BY ONLY <2>2, <2>3
  <2>5. ASSUME NEW j \in 1..Len(q) - n PROVE right[j] = q[j + n]
    <3>1. j \in 1..Len(q) - (n + 1) + 1 /\ (n + 1) + j - 1 = j + n
      BY ONLY <2>3, j \in 1..Len(q) - n
    <3> QED
      BY ONLY <2>2, <3>1
  <2> QED
    BY <2>2, <2>4, <2>5
<1>7. /\ left \o right \in Seq(Key) /\ Len(left \o right) = Len(q) - 1
      /\ \A j \in 1..Len(q) - 1 : (left \o right)[j] = IF j <= n - 1 THEN left[j] ELSE right[j - (n - 1)]
  <2> HIDE DEF left, right
  <2>1. /\ left \o right \in Seq(Key) /\ Len(left \o right) = Len(left) + Len(right)
        /\ \A j \in 1..Len(left) + Len(right) :
             (left \o right)[j] = IF j <= Len(left) THEN left[j] ELSE right[j - Len(left)]
    BY <1>5, <1>6, ConcatProperties
  <2>2. Len(left) + Len(right) = Len(q) - 1
    BY <1>1, <1>3, <1>5, <1>6
  <2> QED
    BY <1>5, <2>1, <2>2
<1>8. ASSUME NEW j \in 1..Len(q) - 1
      PROVE  (left \o right)[j] = IF j < n THEN q[j] ELSE q[j + 1]
  <2> HIDE DEF left, right
  <2>1. CASE j < n
    BY <1>1, <1>3, <1>5, <1>7, <2>1
  <2>2. CASE ~(j < n)
    <3>1. j - (n - 1) \in 1..Len(q) - n /\ (j - (n - 1)) + n = j + 1
      BY <1>1, <1>3, <2>2
    <3> QED
      BY <1>1, <1>3, <1>6, <1>7, <2>2, <3>1
  <2> QED
    BY <2>1, <2>2
<1> QED
  BY <1>3, <1>4, <1>7, <1>8

LEMMA NothingRemoved ==
  ASSUME NEW q \in Seq(Key), NEW k, k \notin Range(q)
  PROVE  RemoveFirst(q, k) = q
BY DEF RemoveFirst, Range

\* What a list without a key holds, and that the others keep their order.
Before(q, j, k) == \E m, n \in 1..Len(q) : m < n /\ q[m] = j /\ q[n] = k

LEMMA Removed ==
  ASSUME NEW q \in Seq(Key), NEW k
  PROVE  /\ RemoveFirst(q, k) \in Seq(Key)
         /\ \A a \in Range(RemoveFirst(q, k)) : a \in Range(q)
         /\ \A a \in Range(q) : a # k => a \in Range(RemoveFirst(q, k))
         /\ \A a, b : Before(q, a, b) /\ a # k /\ b # k => Before(RemoveFirst(q, k), a, b)
         /\ \A a, b : Before(RemoveFirst(q, k), a, b) => Before(q, a, b)
         /\ IsInjective(q) =>
              /\ IsInjective(RemoveFirst(q, k))
              /\ Range(RemoveFirst(q, k)) = Range(q) \ {k}
              /\ \A a, b : Before(RemoveFirst(q, k), a, b) => a # k /\ b # k
<1>1. CASE k \notin Range(q)
  BY <1>1, NothingRemoved DEF Range, Before
<1>2. CASE k \in Range(q)
  <2> DEFINE r == RemoveFirst(q, k)
  <2>1. r \in Seq(Key) /\ Len(r) = Len(q) - 1
    BY <1>2, RemovedAt
  <2>2. PICK i \in 1..Len(q) : q[i] = k /\ \A j \in 1..Len(q) - 1 : r[j] = IF j < i THEN q[j] ELSE q[j + 1]
    BY <1>2, RemovedAt
  <2> HIDE DEF r
  <2>3. /\ Len(q) \in Nat /\ DOMAIN q = 1..Len(q) /\ DOMAIN r = 1..Len(q) - 1 /\ Len(r) \in Nat
    BY <2>1
  <2>4. \A j \in 1..Len(q) - 1 : r[j] = IF j < i THEN q[j] ELSE q[j + 1]
    BY <2>2
  <2>5. ASSUME NEW a \in Range(r) PROVE a \in Range(q)
    <3>1. PICK j \in 1..Len(q) - 1 : r[j] = a
      BY <2>3 DEF Range
    <3>2. j \in 1..Len(q) /\ j + 1 \in 1..Len(q) /\ (a = q[j] \/ a = q[j + 1])
      BY <2>3, <2>4, <3>1
    <3> QED
      BY <2>3, <3>2 DEF Range
  <2>6. ASSUME NEW m \in 1..Len(q), m # i
        PROVE  LET j == IF m < i THEN m ELSE m - 1 IN j \in 1..Len(q) - 1 /\ r[j] = q[m]
    BY <2>3, <2>4, <2>6
  <2>7. ASSUME NEW a \in Range(q), a # k PROVE a \in Range(r)
    <3>1. PICK m \in 1..Len(q) : q[m] = a
      BY <2>3 DEF Range
    <3>2. m # i
      BY <2>2, <2>7, <3>1
    <3> QED
      BY <2>3, <2>6, <3>1, <3>2 DEF Range
  <2>8. ASSUME NEW a, NEW b, Before(q, a, b), a # k, b # k PROVE Before(r, a, b)
    <3>1. PICK m, n \in 1..Len(q) : m < n /\ q[m] = a /\ q[n] = b
      BY <2>8 DEF Before
    <3>2. m # i /\ n # i
      BY <2>2, <2>8, <3>1
    <3> DEFINE j(x) == IF x < i THEN x ELSE x - 1
    <3>3. j(m) \in 1..Len(r) /\ r[j(m)] = a /\ j(n) \in 1..Len(r) /\ r[j(n)] = b
      BY <2>1, <2>6, <3>1, <3>2
    <3>4. j(m) < j(n)
      BY <2>3, <3>1, <3>2
    <3> QED
      BY <3>3, <3>4 DEF Before
  <2>9. ASSUME NEW a, NEW b, Before(r, a, b) PROVE Before(q, a, b)
    <3>1. PICK m, n \in 1..Len(q) - 1 : m < n /\ r[m] = a /\ r[n] = b
      BY <2>1, <2>9 DEF Before
    <3> DEFINE j(x) == IF x < i THEN x ELSE x + 1
    <3>2. j(m) \in 1..Len(q) /\ q[j(m)] = a /\ j(n) \in 1..Len(q) /\ q[j(n)] = b
      BY <2>3, <2>4, <3>1
    <3>3. j(m) < j(n)
      BY <2>3, <3>1
    <3> QED
      BY <3>2, <3>3 DEF Before
  <2>10. ASSUME IsInjective(q) PROVE IsInjective(r) /\ k \notin Range(r)
    <3>1. \A x, y \in 1..Len(q) : q[x] = q[y] => x = y
      BY <2>3, <2>10 DEF IsInjective
    <3>2. ASSUME NEW x \in 1..Len(q) - 1, NEW y \in 1..Len(q) - 1, r[x] = r[y] PROVE x = y
      <4> DEFINE j(z) == IF z < i THEN z ELSE z + 1
      <4>1. j(x) \in 1..Len(q) /\ j(y) \in 1..Len(q) /\ r[x] = q[j(x)] /\ r[y] = q[j(y)]
        BY <2>3, <2>4
      <4>2. j(x) = j(y)
        BY <3>1, <3>2, <4>1
      <4> QED
        BY <2>3, <4>2
    <3>3. ASSUME NEW x \in 1..Len(q) - 1 PROVE r[x] # k
      <4> DEFINE j == IF x < i THEN x ELSE x + 1
      <4>1. j \in 1..Len(q) /\ j # i /\ r[x] = q[j]
        BY <2>3, <2>4
      <4> QED
        BY <2>2, <3>1, <4>1
    <3> QED
      BY <2>3, <3>2, <3>3 DEF IsInjective, Range
  <2>11. ASSUME IsInjective(q), NEW a, NEW b, Before(r, a, b) PROVE a # k /\ b # k
    BY <2>3, <2>10, <2>11 DEF Before, Range
  <2>12. IsInjective(q) => IsInjective(r) /\ Range(r) = Range(q) \ {k}
    BY <2>5, <2>7, <2>10
  <2> QED
    BY <2>1, <2>5, <2>7, <2>8, <2>9, <2>11, <2>12 DEF r
<1> QED
  BY <1>1, <1>2

\* A key in front of a list.
LEMMA InFront ==
  ASSUME NEW q \in Seq(Key), NEW k \in Key
  PROVE  /\ <<k>> \o q \in Seq(Key) /\ Len(<<k>> \o q) = Len(q) + 1
         /\ Range(<<k>> \o q) = {k} \cup Range(q)
         /\ IsInjective(q) /\ k \notin Range(q) => IsInjective(<<k>> \o q)
         /\ \A a, b : Before(q, a, b) => Before(<<k>> \o q, a, b)
         /\ \A b \in Range(q) : Before(<<k>> \o q, k, b)
         /\ \A a, b : Before(<<k>> \o q, a, b) => Before(q, a, b) \/ (a = k /\ b \in Range(q))
<1> DEFINE r == <<k>> \o q
<1>1. /\ r \in Seq(Key) /\ Len(r) = Len(q) + 1
      /\ \A i \in 1..Len(q) + 1 : r[i] = IF i <= 1 THEN k ELSE q[i - 1]
  <2>1. <<k>> \in Seq(Key) /\ Len(<<k>>) = 1 /\ <<k>>[1] = k
    OBVIOUS
  <2> QED
    BY <2>1, ConcatProperties
<1> HIDE DEF r
<1>2. Len(q) \in Nat /\ DOMAIN q = 1..Len(q) /\ DOMAIN r = 1..Len(q) + 1
  BY <1>1
<1>3. r[1] = k /\ \A i \in 1..Len(q) : i + 1 \in 1..Len(q) + 1 /\ r[i + 1] = q[i]
  BY <1>1, <1>2
<1>4. \A i \in 1..Len(q) + 1 : i = 1 \/ (i - 1 \in 1..Len(q) /\ r[i] = q[i - 1])
  BY <1>1, <1>2
<1>5. Range(r) = {k} \cup Range(q)
  <2>1. ASSUME NEW a \in Range(r) PROVE a \in {k} \cup Range(q)
    <3>1. PICK i \in 1..Len(q) + 1 : r[i] = a
      BY <1>2 DEF Range
    <3> QED
      BY <1>2, <1>3, <1>4, <3>1 DEF Range
  <2>2. ASSUME NEW a \in {k} \cup Range(q) PROVE a \in Range(r)
    <3>1. CASE a = k
      BY <1>2, <1>3, <3>1 DEF Range
    <3>2. CASE a \in Range(q)
      BY <1>2, <1>3, <3>2 DEF Range
    <3> QED
      BY <3>1, <3>2
  <2> QED
    BY <2>1, <2>2
<1>6. ASSUME IsInjective(q), k \notin Range(q) PROVE IsInjective(r)
  <2>1. (\A x, y \in 1..Len(q) : q[x] = q[y] => x = y) /\ \A x \in 1..Len(q) : q[x] # k
    BY <1>2, <1>6 DEF IsInjective, Range
  <2>2. ASSUME NEW x \in 1..Len(q) + 1, NEW y \in 1..Len(q) + 1, r[x] = r[y] PROVE x = y
    BY <1>2, <1>3, <1>4, <2>1, <2>2
  <2> QED
    BY <1>2, <2>2 DEF IsInjective
<1>7. ASSUME NEW a, NEW b, Before(q, a, b) PROVE Before(r, a, b)
  <2>1. PICK m, n \in 1..Len(q) : m < n /\ q[m] = a /\ q[n] = b
    BY <1>7 DEF Before
  <2>2. m + 1 < n + 1 /\ r[m + 1] = a /\ r[n + 1] = b /\ m + 1 \in 1..Len(r) /\ n + 1 \in 1..Len(r)
    BY <1>1, <1>2, <1>3, <2>1
  <2> QED
    BY <2>2 DEF Before
<1>8. ASSUME NEW b \in Range(q) PROVE Before(r, k, b)
  <2>1. PICK n \in 1..Len(q) : q[n] = b
    BY <1>2 DEF Range
  <2>2. 1 < n + 1 /\ r[1] = k /\ r[n + 1] = b /\ 1 \in 1..Len(r) /\ n + 1 \in 1..Len(r)
    BY <1>1, <1>2, <1>3, <2>1
  <2> QED
    BY <2>2 DEF Before
<1>9. ASSUME NEW a, NEW b, Before(r, a, b) PROVE Before(q, a, b) \/ (a = k /\ b \in Range(q))
  <2>1. PICK m, n \in 1..Len(q) + 1 : m < n /\ r[m] = a /\ r[n] = b
    BY <1>1, <1>9 DEF Before
  <2>2. n - 1 \in 1..Len(q) /\ b = q[n - 1]
    BY <1>2, <1>4, <2>1
  <2>3. CASE m = 1
    BY <1>2, <1>3, <2>1, <2>2, <2>3 DEF Range
  <2>4. CASE m # 1
    <3>1. m - 1 \in 1..Len(q) /\ a = q[m - 1] /\ m - 1 < n - 1
      BY <1>2, <1>4, <2>1, <2>4
    <3> QED
      BY <2>2, <3>1 DEF Before
  <2> QED
    BY <2>3, <2>4
<1> QED
  BY <1>1, <1>5, <1>6, <1>7, <1>8, <1>9 DEF r

-----------------------------------------------------------------------------
(* Segments                                                                *)

\* What TypeOK says of one segment.
SegmentOk(s, c) ==
  /\ c = [order |-> c.order, elem |-> c.elem]
  /\ c.order \in Seq(Key) /\ c.elem \in [DOMAIN c.elem -> CacheElement]
  /\ Len(c.order) <= SegmentSize
  /\ IsInjective(c.order) /\ Range(c.order) = DOMAIN c.elem
  /\ \A k \in DOMAIN c.elem : SegmentOf[k] = s

\* What a call on key k may leave of the segment c.
Result(k, c, d) ==
  \/ ~Has(c, k) /\ d = c
  \/ Has(c, k) /\ (d = MoveToFront(c, k) \/ d = SafeDeleteByKey(c, k))
  \/ \E e \in CacheElement : d = Store(c, k, e)

LEMMA SomeRoom == SegmentSize \in Nat \ {0}
<1>1. SegmentCount \in Nat \ {0} /\ MaxEntry \in Nat \ {0}
  BY LruCacheAssumption DEF LruCacheAssumption
<1> DEFINE a == MaxEntry + SegmentCount - 1
<1>2. a \in Nat /\ a >= SegmentCount
  BY <1>1
<1>3. \A x \in Nat, n \in Nat \ {0} : x >= n => x \div n \in Nat /\ x \div n >= 1
  OBVIOUS
<1> QED
  BY <1>1, <1>2, <1>3 DEF SegmentSize

LEMMA Deleted ==
  ASSUME NEW s, NEW c, SegmentOk(s, c), NEW k, Has(c, k)
  PROVE  LET d == SafeDeleteByKey(c, k) IN
         /\ SegmentOk(s, d) /\ Len(d.order) = Len(c.order) - 1
         /\ d.order = RemoveFirst(c.order, k)
         /\ DOMAIN d.elem = DOMAIN c.elem \ {k} /\ Range(d.order) = Range(c.order) \ {k}
         /\ \A j \in DOMAIN d.elem : d.elem[j] = c.elem[j]
<1> DEFINE d == SafeDeleteByKey(c, k)
<1>1. /\ c.order \in Seq(Key) /\ c.elem \in [DOMAIN c.elem -> CacheElement] /\ k \in Range(c.order)
      /\ Len(c.order) <= SegmentSize /\ IsInjective(c.order) /\ Range(c.order) = DOMAIN c.elem
      /\ \A j \in DOMAIN c.elem : SegmentOf[j] = s
  BY DEF SegmentOk, Has
<1>2. d.order = RemoveFirst(c.order, k) /\ d.elem = [j \in DOMAIN c.elem \ {k} |-> c.elem[j]]
      /\ d = [order |-> d.order, elem |-> d.elem]
  BY DEF SafeDeleteByKey
<1> HIDE DEF d
<1>3. /\ d.order \in Seq(Key) /\ Len(d.order) = Len(c.order) - 1 /\ IsInjective(d.order)
      /\ Range(d.order) = Range(c.order) \ {k}
  BY <1>1, <1>2, RemovedAt, Removed
<1>4. DOMAIN d.elem = DOMAIN c.elem \ {k} /\ d.elem \in [DOMAIN d.elem -> CacheElement]
      /\ \A j \in DOMAIN d.elem : d.elem[j] = c.elem[j]
  BY <1>1, <1>2
<1>5. Len(d.order) <= SegmentSize
  BY <1>1, <1>3, SomeRoom
<1>6. SegmentOk(s, d)
  BY <1>1, <1>2, <1>3, <1>4, <1>5 DEF SegmentOk
<1> QED
  BY <1>2, <1>3, <1>4, <1>6 DEF d

LEMMA Moved ==
  ASSUME NEW s, NEW c, SegmentOk(s, c), NEW k \in Key, Has(c, k)
  PROVE  LET d == MoveToFront(c, k) IN
         /\ SegmentOk(s, d) /\ d.elem = c.elem
         /\ d.order = <<k>> \o RemoveFirst(c.order, k)
<1> DEFINE d == MoveToFront(c, k)
           r == RemoveFirst(c.order, k)
<1>1. /\ c.order \in Seq(Key) /\ c.elem \in [DOMAIN c.elem -> CacheElement] /\ k \in Range(c.order)
      /\ Len(c.order) <= SegmentSize /\ IsInjective(c.order) /\ Range(c.order) = DOMAIN c.elem
      /\ \A j \in DOMAIN c.elem : SegmentOf[j] = s
      /\ c = [order |-> c.order, elem |-> c.elem]
  BY DEF SegmentOk, Has
<1>2. d.order = <<k>> \o r /\ d.elem = c.elem /\ d = [order |-> d.order, elem |-> d.elem]
  <2> DEFINE o == c.order
             e == c.elem
             q == <<k>> \o r
  <2>1. d = [c EXCEPT !.order = q] /\ c = [order |-> o, elem |-> e]
    BY <1>1 DEF MoveToFront
  <2> HIDE DEF o, e, q, r, d
  <2>2. d = [order |-> q, elem |-> e]
    BY ONLY <2>1
  <2>3. d.order = q /\ d.elem = e /\ d = [order |-> d.order, elem |-> d.elem]
    BY ONLY <2>2
  <2> QED
    BY <2>3 DEF q, e
<1>3. /\ r \in Seq(Key) /\ Len(r) = Len(c.order) - 1 /\ IsInjective(r)
      /\ Range(r) = Range(c.order) \ {k}
  BY <1>1, RemovedAt, Removed
<1> HIDE DEF d, r
<1>4. /\ d.order \in Seq(Key) /\ Len(d.order) = Len(r) + 1 /\ IsInjective(d.order)
      /\ Range(d.order) = {k} \cup Range(r)
  BY <1>2, <1>3, InFront
<1>5. Len(d.order) <= SegmentSize
  <2>1. Len(c.order) \in Nat
    BY <1>1
  <2> QED
    BY <1>1, <1>3, <1>4, <2>1
<1>6. Range(d.order) = Range(c.order)
  BY <1>1, <1>3, <1>4
<1>7. SegmentOk(s, d)
  BY <1>1, <1>2, <1>4, <1>5, <1>6 DEF SegmentOk
<1> QED
  BY <1>2, <1>7 DEF d, r

\* A full segment is rid of its last element, which is older than the others.
LEMMA OldestRemoved ==
  ASSUME NEW s, NEW c, SegmentOk(s, c), c.order # <<>>
  PROVE  LET d == SafeRemoveOldest(c)  k == Last(c.order) IN
         /\ Has(c, k) /\ d = SafeDeleteByKey(c, k)
         /\ \A j \in DOMAIN c.elem \ {k} : Before(c.order, j, k)
<1> DEFINE n == Len(c.order)
<1>1. c.order \in Seq(Key) /\ DOMAIN c.order = 1..n /\ n \in Nat \ {0} /\ Range(c.order) = DOMAIN c.elem
  BY DEF SegmentOk
<1>2. Last(c.order) = c.order[n] /\ n \in 1..n
  BY <1>1 DEF Last
<1>3. Has(c, Last(c.order))
  BY <1>1, <1>2 DEF Has, Range
<1>4. ASSUME NEW j \in DOMAIN c.elem, j # Last(c.order) PROVE Before(c.order, j, Last(c.order))
  <2>1. PICK i \in 1..n : c.order[i] = j
    BY <1>1 DEF Range
  <2>2. i # n
    BY <1>2, <1>4, <2>1
  <2>3. i < n
    BY <1>1, <2>1, <2>2
  <2> QED
    BY <1>2, <2>1, <2>3 DEF Before
<1> QED
  BY <1>3, <1>4 DEF SafeRemoveOldest

\* Storing e under k, in a new place or in the old one, which drops at most the
\* last element.
StoreLeaves(s, c, k, e, d) ==
  /\ SegmentOk(s, d) /\ Has(d, k) /\ d.elem[k] = e
  /\ \A j \in DOMAIN d.elem \ {k} : j \in DOMAIN c.elem /\ d.elem[j] = c.elem[j]
  /\ \/ /\ DOMAIN d.elem = DOMAIN c.elem \cup {k}
        /\ d.order = <<k>> \o RemoveFirst(c.order, k)
     \/ /\ ~Has(c, k)
        /\ \E j \in DOMAIN c.elem :
             /\ DOMAIN d.elem = (DOMAIN c.elem \ {j}) \cup {k}
             /\ d.order = <<k>> \o RemoveFirst(c.order, j)
             /\ \A i \in DOMAIN c.elem \ {j} : Before(c.order, i, j)

LEMMA Stored ==
  ASSUME NEW s, NEW c, SegmentOk(s, c), NEW k \in Key, SegmentOf[k] = s, NEW e \in CacheElement
  PROVE  StoreLeaves(s, c, k, e, Store(c, k, e))
<1> DEFINE d == Store(c, k, e)
<1>1. /\ c.order \in Seq(Key) /\ c.elem \in [DOMAIN c.elem -> CacheElement]
      /\ Range(c.order) = DOMAIN c.elem /\ Len(c.order) <= SegmentSize
  BY DEF SegmentOk
<1>2. CASE Has(c, k)
  <2> DEFINE m == MoveToFront(c, k)
  <2>1. SegmentOk(s, m) /\ m.elem = c.elem /\ m.order = <<k>> \o RemoveFirst(c.order, k)
    BY <1>2, Moved
  <2>2. d = [m EXCEPT !.elem[k] = e]
    BY <1>2 DEF Store
  <2> HIDE DEF m, d
  <2>3. d.order = m.order /\ d.elem = [c.elem EXCEPT ![k] = e] /\ d = [order |-> d.order, elem |-> d.elem]
    <3> DEFINE o == m.order
               x == m.elem
               y == [x EXCEPT ![k] = e]
    <3>1. m = [order |-> o, elem |-> x] /\ d = [m EXCEPT !.elem = y]
      BY <2>1, <2>2 DEF SegmentOk
    <3> HIDE DEF o, x, y
    <3>2. d = [order |-> o, elem |-> y]
      BY ONLY <3>1
    <3>3. d.order = o /\ d.elem = y /\ d = [order |-> d.order, elem |-> d.elem]
      BY ONLY <3>2
    <3> QED
      BY <2>1, <3>3 DEF o, x, y
  <2>4. /\ DOMAIN d.elem = DOMAIN c.elem /\ k \in DOMAIN c.elem /\ d.elem[k] = e
        /\ d.elem \in [DOMAIN d.elem -> CacheElement]
        /\ \A j \in DOMAIN d.elem \ {k} : d.elem[j] = c.elem[j]
    BY <1>1, <1>2, <2>3 DEF Has
  <2>5. SegmentOk(s, d)
    BY <2>1, <2>3, <2>4 DEF SegmentOk
  <2>6. DOMAIN d.elem = DOMAIN c.elem \cup {k}
    BY <2>4
  <2> QED
    BY <2>1, <2>3, <2>4, <2>5, <2>6 DEF Has, d, StoreLeaves
<1>3. ASSUME ~Has(c, k), NEW b, SegmentOk(s, b), Len(b.order) + 1 <= SegmentSize,
             DOMAIN b.elem \subseteq DOMAIN c.elem, \A j \in DOMAIN b.elem : b.elem[j] = c.elem[j],
             d = [order |-> <<k>> \o b.order,
                  elem |-> [j \in DOMAIN b.elem \cup {k} |-> IF j = k THEN e ELSE b.elem[j]]]
      PROVE  /\ SegmentOk(s, d) /\ Has(d, k) /\ d.elem[k] = e
             /\ DOMAIN d.elem = DOMAIN b.elem \cup {k}
             /\ d.order = <<k>> \o b.order
             /\ \A j \in DOMAIN d.elem \ {k} : j \in DOMAIN c.elem /\ d.elem[j] = c.elem[j]
  <2> HIDE DEF d
  <2>1. /\ b.order \in Seq(Key) /\ b.elem \in [DOMAIN b.elem -> CacheElement]
        /\ Range(b.order) = DOMAIN b.elem /\ IsInjective(b.order)
        /\ \A j \in DOMAIN b.elem : SegmentOf[j] = s
    BY <1>3 DEF SegmentOk
  <2>2. k \notin DOMAIN b.elem
    BY <1>3 DEF Has
  <2>3. d.order = <<k>> \o b.order /\ d = [order |-> d.order, elem |-> d.elem]
        /\ d.elem = [j \in DOMAIN b.elem \cup {k} |-> IF j = k THEN e ELSE b.elem[j]]
    BY <1>3
  <2>4. /\ d.order \in Seq(Key) /\ Len(d.order) = Len(b.order) + 1 /\ IsInjective(d.order)
        /\ Range(d.order) = {k} \cup DOMAIN b.elem
    BY <2>1, <2>2, <2>3, InFront
  <2>5. /\ DOMAIN d.elem = DOMAIN b.elem \cup {k} /\ d.elem[k] = e
        /\ d.elem \in [DOMAIN d.elem -> CacheElement]
        /\ \A j \in DOMAIN d.elem \ {k} : d.elem[j] = b.elem[j]
    BY <2>1, <2>2, <2>3
  <2>6. SegmentOk(s, d)
    BY <1>3, <2>1, <2>3, <2>4, <2>5 DEF SegmentOk
  <2> QED
    BY <1>3, <2>3, <2>5, <2>6 DEF Has
<1>4. CASE ~Has(c, k) /\ Len(c.order) + 1 <= SegmentSize
  <2>1. d = [order |-> <<k>> \o c.order,
             elem |-> [j \in DOMAIN c.elem \cup {k} |-> IF j = k THEN e ELSE c.elem[j]]]
    <3>1. (Len(c.order) + 1 > SegmentSize) = FALSE
      BY <1>1, <1>4, SomeRoom
    <3>2. (IF Len(c.order) + 1 > SegmentSize THEN SafeRemoveOldest(c) ELSE c) = c
      BY <3>1, Zenon
    <3> QED
      BY <1>4, <3>2, Zenon DEF Store, SetInner
  <2>2. RemoveFirst(c.order, k) = c.order
    BY <1>1, <1>4, NothingRemoved DEF Has
  <2> HIDE DEF d
  <2>3. /\ SegmentOk(s, d) /\ Has(d, k) /\ d.elem[k] = e
        /\ DOMAIN d.elem = DOMAIN c.elem \cup {k}
        /\ d.order = <<k>> \o c.order
        /\ \A j \in DOMAIN d.elem \ {k} : j \in DOMAIN c.elem /\ d.elem[j] = c.elem[j]
    BY <1>3, <1>4, <2>1
  <2> QED
    BY <2>2, <2>3 DEF d, StoreLeaves
<1>5. CASE ~Has(c, k) /\ ~(Len(c.order) + 1 <= SegmentSize)
  <2> DEFINE b == SafeRemoveOldest(c)
             l == Last(c.order)
  <2>1. Len(c.order) \in Nat /\ c.order # <<>>
    BY <1>1, <1>5, SomeRoom
  <2>2. Has(c, l) /\ b = SafeDeleteByKey(c, l) /\ \A j \in DOMAIN c.elem \ {l} : Before(c.order, j, l)
    BY <2>1, OldestRemoved
  <2>3. d = [order |-> <<k>> \o b.order,
             elem |-> [j \in DOMAIN b.elem \cup {k} |-> IF j = k THEN e ELSE b.elem[j]]]
    <3>1. (Len(c.order) + 1 > SegmentSize) = TRUE
      BY <1>1, <1>5, <2>1, SomeRoom
    <3>2. (IF Len(c.order) + 1 > SegmentSize THEN SafeRemoveOldest(c) ELSE c) = b
      BY <3>1, Zenon
    <3> QED
      BY <1>5, <3>2, Zenon DEF Store, SetInner
  <2> HIDE DEF b, l, d
  <2>4. /\ SegmentOk(s, b) /\ Len(b.order) = Len(c.order) - 1 /\ b.order = RemoveFirst(c.order, l)
        /\ DOMAIN b.elem = DOMAIN c.elem \ {l}
        /\ \A j \in DOMAIN b.elem : b.elem[j] = c.elem[j]
    BY <2>2, Deleted
  <2>5. Len(b.order) + 1 <= SegmentSize
    BY <1>1, <2>1, <2>4, SomeRoom
  <2>6. /\ SegmentOk(s, d) /\ Has(d, k) /\ d.elem[k] = e
        /\ DOMAIN d.elem = DOMAIN b.elem \cup {k}
        /\ d.order = <<k>> \o b.order
        /\ \A j \in DOMAIN d.elem \ {k} : j \in DOMAIN c.elem /\ d.elem[j] = c.elem[j]
    BY <1>3, <1>5, <2>3, <2>4, <2>5
  <2>7. l \in DOMAIN c.elem
    BY <2>2 DEF Has
  <2> QED
    BY <1>5, <2>2, <2>4, <2>6, <2>7 DEF d, StoreLeaves
<1>6. Len(c.order) + 1 <= SegmentSize \/ ~(Len(c.order) + 1 <= SegmentSize)
  OBVIOUS
<1> QED
  BY <1>2, <1>4, <1>5, <1>6

-----------------------------------------------------------------------------
(* The calls                                                               *)

CacheInv ==
  /\ now \in 0..Horizon
  /\ cache = [s \in 1..SegmentCount |-> cache[s]]
  /\ \A s \in 1..SegmentCount : SegmentOk(s, cache[s])

\* A call that is not refused.
Works(call, k, ok, val, d) ==
  Return(call, k, ok, val, d) /\ Result(k, cache[SegmentOf[k]], d)

LEMMA ElementTypes ==
  ASSUME NEW v \in Value \cup MinCount..MaxCount, NEW ttl \in Int, ttl = Never \/ ttl >= 0, now \in Nat
  PROVE  Element(v, ttl) \in CacheElement
<1>1. (IF ttl = Never THEN Never ELSE now + ttl) \in {Never} \cup Nat
  OBVIOUS
<1> DEFINE x == IF ttl = Never THEN Never ELSE now + ttl
<1>2. Element(v, ttl) = [data |-> v, expire |-> x]
  BY DEF Element
<1> HIDE DEF x
<1> QED
  BY <1>1, <1>2 DEF CacheElement, x

\* The segment of a key, and the element that is there.
LEMMA SegmentFacts ==
  ASSUME CacheInv, NEW k \in Key
  PROVE  /\ SegmentOf[k] \in 1..SegmentCount /\ SegmentOk(SegmentOf[k], cache[SegmentOf[k]])
         /\ Has(cache[SegmentOf[k]], k) =>
              /\ cache[SegmentOf[k]].elem[k] \in CacheElement
              /\ cache[SegmentOf[k]].elem[k].data \in Value \cup MinCount..MaxCount
              /\ cache[SegmentOf[k]].elem[k].expire \in {Never} \cup Nat
<1> DEFINE c == cache[SegmentOf[k]]
<1>1. SegmentOf[k] \in 1..SegmentCount /\ SegmentOk(SegmentOf[k], c)
  BY LruCacheAssumption DEF LruCacheAssumption, CacheInv
<1>2. c.elem \in [DOMAIN c.elem -> CacheElement]
  BY <1>1 DEF SegmentOk
<1> HIDE DEF c
<1>3. Has(c, k) => c.elem[k] \in CacheElement
  BY <1>2 DEF Has
<1>4. Has(c, k) => c.elem[k].data \in Value \cup MinCount..MaxCount /\ c.elem[k].expire \in {Never} \cup Nat
  BY <1>3 DEF CacheElement
<1> QED
  BY <1>1, <1>3, <1>4 DEF c

\* IncreaseOne and DecreaseOne go on from a number that lives, or start anew.
Live(k) == Has(cache[SegmentOf[k]], k) /\ Alive(cache[SegmentOf[k]].elem[k])
Number(k) == cache[SegmentOf[k]].elem[k].data

LEMMA CountCases ==
  ASSUME CacheInv, NEW call, NEW k \in Key, NEW d \in {1, -1}, NEW first \in {0, 1}, NEW ttl \in Int,
         Count(call, k, d, first, ttl)
  PROVE  LET c == cache[SegmentOf[k]]
             To(n) == /\ n \in MinCount..MaxCount /\ Element(n, ttl) \in CacheElement
                      /\ Return(call, k, TRUE, n, Store(c, k, Element(n, ttl)))
         IN
         \/ ttl <= 0 /\ ttl # Never /\ Refuse(call, k)
         \/ /\ ttl > 0 \/ ttl = Never
            /\ \/ ~Live(k) /\ To(first)
               \/ /\ Live(k) /\ Number(k) \in MinCount..MaxCount
                  /\ Number(k) # (IF d = 1 THEN MaxCount ELSE MinCount) /\ To(Number(k) + d)
               \/ /\ Live(k)
                  /\ ~(Number(k) \in MinCount..MaxCount /\ Number(k) # (IF d = 1 THEN MaxCount ELSE MinCount))
                  /\ Return(call, k, FALSE, None, MoveToFront(c, k))
<1> DEFINE c == cache[SegmentOf[k]]
           v == c.elem[k].data
           To(n) == Return(call, k, TRUE, n, Store(c, k, Element(n, ttl)))
           limit == IF d = 1 THEN MaxCount ELSE MinCount
<1>1. /\ MinCount \in Int /\ MaxCount \in Int /\ MinCount <= 0 /\ MaxCount >= 1 /\ Never = -1
  BY LruCacheAssumption DEF LruCacheAssumption
<1>2. first \in MinCount..MaxCount
  BY <1>1
<1>3. v \in MinCount..MaxCount /\ v # limit => v + d \in MinCount..MaxCount
  BY <1>1
<1>4. ASSUME ttl > 0 \/ ttl = Never, NEW n \in MinCount..MaxCount PROVE Element(n, ttl) \in CacheElement
  <2>1. now \in Nat
    BY LruCacheAssumption DEF LruCacheAssumption, CacheInv
  <2> QED
    BY <1>4, <2>1, ElementTypes
<1>5. \/ ttl <= 0 /\ ttl # Never /\ Refuse(call, k)
      \/ /\ ~(ttl <= 0 /\ ttl # Never)
         /\ \/ ~Live(k) /\ To(first)
            \/ /\ Live(k) /\ v \in MinCount..MaxCount
               /\ v # limit /\ To(v + d)
            \/ /\ Live(k)
               /\ ~(v \in MinCount..MaxCount /\ v # limit)
               /\ Return(call, k, FALSE, None, MoveToFront(c, k))
  BY Zenon DEF Count, Live
<1>6. ~(ttl <= 0 /\ ttl # Never) => ttl > 0 \/ ttl = Never
  OBVIOUS
<1> HIDE DEF To
<1>7. To(first) => Return(call, k, TRUE, first, Store(c, k, Element(first, ttl)))
  BY DEF To
<1>8. To(v + d) => Return(call, k, TRUE, v + d, Store(c, k, Element(v + d, ttl)))
  BY DEF To
<1> QED
  BY <1>2, <1>3, <1>4, <1>5, <1>6, <1>7, <1>8 DEF Number

LEMMA CountWorks ==
  ASSUME CacheInv, NEW k \in Key, NEW ttl \in Ttl, IncreaseOne(k, ttl) \/ DecreaseOne(k, ttl)
  PROVE  \/ \E call : Refuse(call, k)
         \/ \E call, ok, val, d : Works(call, k, ok, val, d)
<1> DEFINE c == cache[SegmentOf[k]]
<1>1. ttl \in Int
  BY LruCacheAssumption DEF LruCacheAssumption
<1>2. ASSUME NEW call, NEW n \in {1, -1}, NEW first \in {0, 1}, Count(call, k, n, first, ttl)
      PROVE  Refuse(call, k) \/ \E ok, val, d : Works(call, k, ok, val, d)
  <2>1. ASSUME NEW x, Element(x, ttl) \in CacheElement,
               Return(call, k, TRUE, x, Store(c, k, Element(x, ttl)))
        PROVE  \E ok, val, d : Works(call, k, ok, val, d)
    BY <2>1 DEF Works, Result
  <2>2. ASSUME Live(k), Return(call, k, FALSE, None, MoveToFront(c, k))
        PROVE  \E ok, val, d : Works(call, k, ok, val, d)
    BY <2>2 DEF Works, Result, Live
  <2> QED
    BY <1>1, <1>2, <2>1, <2>2, CountCases
<1> QED
  BY <1>2 DEF IncreaseOne, DecreaseOne

LEMMA SetWorks ==
  ASSUME CacheInv, NEW k \in Key, NEW ttl \in Ttl, NEW v \in Value,
         Set(k, v, ttl) \/ SetIfNotExist(k, v, ttl)
  PROVE  \/ \E call : Refuse(call, k)
         \/ \E call, ok, val, d : Works(call, k, ok, val, d)
<1> DEFINE c == cache[SegmentOf[k]]
<1>1. now \in Nat /\ ttl \in Int
  BY LruCacheAssumption DEF LruCacheAssumption, CacheInv
<1>2. ASSUME NEW e \in CacheElement PROVE Result(k, c, Store(c, k, e))
  BY DEF Result
<1>3. ~(ttl < Never \/ ttl > TenYears) => Element(v, ttl) \in CacheElement
  <2>1. ~(ttl < Never) => ttl = Never \/ ttl >= 0
    BY <1>1, LruCacheAssumption DEF LruCacheAssumption
  <2> QED
    BY <1>1, <2>1, ElementTypes
<1>4. CASE Set(k, v, ttl)
  BY <1>2, <1>3, <1>4 DEF Set, Works
<1>5. CASE SetIfNotExist(k, v, ttl)
  BY <1>2, <1>3, <1>5 DEF SetIfNotExist, Works, Result
<1> QED
  BY <1>4, <1>5

\* Every step is one of these.
LEMMA NextCases ==
  ASSUME CacheInv, [Next]_vars
  PROVE  \/ Tick \/ UNCHANGED vars
         \/ \E k \in Key :
              \/ \E call : Refuse(call, k)
              \/ \E call, ok, val, d : Works(call, k, ok, val, d)
<1>1. ASSUME NEW k \in Key, Get(k) \/ Delete(k)
      PROVE  \E call, ok, val, d : Works(call, k, ok, val, d)
  BY <1>1 DEF Get, Delete, Works, Result
<1>2. ASSUME NEW k \in Key, NEW ttl \in Ttl, IncreaseOne(k, ttl) \/ DecreaseOne(k, ttl)
      PROVE  \/ \E call : Refuse(call, k)
             \/ \E call, ok, val, d : Works(call, k, ok, val, d)
  BY <1>2, CountWorks
<1>3. ASSUME NEW k \in Key, NEW ttl \in Ttl, NEW v \in Value, Set(k, v, ttl) \/ SetIfNotExist(k, v, ttl)
      PROVE  \/ \E call : Refuse(call, k)
             \/ \E call, ok, val, d : Works(call, k, ok, val, d)
  BY <1>3, SetWorks
<1> QED
  BY <1>1, <1>2, <1>3 DEF Next

\* What a call does to its segment.
LEMMA ResultFacts ==
  ASSUME NEW s, NEW c, SegmentOk(s, c), NEW k \in Key, SegmentOf[k] = s, NEW d, Result(k, c, d)
  PROVE  /\ SegmentOk(s, d)
         /\ \A j \in DOMAIN d.elem \ {k} : j \in DOMAIN c.elem /\ d.elem[j] = c.elem[j]
         /\ \A a, b : Before(d.order, a, b) =>
              /\ b # k
              /\ \/ a # k /\ Before(c.order, a, b)
                 \/ a = k /\ b \in Range(c.order)
         /\ \A j \in DOMAIN c.elem \ (DOMAIN d.elem \cup {k}) :
              \A i \in DOMAIN c.elem \ {j} : Before(c.order, i, j)
<1>1. c.order \in Seq(Key) /\ IsInjective(c.order) /\ Range(c.order) = DOMAIN c.elem
  BY DEF SegmentOk
<1>2. ASSUME NEW j, d.order = <<k>> \o RemoveFirst(c.order, j), SegmentOk(s, d),
             j = k \/ k \notin Range(c.order),
             NEW a, NEW b, Before(d.order, a, b)
      PROVE  /\ b # k
             /\ \/ a # k /\ Before(c.order, a, b)
                \/ a = k /\ b \in Range(c.order)
  <2> DEFINE r == RemoveFirst(c.order, j)
  <2>1. r \in Seq(Key) /\ Range(r) = Range(c.order) \ {j}
        /\ \A x, y : Before(r, x, y) => Before(c.order, x, y)
    BY <1>1, Removed
  <2>2. k \notin Range(r)
    BY <1>2, <2>1
  <2> HIDE DEF r
  <2>3. Before(r, a, b) \/ (a = k /\ b \in Range(r))
    BY <1>2, <2>1, InFront DEF r
  <2>4. Before(r, a, b) => a \in Range(r) /\ b \in Range(r)
    BY <2>1 DEF Before, Range
  <2> QED
    BY <2>1, <2>2, <2>3, <2>4
<1>3. CASE ~Has(c, k) /\ d = c
  BY <1>1, <1>3 DEF Before, Range, Has
<1>4. CASE Has(c, k) /\ d = MoveToFront(c, k)
  BY <1>2, <1>4, Moved
<1>5. CASE Has(c, k) /\ d = SafeDeleteByKey(c, k)
  <2>1. /\ SegmentOk(s, d) /\ d.order = RemoveFirst(c.order, k)
        /\ DOMAIN d.elem = DOMAIN c.elem \ {k}
        /\ \A j \in DOMAIN d.elem : d.elem[j] = c.elem[j]
    BY <1>5, Deleted
  <2>2. ASSUME NEW a, NEW b, Before(d.order, a, b) PROVE a # k /\ b # k /\ Before(c.order, a, b)
    BY <1>1, <2>1, <2>2, Removed
  <2> QED
    BY <2>1, <2>2
<1>6. ASSUME NEW e \in CacheElement, d = Store(c, k, e)
      PROVE  /\ SegmentOk(s, d)
             /\ \A j \in DOMAIN d.elem \ {k} : j \in DOMAIN c.elem /\ d.elem[j] = c.elem[j]
             /\ \A a, b : Before(d.order, a, b) =>
                  /\ b # k
                  /\ \/ a # k /\ Before(c.order, a, b)
                     \/ a = k /\ b \in Range(c.order)
             /\ \A j \in DOMAIN c.elem \ (DOMAIN d.elem \cup {k}) :
                  \A i \in DOMAIN c.elem \ {j} : Before(c.order, i, j)
  <2>0. StoreLeaves(s, c, k, e, d)
    BY <1>6, Stored
  <2>1. /\ SegmentOk(s, d)
        /\ \A j \in DOMAIN d.elem \ {k} : j \in DOMAIN c.elem /\ d.elem[j] = c.elem[j]
    BY <2>0 DEF StoreLeaves
  <2>2. CASE /\ DOMAIN d.elem = DOMAIN c.elem \cup {k}
             /\ d.order = <<k>> \o RemoveFirst(c.order, k)
    BY <1>2, <2>1, <2>2
  <2>3. ASSUME ~Has(c, k), NEW j \in DOMAIN c.elem,
               DOMAIN d.elem = (DOMAIN c.elem \ {j}) \cup {k},
               d.order = <<k>> \o RemoveFirst(c.order, j),
               \A i \in DOMAIN c.elem \ {j} : Before(c.order, i, j)
        PROVE  /\ \A a, b : Before(d.order, a, b) =>
                    /\ b # k
                    /\ \/ a # k /\ Before(c.order, a, b)
                       \/ a = k /\ b \in Range(c.order)
               /\ \A i \in DOMAIN c.elem \ (DOMAIN d.elem \cup {k}) : i = j
    BY <1>1, <1>2, <2>1, <2>3 DEF Has
  <2>4. \/ /\ DOMAIN d.elem = DOMAIN c.elem \cup {k}
           /\ d.order = <<k>> \o RemoveFirst(c.order, k)
        \/ /\ ~Has(c, k)
           /\ \E j \in DOMAIN c.elem :
                /\ DOMAIN d.elem = (DOMAIN c.elem \ {j}) \cup {k}
                /\ d.order = <<k>> \o RemoveFirst(c.order, j)
                /\ \A i \in DOMAIN c.elem \ {j} : Before(c.order, i, j)
    BY <2>0 DEF StoreLeaves
  <2>5. CASE ~(/\ DOMAIN d.elem = DOMAIN c.elem \cup {k}
               /\ d.order = <<k>> \o RemoveFirst(c.order, k))
    <3>1. PICK j \in DOMAIN c.elem :
            /\ DOMAIN d.elem = (DOMAIN c.elem \ {j}) \cup {k}
            /\ d.order = <<k>> \o RemoveFirst(c.order, j)
            /\ \A i \in DOMAIN c.elem \ {j} : Before(c.order, i, j)
      BY <2>4, <2>5
    <3> QED
      BY <2>1, <2>3, <2>4, <2>5, <3>1
  <2> QED
    BY <2>1, <2>2, <2>5
<1> QED
  BY <1>3, <1>4, <1>5, <1>6 DEF Result

-----------------------------------------------------------------------------
(* The inductive invariant: the segments are in order, and the list of each *)
(* has its keys as they were used                                           *)

Recent(c) ==
  /\ Range(c.order) \subseteq Range(touched)
  /\ \A a, b \in Key : Before(c.order, a, b) => Before(touched, a, b)

Inv ==
  /\ CacheInv
  /\ touched \in Seq(Key)
  /\ \A s \in 1..SegmentCount : Recent(cache[s])

LEMMA InvInit == Init => Inv
<1> SUFFICES ASSUME Init PROVE Inv
  OBVIOUS
<1> USE LruCacheAssumption DEF LruCacheAssumption, Init
<1>1. ASSUME NEW s \in 1..SegmentCount PROVE SegmentOk(s, cache[s]) /\ Recent(cache[s])
  <2>1. cache[s].order = <<>> /\ cache[s].elem = <<>> /\ cache[s] = [order |-> <<>>, elem |-> <<>>]
    OBVIOUS
  <2>2. /\ <<>> \in Seq(Key) /\ Len(<<>>) = 0 /\ DOMAIN <<>> = {} /\ <<>> \in [{} -> CacheElement]
    OBVIOUS
  <2>3. Range(<<>>) = {} /\ IsInjective(<<>>) /\ \A a, b : ~Before(<<>>, a, b)
    BY <2>2 DEF Range, IsInjective, Before
  <2>4. Len(<<>>) <= SegmentSize
    BY <2>2, SomeRoom
  <2>5. SegmentOk(s, cache[s])
    BY <2>1, <2>2, <2>3, <2>4 DEF SegmentOk
  <2> QED
    BY <2>1, <2>3, <2>5 DEF Recent
<1>2. now \in 0..Horizon /\ cache = [s \in 1..SegmentCount |-> cache[s]] /\ touched \in Seq(Key)
  OBVIOUS
<1> QED
  BY <1>1, <1>2 DEF Inv, CacheInv

LEMMA WorksInv ==
  ASSUME CacheInv, NEW k \in Key, NEW call, NEW ok, NEW val, NEW d, Works(call, k, ok, val, d)
  PROVE  /\ CacheInv' /\ cache'[SegmentOf[k]] = d
         /\ \A s \in 1..SegmentCount \ {SegmentOf[k]} : cache'[s] = cache[s]
<1> DEFINE s0 == SegmentOf[k]
<1>1. s0 \in 1..SegmentCount /\ SegmentOk(s0, cache[s0])
  BY SegmentFacts
<1>2. SegmentOk(s0, d)
  BY <1>1, ResultFacts DEF Works
<1>3. cache' = [cache EXCEPT ![s0] = d] /\ now' = now
  BY DEF Works, Return
<1>4. cache = [s \in 1..SegmentCount |-> cache[s]] /\ now \in 0..Horizon
      /\ \A s \in 1..SegmentCount : SegmentOk(s, cache[s])
  BY DEF CacheInv
<1> HIDE DEF s0
<1>5. /\ cache'[s0] = d /\ \A s \in 1..SegmentCount \ {s0} : cache'[s] = cache[s]
      /\ cache' = [s \in 1..SegmentCount |-> cache'[s]]
  BY <1>1, <1>3, <1>4
<1>6. \A s \in 1..SegmentCount : SegmentOk(s, cache'[s])
  BY <1>2, <1>4, <1>5
<1>7. CacheInv'
  BY <1>3, <1>4, <1>5, <1>6 DEF CacheInv, SegmentOk
<1> QED
  BY <1>5, <1>7 DEF s0

LEMMA WorksRecent ==
  ASSUME Inv, NEW k \in Key, NEW call, NEW ok, NEW val, NEW d, Works(call, k, ok, val, d)
  PROVE  /\ touched' \in Seq(Key)
         /\ \A s \in 1..SegmentCount : Recent(cache[s])'
<1> DEFINE c == cache[SegmentOf[k]]
           r == RemoveFirst(touched, k)
<1>1. CacheInv /\ touched \in Seq(Key) /\ SegmentOk(SegmentOf[k], c)
      /\ \A s \in 1..SegmentCount : SegmentOk(s, cache[s]) /\ Recent(cache[s])
  BY SegmentFacts DEF Inv, CacheInv
<1>2. touched' = IF Has(d, k) THEN <<k>> \o r ELSE r
  BY DEF Works, Return
<1>3. /\ r \in Seq(Key) /\ \A a \in Range(touched) : a # k => a \in Range(r)
      /\ \A a, b : Before(touched, a, b) /\ a # k /\ b # k => Before(r, a, b)
  BY <1>1, Removed
<1> HIDE DEF c, r
<1>4. /\ touched' \in Seq(Key)
      /\ \A a \in Range(touched) : a # k => a \in Range(touched')
      /\ \A a, b : Before(touched, a, b) /\ a # k /\ b # k => Before(touched', a, b)
      /\ Has(d, k) => k \in Range(touched') /\ \A b \in Range(touched) : b # k => Before(touched', k, b)
  <2>1. CASE Has(d, k)
    <3>1. touched' = <<k>> \o r
      BY <1>2, <2>1
    <3> QED
      BY <1>3, <3>1, InFront
  <2>2. CASE ~Has(d, k)
    BY <1>2, <1>3, <2>2
  <2> QED
    BY <2>1, <2>2
<1>5. ASSUME NEW s \in 1..SegmentCount PROVE Recent(cache[s])'
  <2>1. CASE s # SegmentOf[k]
    <3> DEFINE q == cache[s].order
    <3>1. cache'[s] = cache[s]
      BY <1>1, <2>1, WorksInv
    <3>2. q \in Seq(Key) /\ k \notin Range(q) /\ Recent(cache[s])
      BY <1>1, <2>1 DEF SegmentOk
    <3> HIDE DEF q
    <3>3. \A a, b : Before(q, a, b) => a \in Range(q) /\ b \in Range(q)
      BY <3>2 DEF Before, Range
    <3>4. Range(q) \subseteq Range(touched')
      BY <1>4, <3>2 DEF Recent, q
    <3>5. ASSUME NEW a \in Key, NEW b \in Key, Before(q, a, b) PROVE Before(touched', a, b)
      BY <1>4, <3>2, <3>3, <3>5 DEF Recent, q
    <3> QED
      BY <3>1, <3>4, <3>5 DEF Recent, q
  <2>2. CASE s = SegmentOf[k]
    <3>1. cache'[s] = d /\ Recent(c)
      BY <1>1, <2>2, WorksInv DEF c
    <3>2. Result(k, c, d)
      BY DEF Works, c
    <3>3. /\ SegmentOk(s, d)
          /\ \A j \in DOMAIN d.elem \ {k} : j \in DOMAIN c.elem
          /\ \A a, b : Before(d.order, a, b) =>
               /\ b # k
               /\ \/ a # k /\ Before(c.order, a, b)
                  \/ a = k /\ b \in Range(c.order)
      BY <1>1, <2>2, <3>2, ResultFacts
    <3>4. /\ Range(d.order) = DOMAIN d.elem /\ Range(c.order) = DOMAIN c.elem /\ d.order \in Seq(Key)
      BY <1>1, <3>3 DEF SegmentOk
    <3>5. Range(d.order) \subseteq Range(touched')
      BY <1>4, <3>1, <3>3, <3>4 DEF Recent, Has
    <3>6. ASSUME NEW a \in Key, NEW b \in Key, Before(d.order, a, b) PROVE Before(touched', a, b)
      <4>1. CASE a = k
        <5>1. a \in Range(d.order)
          BY <3>4, <3>6 DEF Before, Range
        <5>2. b # k /\ b \in Range(touched)
          BY <3>1, <3>3, <3>6, <4>1 DEF Recent
        <5> QED
          BY <1>4, <3>4, <4>1, <5>1, <5>2 DEF Has
      <4>2. CASE a # k
        BY <1>4, <3>1, <3>3, <3>6, <4>2 DEF Recent
      <4> QED
        BY <4>1, <4>2
    <3> QED
      BY <3>1, <3>5, <3>6 DEF Recent
  <2> QED
    BY <2>1, <2>2
<1> QED
  BY <1>4, <1>5

LEMMA InvStep == Inv /\ [Next]_vars => Inv'
<1> SUFFICES ASSUME Inv, [Next]_vars PROVE Inv'
  OBVIOUS
<1>1. ASSUME UNCHANGED <<cache, touched>>, now' \in 0..Horizon PROVE Inv'
  BY <1>1 DEF Inv, CacheInv, SegmentOk, Recent
<1>2. ASSUME NEW k \in Key, NEW call, Refuse(call, k) PROVE Inv'
  BY <1>1, <1>2 DEF Refuse, Inv, CacheInv
<1>3. ASSUME NEW k \in Key, NEW call, NEW ok, NEW val, NEW d, Works(call, k, ok, val, d) PROVE Inv'
  BY <1>3, WorksInv, WorksRecent DEF Inv
<1>4. CASE Tick
  <2>1. now' \in 0..Horizon
    BY <1>4, LruCacheAssumption DEF LruCacheAssumption, Tick, Inv, CacheInv
  <2> QED
    BY <1>1, <1>4, <2>1 DEF Tick
<1>5. CASE UNCHANGED vars
  BY <1>1, <1>5 DEF vars, Inv, CacheInv
<1> QED
  BY <1>2, <1>3, <1>4, <1>5, NextCases DEF Inv

LEMMA AlwaysInv == Spec => []Inv
BY InvInit, InvStep, PTL DEF Spec

\* TypeOK, for all keys, segments and sizes: the index and the list of every
\* segment hold the same keys, and no segment is ever too full.
THEOREM SegmentsInOrder == Spec => []TypeOK
<1>1. Inv => TypeOK
  BY DEF Inv, CacheInv, SegmentOk, TypeOK
<1> QED
  BY <1>1, AlwaysInv, PTL

\* EvictsTheOldest: what leaves a full segment is what was used least recently.
THEOREM OldestEvicted == Spec => EvictsTheOldest
<1> DEFINE A == \A s \in 1..SegmentCount : LET c == cache[s] IN
                  \A k \in DOMAIN c.elem : k \notin DOMAIN cache'[s].elem /\ k # reply'.key =>
                    \A j \in DOMAIN c.elem \ {k} : Older(j, k)
<1>1. ASSUME Inv, [Next]_vars PROVE A
  <2>1. ASSUME UNCHANGED cache PROVE A
    BY <2>1
  <2>2. ASSUME NEW k \in Key, NEW call, NEW ok, NEW val, NEW d, Works(call, k, ok, val, d) PROVE A
    <3> SUFFICES ASSUME NEW s \in 1..SegmentCount, NEW i \in DOMAIN cache[s].elem,
                        i \notin DOMAIN cache'[s].elem, i # reply'.key,
                        NEW j \in DOMAIN cache[s].elem \ {i}
                 PROVE  Older(j, i)
      OBVIOUS
    <3>1. reply'.key = k
      BY <2>2 DEF Works, Return
    <3>2. CacheInv /\ SegmentOk(s, cache[s]) /\ Recent(cache[s])
      BY <1>1 DEF Inv, CacheInv
    <3>3. s = SegmentOf[k] /\ cache'[s] = d
      BY <2>2, <3>2, WorksInv
    <3>4. Result(k, cache[s], d)
      BY <2>2, <3>3 DEF Works
    <3>5. Before(cache[s].order, j, i)
      BY <3>1, <3>2, <3>3, <3>4, ResultFacts
    <3>6. i \in Key /\ j \in Key
      <4> DEFINE q == cache[s].order
      <4>1. q \in Seq(Key) /\ i \in Range(q) /\ j \in Range(q)
        BY <3>2 DEF SegmentOk
      <4> HIDE DEF q
      <4> QED
        BY <4>1 DEF Range
    <3> QED
      BY <3>2, <3>5, <3>6 DEF Recent, Before, Older
  <2>3. CASE Tick \/ UNCHANGED vars \/ \E k \in Key : \E call : Refuse(call, k)
    BY <2>1, <2>3 DEF Tick, vars, Refuse
  <2> QED
    BY <1>1, <2>2, <2>3, NextCases DEF Inv
<1>2. Inv /\ [Next]_vars => [A]_vars
  BY <1>1
<1> QED
  BY <1>2, AlwaysInv, PTL DEF Spec, EvictsTheOldest

-----------------------------------------------------------------------------
(* What callers see is the map of ExpiringMap                              *)

\* At most one other key leaves with a call, and only when k comes.
LEMMA ResultDomain ==
  ASSUME NEW s, NEW c, SegmentOk(s, c), NEW k \in Key, SegmentOf[k] = s, NEW d, Result(k, c, d)
  PROVE  \/ DOMAIN c.elem \subseteq DOMAIN d.elem \cup {k}
         \/ ~Has(c, k) /\ \E i \in DOMAIN c.elem : DOMAIN c.elem \subseteq DOMAIN d.elem \cup {k, i}
<1>1. CASE Has(c, k) /\ d = MoveToFront(c, k)
  BY <1>1, Moved
<1>2. CASE Has(c, k) /\ d = SafeDeleteByKey(c, k)
  <2>1. DOMAIN d.elem = DOMAIN c.elem \ {k}
    BY <1>2, Deleted
  <2> QED
    BY <2>1
<1>3. ASSUME NEW e \in CacheElement, d = Store(c, k, e)
      PROVE  \/ DOMAIN c.elem \subseteq DOMAIN d.elem \cup {k}
             \/ ~Has(c, k) /\ \E i \in DOMAIN c.elem : DOMAIN c.elem \subseteq DOMAIN d.elem \cup {k, i}
  <2>1. StoreLeaves(s, c, k, e, d)
    BY <1>3, Stored
  <2>2. ASSUME ~Has(c, k), NEW j \in DOMAIN c.elem, DOMAIN d.elem = (DOMAIN c.elem \ {j}) \cup {k}
        PROVE  DOMAIN c.elem \subseteq DOMAIN d.elem \cup {k, j}
    BY <2>2
  <2>3. CASE DOMAIN d.elem = DOMAIN c.elem \cup {k}
    BY <2>3
  <2> QED
    BY <2>1, <2>2, <2>3 DEF StoreLeaves
<1> QED
  BY <1>1, <1>2, <1>3 DEF Result

\* A call that works is one of the map, with the entry it leaves.
LEMMA WorksMap ==
  ASSUME CacheInv, NEW k \in Key, NEW call, NEW ok, NEW val, NEW d, Works(call, k, ok, val, d)
  PROVE  Map!Return(call, k, ok, val, Visible'[k])
<1> DEFINE s == SegmentOf[k]
           c == cache[s]
<1>1. /\ s \in 1..SegmentCount /\ SegmentOk(s, c) /\ Result(k, c, d)
      /\ reply' = [call |-> call, key |-> k, ok |-> ok, val |-> val] /\ now' = now
  BY SegmentFacts DEF Works, Return
<1>2. cache'[s] = d /\ \A t \in 1..SegmentCount \ {s} : cache'[t] = cache[t]
  BY <1>1, WorksInv
<1>3. \A j \in DOMAIN d.elem \ {k} : j \in DOMAIN c.elem /\ d.elem[j] = c.elem[j]
  BY <1>1, ResultFacts
<1>4. ASSUME NEW j \in Key, j # k, SegmentOf[j] # s \/ j \notin DOMAIN c.elem \/ j \in DOMAIN d.elem
      PROVE  Visible'[j] = Visible[j]
  <2>1. CASE SegmentOf[j] # s
    <3>1. cache'[SegmentOf[j]] = cache[SegmentOf[j]]
      BY <1>2, <2>1, SegmentFacts
    <3> QED
      BY <1>1, <3>1 DEF Visible, Readable, Has
  <2>2. CASE SegmentOf[j] = s /\ j \in DOMAIN d.elem
    BY <1>1, <1>2, <1>3, <1>4, <2>2 DEF Visible, Readable, Has
  <2>3. CASE SegmentOf[j] = s /\ j \notin DOMAIN d.elem
    BY <1>1, <1>2, <1>3, <1>4, <2>3 DEF Visible, Readable, Has
  <2> QED
    BY <2>1, <2>2, <2>3
<1>5. ASSUME NEW j \in Key, j # k, SegmentOf[j] = s, j \notin DOMAIN d.elem
      PROVE  Visible'[j] = None
  BY <1>1, <1>2, <1>5 DEF Visible, Readable, Has
<1>6. Visible' = [j \in Key |-> Visible'[j]] /\ Visible = [j \in Key |-> Visible[j]]
  BY DEF Visible, Readable
<1>7. CASE DOMAIN c.elem \subseteq DOMAIN d.elem \cup {k}
  <2>1. \A j \in Key \ {k} : Visible'[j] = Visible[j]
    BY <1>4, <1>7
  <2>2. Visible' = [j \in Key |-> IF j = k THEN Visible'[k] ELSE IF j \in {} THEN None ELSE Visible[j]]
    BY <1>6, <2>1
  <2>3. {} \in {{}} \cup IF Visible[k] = None THEN {{j} : j \in Key \ {k}} ELSE {}
    OBVIOUS
  <2> QED
    BY <1>1, <2>2, <2>3 DEF Map!Return
<1>8. ASSUME ~Has(c, k), NEW i \in DOMAIN c.elem, DOMAIN c.elem \subseteq DOMAIN d.elem \cup {k, i}
      PROVE  Map!Return(call, k, ok, val, Visible'[k])
  <2>1. CASE i \in DOMAIN d.elem
    <3>1. DOMAIN c.elem \subseteq DOMAIN d.elem \cup {k}
      BY <1>8, <2>1
    <3> QED
      BY <1>7, <3>1
  <2>2. CASE i \notin DOMAIN d.elem
    <3>1. i # k /\ SegmentOf[i] = s /\ i \in Key
      <4> DEFINE q == c.order
      <4>1. i # k /\ SegmentOf[i] = s /\ q \in Seq(Key) /\ i \in Range(q)
        BY <1>1, <1>8 DEF SegmentOk, Has
      <4> HIDE DEF q
      <4> QED
        BY <4>1 DEF Range
    <3>2. Visible[k] = None
      BY <1>8 DEF Visible, Readable
    <3>3. \A j \in Key \ {k, i} : Visible'[j] = Visible[j]
      BY <1>4, <1>8
    <3>4. Visible'[i] = None
      BY <1>5, <2>2, <3>1
    <3>5. Visible' = [j \in Key |-> IF j = k THEN Visible'[k] ELSE IF j \in {i} THEN None ELSE Visible[j]]
      BY <1>6, <3>1, <3>3, <3>4
    <3>6. {i} \in {{}} \cup IF Visible[k] = None THEN {{j} : j \in Key \ {k}} ELSE {}
      BY <3>1, <3>2
    <3> QED
      BY <1>1, <3>5, <3>6 DEF Map!Return
  <2> QED
    BY <2>1, <2>2
<1> QED
  BY <1>1, <1>7, <1>8, ResultDomain

LEMMA RefuseMap ==
  ASSUME NEW k \in Key, NEW call, Refuse(call, k)
  PROVE  Map!Return(call, k, FALSE, None, Visible[k])
<1>1. UNCHANGED <<cache, now>> /\ reply' = [call |-> call, key |-> k, ok |-> FALSE, val |-> None]
  BY DEF Refuse
<1>2. Visible' = Visible
  BY <1>1 DEF Visible, Readable
<1>3. Visible' = [j \in Key |-> IF j = k THEN Visible[k] ELSE IF j \in {} THEN None ELSE Visible[j]]
  BY <1>2 DEF Visible, Readable
<1>4. {} \in {{}} \cup IF Visible[k] = None THEN {{j} : j \in Key \ {k}} ELSE {}
  OBVIOUS
<1> QED
  BY <1>1, <1>3, <1>4 DEF Map!Return

\* What is seen of k after a call that works on it.
LEMMA SeenAfter ==
  ASSUME CacheInv, NEW k \in Key, NEW call, NEW ok, NEW val, NEW d, Return(call, k, ok, val, d)
  PROVE  LET c == cache[SegmentOf[k]] IN
         /\ d = c => Visible'[k] = Visible[k]
         /\ Has(c, k) /\ d = MoveToFront(c, k) => Visible'[k] = Visible[k]
         /\ Has(c, k) /\ d = SafeDeleteByKey(c, k) => Visible'[k] = None
         /\ \A e \in CacheElement : d = Store(c, k, e) /\ Readable(e) => Visible'[k] = e
<1> DEFINE s == SegmentOf[k]
           c == cache[s]
<1>1. s \in 1..SegmentCount /\ SegmentOk(s, c) /\ cache' = [cache EXCEPT ![s] = d] /\ now' = now
  BY SegmentFacts DEF Return
<1>2. cache'[s] = d
  BY <1>1 DEF CacheInv
<1>3. Visible'[k] = IF Has(d, k) /\ Readable(d.elem[k]) THEN d.elem[k] ELSE None
  BY <1>1, <1>2 DEF Visible, Readable
<1>4. Visible[k] = IF Has(c, k) /\ Readable(c.elem[k]) THEN c.elem[k] ELSE None
  BY DEF Visible, Readable
<1>5. d = c => Visible'[k] = Visible[k]
  BY <1>3, <1>4
<1>6. ASSUME Has(c, k), d = MoveToFront(c, k) PROVE Visible'[k] = Visible[k]
  <2>1. d.elem = c.elem
    BY <1>1, <1>6, Moved
  <2> QED
    BY <1>3, <1>4, <2>1 DEF Has
<1>7. ASSUME Has(c, k), d = SafeDeleteByKey(c, k) PROVE Visible'[k] = None
  <2>1. DOMAIN d.elem = DOMAIN c.elem \ {k}
    BY <1>1, <1>7, Deleted
  <2> QED
    BY <1>3, <2>1 DEF Has
<1>8. ASSUME NEW e \in CacheElement, d = Store(c, k, e), Readable(e) PROVE Visible'[k] = e
  <2>1. StoreLeaves(s, c, k, e, d)
    BY <1>1, <1>8, Stored
  <2> QED
    BY <1>3, <1>8, <2>1 DEF StoreLeaves
<1> QED
  BY <1>5, <1>6, <1>7, <1>8

LEMMA VisibleFacts ==
  ASSUME CacheInv, NEW k \in Key
  PROVE  LET c == cache[SegmentOf[k]] IN
         /\ Visible[k] = IF Has(c, k) /\ Readable(c.elem[k]) THEN c.elem[k] ELSE None
         /\ Has(c, k) /\ Readable(c.elem[k]) => Visible[k] # None /\ None \notin {c.elem[k]}
         /\ Has(c, k) /\ Alive(c.elem[k]) => Readable(c.elem[k])
         /\ ~(Has(c, k) /\ Alive(c.elem[k])) => None \in Map!Seen(k)
         /\ Visible[k] \in Map!Seen(k)
<1> DEFINE c == cache[SegmentOf[k]]
<1>1. Visible[k] = IF Has(c, k) /\ Readable(c.elem[k]) THEN c.elem[k] ELSE None
  BY DEF Visible, Readable
<1>2. Has(c, k) => c.elem[k] # None /\ c.elem[k].expire \in {Never} \cup Nat
  BY SegmentFacts, LruCacheAssumption DEF LruCacheAssumption
<1>3. now \in Int /\ Never = -1
  BY LruCacheAssumption DEF LruCacheAssumption, CacheInv
<1>4. Has(c, k) /\ Alive(c.elem[k]) => Readable(c.elem[k])
  BY <1>2, <1>3 DEF Alive, Readable
<1>5. ASSUME ~(Has(c, k) /\ Alive(c.elem[k])) PROVE None \in Map!Seen(k)
  <2>1. CASE Visible[k] = None
    BY <2>1 DEF Map!Seen
  <2>2. CASE Visible[k] # None
    <3>1. Has(c, k) /\ Readable(c.elem[k]) /\ Visible[k] = c.elem[k]
      BY <1>1, <2>2
    <3>2. c.elem[k].expire = now
      BY <1>2, <1>3, <1>5, <3>1 DEF Alive, Readable
    <3> QED
      BY <2>2, <3>1, <3>2 DEF Map!Seen
  <2> QED
    BY <2>1, <2>2
<1> QED
  BY <1>1, <1>2, <1>4, <1>5 DEF Map!Seen

\* A new element can be read at once, and it is the entry that the map gets.
LEMMA NewReadable ==
  ASSUME now \in Nat, NEW v, NEW ttl \in Int, ttl = Never \/ ttl >= 0
  PROVE  Readable(Element(v, ttl)) /\ Element(v, ttl) = Map!Entry(v, ttl)
<1>1. Element(v, ttl).expire = IF ttl = Never THEN Never ELSE now + ttl
  BY DEF Element
<1> QED
  BY <1>1 DEF Readable, Element, Map!Entry

LEMMA GetMap ==
  ASSUME CacheInv, NEW k \in Key, Get(k) \/ Delete(k)
  PROVE  Map!Get(k) \/ Map!Delete(k)
<1> DEFINE c == cache[SegmentOf[k]]
           e == Visible[k]
<1>1. CASE Get(k) /\ ~Has(c, k)
  <2>1. Works("Get", k, FALSE, None, c) /\ e = None
    BY <1>1, VisibleFacts DEF Get, Works, Result
  <2>2. Visible'[k] = e
    BY <2>1, SeenAfter DEF Works
  <2>3. Map!Return("Get", k, FALSE, None, None)
    BY <2>1, <2>2, WorksMap
  <2> QED
    BY <2>1, <2>3 DEF Map!Get
<1>2. CASE Get(k) /\ Has(c, k) /\ Readable(c.elem[k])
  <2>1. Works("Get", k, TRUE, e.data, MoveToFront(c, k)) /\ e # None
    BY <1>2, VisibleFacts DEF Get, Works, Result
  <2>2. Visible'[k] = e
    BY <1>2, <2>1, SeenAfter DEF Works
  <2>3. Map!Return("Get", k, TRUE, e.data, e)
    BY <2>1, <2>2, WorksMap
  <2> HIDE DEF e
  <2> QED
    BY <2>1, <2>3 DEF Map!Get, e
<1>3. CASE Get(k) /\ Has(c, k) /\ ~Readable(c.elem[k])
  <2>1. Works("Get", k, FALSE, None, SafeDeleteByKey(c, k)) /\ e = None
    BY <1>3, VisibleFacts DEF Get, Works, Result
  <2>2. Visible'[k] = None
    BY <1>3, <2>1, SeenAfter DEF Works
  <2>3. Map!Return("Get", k, FALSE, None, None)
    BY <2>1, <2>2, WorksMap
  <2> QED
    BY <2>1, <2>3 DEF Map!Get
<1>4. CASE Delete(k) /\ Has(c, k)
  <2>1. Works("Delete", k, TRUE, None, SafeDeleteByKey(c, k))
    BY <1>4 DEF Delete, Works, Result
  <2>2. Visible'[k] = None
    BY <1>4, <2>1, SeenAfter DEF Works
  <2> QED
    BY <2>1, <2>2, WorksMap DEF Map!Delete
<1>5. CASE Delete(k) /\ ~Has(c, k)
  <2>1. Works("Delete", k, TRUE, None, c) /\ e = None
    BY <1>5, VisibleFacts DEF Delete, Works, Result
  <2>2. Visible'[k] = None
    BY <2>1, SeenAfter DEF Works
  <2> QED
    BY <2>1, <2>2, WorksMap DEF Map!Delete
<1> QED
  BY <1>1, <1>2, <1>3, <1>4, <1>5

LEMMA SetMap ==
  ASSUME CacheInv, NEW k \in Key, NEW ttl \in Ttl, NEW v \in Value,
         Set(k, v, ttl) \/ SetIfNotExist(k, v, ttl)
  PROVE  Map!Set(k, v, ttl) \/ Map!SetIfNotExist(k, v, ttl)
<1> DEFINE c == cache[SegmentOf[k]]
           e == Element(v, ttl)
           valid == ttl = Never \/ ttl \in 0..TenYears
<1>1. /\ now \in Nat /\ ttl \in Int /\ TenYears \in Nat /\ Never = -1
  BY LruCacheAssumption DEF LruCacheAssumption, CacheInv
<1>2. valid <=> ~(ttl < Never \/ ttl > TenYears)
  BY <1>1
<1>3. valid => e \in CacheElement /\ Readable(e) /\ e = Map!Entry(v, ttl)
  BY <1>1, ElementTypes, NewReadable
<1>4. ASSUME valid, NEW call, Return(call, k, TRUE, None, Store(c, k, e))
      PROVE  Map!Return(call, k, TRUE, None, Map!Entry(v, ttl))
  <2>1. Works(call, k, TRUE, None, Store(c, k, e))
    BY <1>3, <1>4 DEF Works, Result
  <2>2. Visible'[k] = e
    BY <1>3, <1>4, SeenAfter
  <2> QED
    BY <1>3, <1>4, <2>1, <2>2, WorksMap
<1> HIDE DEF e, valid
<1>5. CASE Set(k, v, ttl) /\ valid
  BY <1>2, <1>4, <1>5 DEF Set, Map!Set, e, valid
<1>6. CASE Set(k, v, ttl) /\ ~valid
  <2>1. Refuse("Set", k)
    BY <1>2, <1>6 DEF Set
  <2> QED
    BY <1>6, <2>1, RefuseMap DEF Map!Set, valid
<1>7. CASE SetIfNotExist(k, v, ttl) /\ ~valid
  <2>1. Refuse("SetIfNotExist", k)
    BY <1>2, <1>7 DEF SetIfNotExist
  <2> QED
    BY <1>7, <2>1, RefuseMap DEF Map!SetIfNotExist, valid
<1>8. CASE SetIfNotExist(k, v, ttl) /\ valid /\ Has(c, k) /\ Alive(c.elem[k])
  <2>1. Works("SetIfNotExist", k, FALSE, None, MoveToFront(c, k)) /\ Visible[k] # None
    BY <1>2, <1>8, VisibleFacts DEF SetIfNotExist, Works, Result
  <2>2. Visible'[k] = Visible[k]
    BY <1>8, <2>1, SeenAfter DEF Works
  <2> QED
    BY <2>1, <2>2, WorksMap DEF Map!SetIfNotExist
<1>9. CASE SetIfNotExist(k, v, ttl) /\ valid /\ ~(Has(c, k) /\ Alive(c.elem[k]))
  <2>1. Return("SetIfNotExist", k, TRUE, None, Store(c, k, e)) /\ None \in Map!Seen(k)
    BY <1>2, <1>9, VisibleFacts DEF SetIfNotExist, e
  <2>2. Map!Return("SetIfNotExist", k, TRUE, None, Map!Entry(v, ttl))
    BY <1>4, <1>9, <2>1
  <2> QED
    BY <1>9, <2>1, <2>2 DEF Map!SetIfNotExist, valid
<1> QED
  BY <1>5, <1>6, <1>7, <1>8, <1>9

LEMMA CountMap ==
  ASSUME CacheInv, NEW call, NEW k \in Key, NEW n \in {1, -1}, NEW first \in {0, 1}, NEW ttl \in Ttl,
         Count(call, k, n, first, ttl)
  PROVE  Map!Count(call, k, n, first, ttl)
<1> DEFINE c == cache[SegmentOf[k]]
           v == Visible[k]
           limit == IF n = 1 THEN MaxCount ELSE MinCount
           valid == ttl = Never \/ ttl > 0
           To(x) == /\ x \in MinCount..MaxCount /\ Element(x, ttl) \in CacheElement
                    /\ Return(call, k, TRUE, x, Store(c, k, Element(x, ttl)))
           Onward == Number(k) \in MinCount..MaxCount /\ Number(k) # limit
<1>1. /\ now \in Nat /\ ttl \in Int /\ MinCount \in Int /\ MaxCount \in Int
      /\ MinCount <= 0 /\ MaxCount >= 1 /\ Never = -1
  BY LruCacheAssumption DEF LruCacheAssumption, CacheInv
<1>2. ASSUME valid, NEW x, To(x) PROVE Map!Return(call, k, TRUE, x, Map!Entry(x, ttl))
  <2> DEFINE e == Element(x, ttl)
  <2>1. e \in CacheElement /\ Readable(e) /\ e = Map!Entry(x, ttl)
    BY <1>1, <1>2, NewReadable
  <2>2. Return(call, k, TRUE, x, Store(c, k, e))
    BY <1>2
  <2> HIDE DEF e
  <2>3. Works(call, k, TRUE, x, Store(c, k, e)) /\ Visible'[k] = e
    BY <2>1, <2>2, SeenAfter DEF Works, Result
  <2> QED
    BY <2>1, <2>3, WorksMap
<1>3. \/ ~valid /\ Refuse(call, k)
      \/ valid /\ ~Live(k) /\ To(first)
      \/ valid /\ Live(k) /\ Onward /\ To(Number(k) + n)
      \/ valid /\ Live(k) /\ ~Onward /\ Return(call, k, FALSE, None, MoveToFront(c, k))
  <2>1. \/ ttl <= 0 /\ ttl # Never /\ Refuse(call, k)
        \/ /\ ttl > 0 \/ ttl = Never
           /\ \/ ~Live(k) /\ To(first)
              \/ Live(k) /\ Number(k) \in MinCount..MaxCount /\ Number(k) # limit /\ To(Number(k) + n)
              \/ Live(k) /\ ~Onward /\ Return(call, k, FALSE, None, MoveToFront(c, k))
    BY <1>1, CountCases
  <2>2. ttl <= 0 /\ ttl # Never => ~valid
    BY <1>1
  <2> HIDE DEF To, c, limit
  <2> QED
    BY <2>1, <2>2
<1>4. Live(k) => /\ v # None /\ v.data = Number(k) /\ v \in Map!Seen(k)
  BY VisibleFacts DEF Live, Number
<1>5. Onward => Number(k) \in MinCount..MaxCount /\ Number(k) + n \in MinCount..MaxCount
  BY <1>1
<1>6. ~Onward => ~(Number(k) \in MinCount..MaxCount /\ Number(k) + n \in MinCount..MaxCount)
  BY <1>1
<1> HIDE DEF To, Onward, v, limit
<1>7. CASE ~valid /\ Refuse(call, k)
  <2>1. Map!Return(call, k, FALSE, None, Visible[k])
    BY <1>7, RefuseMap
  <2> QED
    BY <1>7, <2>1, Zenon DEF Map!Count
<1>8. CASE valid /\ ~Live(k) /\ To(first)
  <2>1. Map!Return(call, k, TRUE, first, Map!Entry(first, ttl)) /\ None \in Map!Seen(k)
    BY <1>2, <1>8, VisibleFacts DEF Live
  <2> QED
    BY <1>8, <2>1, Zenon DEF Map!Count
<1>9. CASE valid /\ Live(k) /\ Onward /\ To(Number(k) + n)
  <2>1. Map!Return(call, k, TRUE, v.data + n, Map!Entry(v.data + n, ttl))
    BY <1>2, <1>4, <1>9
  <2>2. v # None /\ v \in Map!Seen(k) /\ v.data \in MinCount..MaxCount /\ v.data + n \in MinCount..MaxCount
    BY <1>4, <1>5, <1>9
  <2> QED
    BY <1>9, <2>1, <2>2, Zenon DEF Map!Count
<1>10. CASE valid /\ Live(k) /\ ~Onward /\ Return(call, k, FALSE, None, MoveToFront(c, k))
  <2>1. Has(c, k)
    BY <1>10 DEF Live
  <2>2. Works(call, k, FALSE, None, MoveToFront(c, k)) /\ Visible'[k] = Visible[k]
    BY <1>10, <2>1, SeenAfter DEF Works, Result
  <2>3. Map!Return(call, k, FALSE, None, Visible[k])
    BY <2>2, WorksMap
  <2>4. v # None /\ v \in Map!Seen(k) /\ ~(v.data \in MinCount..MaxCount /\ v.data + n \in MinCount..MaxCount)
    BY <1>4, <1>6, <1>10
  <2> QED
    BY <1>10, <2>3, <2>4, Zenon DEF Map!Count
<1> QED
  BY <1>3, <1>7, <1>8, <1>9, <1>10

\* As time passes the map loses the entries that have come to their end.
LEMMA TickMap == ASSUME CacheInv, Tick PROVE Map!Tick
<1> DEFINE c(k) == cache[SegmentOf[k]]
           Past(k) == Visible[k] # None /\ Visible[k].expire # Never /\ Visible[k].expire < now'
<1>1. UNCHANGED <<cache, reply>> /\ now' = now + 1 /\ now \in Nat /\ Never = -1
  BY LruCacheAssumption DEF LruCacheAssumption, CacheInv, Tick
<1>2. ASSUME NEW k \in Key PROVE Visible'[k] = IF Past(k) THEN None ELSE Visible[k]
  <2>1. Has(c(k), k) => c(k).elem[k] # None /\ c(k).elem[k].expire \in {Never} \cup Nat
    BY SegmentFacts, LruCacheAssumption DEF LruCacheAssumption
  <2>2. Visible[k] = IF Has(c(k), k) /\ Readable(c(k).elem[k]) THEN c(k).elem[k] ELSE None
    BY DEF Visible, Readable
  <2>3. Visible'[k] = IF Has(c(k), k) /\ Readable(c(k).elem[k])' THEN c(k).elem[k] ELSE None
    BY <1>1 DEF Visible, Readable, Has
  <2>4. CASE ~Has(c(k), k)
    BY <2>2, <2>3, <2>4
  <2>5. CASE Has(c(k), k)
    <3> DEFINE e == c(k).elem[k]
               x == e.expire
    <3>1. e # None /\ x \in {Never} \cup Nat /\ e' = e
      BY <1>1, <2>1, <2>5
    <3>2. (Readable(e) <=> x = Never \/ now <= x) /\ (Readable(e)' <=> x = Never \/ now + 1 <= x)
      BY <1>1, <3>1 DEF Readable
    <3> HIDE DEF e
    <3> QED
      BY <1>1, <2>2, <2>3, <2>5, <3>1, <3>2 DEF e
  <2> QED
    BY <2>4, <2>5
<1>3. Visible' = [k \in Key |-> Visible'[k]]
  BY DEF Visible, Readable
<1>4. Visible' = [k \in Key |-> IF Past(k) THEN None ELSE Visible[k]]
  BY <1>2, <1>3
<1> QED
  BY <1>1, <1>4 DEF Map!Tick

\* ImplementsMap: the calls on the segments are those of a map with expiry.
THEOREM ImplementsExpiringMap == Spec => ImplementsMap
<1>1. Init => Map!Init
  <2>1. ASSUME Init, NEW k \in Key PROVE ~Has(cache[SegmentOf[k]], k)
    BY <2>1, LruCacheAssumption DEF LruCacheAssumption, Init, Has
  <2> QED
    BY <2>1 DEF Init, Visible, Readable, Map!Init
<1>2. ASSUME CacheInv, Next PROVE Map!Next
  <2>1. CASE Tick
    BY <1>2, <2>1, TickMap DEF Map!Next
  <2>2. ASSUME NEW k \in Key, Get(k) \/ Delete(k) PROVE Map!Next
    BY <1>2, <2>2, GetMap DEF Map!Next, Map!Step
  <2>3. ASSUME NEW k \in Key, NEW ttl \in Ttl, IncreaseOne(k, ttl) \/ DecreaseOne(k, ttl)
        PROVE  Map!Next
    <3>1. Map!Count("IncreaseOne", k, 1, 1, ttl) \/ Map!Count("DecreaseOne", k, -1, 0, ttl)
      BY <1>2, <2>3, CountMap DEF IncreaseOne, DecreaseOne
    <3> QED
      BY <3>1 DEF Map!Next, Map!Step
  <2>4. ASSUME NEW k \in Key, NEW ttl \in Ttl, NEW v \in Value, Set(k, v, ttl) \/ SetIfNotExist(k, v, ttl)
        PROVE  Map!Next
    BY <1>2, <2>4, SetMap DEF Map!Next, Map!Step
  <2> QED
    BY <1>2, <2>1, <2>2, <2>3, <2>4 DEF Next
<1>3. UNCHANGED vars => UNCHANGED Map!vars
  BY DEF vars, Map!vars, Visible, Readable
<1>4. Inv => CacheInv
  BY DEF Inv
<1> QED
  BY <1>1, <1>2, <1>3, <1>4, AlwaysInv, PTL DEF Spec, ImplementsMap, Map!Spec

-----------------------------------------------------------------------------
(* The counters of the cache                                               *)

\* The listener keeps nothing but counts in its cache.
Numbers ==
  \A s \in 1..SegmentCount : \A k \in DOMAIN cache[s].elem : cache[s].elem[k].data \in MinCount..MaxCount

LEMMA CounterFacts ==
  ASSUME CacheInv, Numbers, NEW k \in Key
  PROVE  /\ Counter(k) = IF Live(k) THEN Number(k) ELSE 0
         /\ Live(k) => Number(k) \in MinCount..MaxCount
         /\ Counter(k) \in MinCount..MaxCount /\ Counter(k) \in Int
<1>1. Counter(k) = IF Live(k) THEN Number(k) ELSE 0
  BY DEF Counter, Live, Number
<1>2. SegmentOf[k] \in 1..SegmentCount
  BY SegmentFacts
<1>3. Live(k) => Number(k) \in MinCount..MaxCount
  BY <1>2 DEF Live, Number, Has, Numbers
<1>4. MinCount \in Int /\ MaxCount \in Int /\ MinCount <= 0 /\ MaxCount >= 1
  BY LruCacheAssumption DEF LruCacheAssumption
<1> QED
  BY <1>1, <1>3, <1>4

\* What counting on k by n does to the counters: that of k goes on from where
\* it is or starts at first, unless it is at its limit, and any other one is
\* kept or lost.
Effect(k, n, first) ==
  /\ CacheInv' /\ Numbers'
  /\ Live(k)'
  /\ Number(k)' = IF ~Live(k) THEN first
                  ELSE IF Number(k) = (IF n = 1 THEN MaxCount ELSE MinCount) THEN Number(k)
                  ELSE Number(k) + n
  /\ \A j \in Key \ {k} : Live(j)' => Live(j) /\ Number(j)' = Number(j)

LEMMA CountEffect ==
  ASSUME CacheInv, Numbers, NEW call, NEW k \in Key, NEW n \in {1, -1}, NEW first \in {0, 1},
         NEW ttl \in Int, ttl = Never \/ ttl > 0, Count(call, k, n, first, ttl)
  PROVE  Effect(k, n, first)
<1> DEFINE s == SegmentOf[k]
           c == cache[s]
           limit == IF n = 1 THEN MaxCount ELSE MinCount
<1>1. s \in 1..SegmentCount /\ SegmentOk(s, c) /\ now \in Nat /\ Never = -1
  BY SegmentFacts, LruCacheAssumption DEF LruCacheAssumption, CacheInv
<1>2. ASSUME NEW ok, NEW val, NEW d, Works(call, k, ok, val, d), Has(d, k),
             d.elem[k].data \in MinCount..MaxCount, Alive(d.elem[k]),
             d.elem[k].data = IF ~Live(k) THEN first
                              ELSE IF Number(k) = limit THEN Number(k)
                              ELSE Number(k) + n
      PROVE  Effect(k, n, first)
  <2>1. /\ CacheInv' /\ cache'[s] = d /\ now' = now
        /\ \A t \in 1..SegmentCount \ {s} : cache'[t] = cache[t]
    <3>1. now' = now
      BY <1>2 DEF Works, Return
    <3> QED
      BY <1>2, <3>1, WorksInv
  <2>2. /\ SegmentOk(s, d)
        /\ \A j \in DOMAIN d.elem \ {k} : j \in DOMAIN c.elem /\ d.elem[j] = c.elem[j]
    BY <1>1, <1>2, ResultFacts DEF Works
  <2>3. Numbers'
    <3>1. ASSUME NEW j \in DOMAIN d.elem PROVE d.elem[j].data \in MinCount..MaxCount
      BY <1>1, <1>2, <2>2, <3>1 DEF Numbers
    <3> QED
      BY <2>1, <3>1 DEF Numbers
  <2>4. Live(k)' /\ Number(k)' = d.elem[k].data
    BY <1>2, <2>1 DEF Live, Number, Alive, Has
  <2>5. ASSUME NEW j \in Key \ {k}, Live(j)' PROVE Live(j) /\ Number(j)' = Number(j)
    <3>1. CASE SegmentOf[j] = s
      BY <2>1, <2>2, <2>5, <3>1 DEF Live, Number, Alive, Has
    <3>2. CASE SegmentOf[j] # s
      <4>1. cache'[SegmentOf[j]] = cache[SegmentOf[j]]
        BY <2>1, <3>2, SegmentFacts
      <4> QED
        BY <2>1, <2>5, <4>1 DEF Live, Number, Alive, Has
    <3> QED
      BY <3>1, <3>2
  <2> QED
    BY <1>2, <2>1, <2>3, <2>4, <2>5 DEF Effect
<1>3. ASSUME NEW x \in MinCount..MaxCount, Element(x, ttl) \in CacheElement,
             Return(call, k, TRUE, x, Store(c, k, Element(x, ttl))),
             x = IF ~Live(k) THEN first ELSE IF Number(k) = limit THEN Number(k) ELSE Number(k) + n
      PROVE  Effect(k, n, first)
  <2> DEFINE e == Element(x, ttl)
             d == Store(c, k, e)
  <2>1. StoreLeaves(s, c, k, e, d)
    BY <1>1, <1>3, Stored
  <2>2. Has(d, k) /\ d.elem[k] = e
    BY <2>1 DEF StoreLeaves
  <2>3. e.data = x /\ Alive(e)
    BY <1>1 DEF Element, Alive
  <2>4. Works(call, k, TRUE, x, d)
    BY <1>3 DEF Works, Result
  <2> HIDE DEF d, e, limit
  <2> QED
    BY <1>2, <1>3, <2>2, <2>3, <2>4
<1>4. ASSUME Live(k), Number(k) = limit, Return(call, k, FALSE, None, MoveToFront(c, k))
      PROVE  Effect(k, n, first)
  <2> DEFINE d == MoveToFront(c, k)
  <2>1. Has(c, k) /\ Works(call, k, FALSE, None, d)
    BY <1>4 DEF Works, Result, Live
  <2>2. d.elem = c.elem
    BY <1>1, <2>1, Moved
  <2>3. /\ Has(d, k) /\ Alive(d.elem[k]) /\ d.elem[k].data = Number(k)
        /\ Number(k) \in MinCount..MaxCount
    BY <1>4, <2>1, <2>2, CounterFacts DEF Live, Number, Has
  <2> HIDE DEF d, limit
  <2> QED
    BY <1>2, <1>4, <2>1, <2>3
<1>5. Live(k) => Number(k) \in MinCount..MaxCount
  BY CounterFacts
<1> DEFINE To(x) == /\ x \in MinCount..MaxCount /\ Element(x, ttl) \in CacheElement
                    /\ Return(call, k, TRUE, x, Store(c, k, Element(x, ttl)))
<1>6. \/ ttl <= 0 /\ ttl # Never
      \/ ~Live(k) /\ To(first)
      \/ Live(k) /\ Number(k) # limit /\ To(Number(k) + n)
      \/ Live(k) /\ Number(k) = limit /\ Return(call, k, FALSE, None, MoveToFront(c, k))
  <2>1. \/ ttl <= 0 /\ ttl # Never /\ Refuse(call, k)
        \/ /\ ttl > 0 \/ ttl = Never
           /\ \/ ~Live(k) /\ To(first)
              \/ Live(k) /\ Number(k) \in MinCount..MaxCount /\ Number(k) # limit /\ To(Number(k) + n)
              \/ /\ Live(k) /\ ~(Number(k) \in MinCount..MaxCount /\ Number(k) # limit)
                 /\ Return(call, k, FALSE, None, MoveToFront(c, k))
    BY CountCases
  <2> HIDE DEF To, c, limit
  <2> QED
    BY <1>5, <2>1
<1>7. ~(ttl <= 0 /\ ttl # Never)
  BY <1>1
<1>8. ASSUME NEW x, To(x),
             x = IF ~Live(k) THEN first ELSE IF Number(k) = limit THEN Number(k) ELSE Number(k) + n
      PROVE  Effect(k, n, first)
  BY <1>3, <1>8
<1> HIDE DEF To, limit
<1> QED
  BY <1>4, <1>6, <1>7, <1>8

-----------------------------------------------------------------------------
(* The places of the channel                                               *)

Places == {c \in Conn : conn[c] = "slot"}
PlaceInv == ListenerTypeOK /\ PlacesMatch

\* A step that gives no connection a place and takes none from one.
LEMMA PlacesKept ==
  ASSUME PlaceInv, ListenerTypeOK', buckets' = buckets,
         \A c \in Conn : conn'[c] = "slot" <=> conn[c] = "slot"
  PROVE  PlaceInv'
<1>1. {c \in Conn : conn'[c] = "slot"} = {c \in Conn : conn[c] = "slot"}
  OBVIOUS
<1> QED
  BY <1>1 DEF PlaceInv, PlacesMatch

LEMMA PlaceStep == PlaceInv /\ [ListenerNext]_allVars => PlaceInv'
<1> SUFFICES ASSUME PlaceInv, [ListenerNext]_allVars PROVE PlaceInv'
  OBVIOUS
<1>1. /\ ListenerTypeOK /\ buckets = Cardinality(Places) /\ buckets <= TotalConnLimit
      /\ TotalConnLimit \in Nat /\ IsFiniteSet(Conn) /\ buckets \in Nat /\ buckets \in 0..TotalConnLimit
      /\ conn \in [Conn -> {"none", "counted", "slot", "over", "closing", "closed"}]
  BY LimitListenerAssumption DEF LimitListenerAssumption, PlaceInv, PlacesMatch, ListenerTypeOK, Places
<1>2. IsFiniteSet(Places)
  <2>1. Places \in SUBSET Conn
    BY DEF Places
  <2> QED
    BY <1>1, <2>1, FS_Subset
<1>3. ASSUME NEW c \in Conn, NEW x \in {"none", "counted", "over", "closing", "closed"},
             conn[c] # "slot", conn' = [conn EXCEPT ![c] = x], ListenerTypeOK', buckets' = buckets
      PROVE  PlaceInv'
  <2>1. \A b \in Conn : conn'[b] = "slot" <=> conn[b] = "slot"
    BY <1>1, <1>3
  <2> QED
    BY <1>3, <2>1, PlacesKept
<1>4. ASSUME NEW c \in Conn, AcceptCount(c) PROVE PlaceInv'
  <2>1. PICK x \in {"over", "counted"} : conn' = [conn EXCEPT ![c] = x]
    BY <1>4 DEF AcceptCount
  <2>2. conn[c] # "slot" /\ buckets' = buckets /\ ListenerTypeOK'
    BY <1>1, <1>4, <2>1 DEF AcceptCount, Note, ListenerTypeOK
  <2> QED
    BY <1>3, <2>1, <2>2
<1>5. ASSUME NEW c \in Conn, AcceptAcquire(c) PROVE PlaceInv'
  <2>1. CASE buckets < TotalConnLimit
    <3>1. conn' = [conn EXCEPT ![c] = "slot"] /\ buckets' = buckets + 1
      BY <1>5, <2>1 DEF AcceptAcquire
    <3>2. ListenerTypeOK'
      BY <1>1, <1>5, <2>1, <3>1 DEF AcceptAcquire, ListenerTypeOK
    <3>3. Places' = Places \cup {c} /\ c \notin Places
      BY <1>1, <1>5, <3>1 DEF Places, AcceptAcquire
    <3>4. Cardinality(Places') = Cardinality(Places) + 1
      BY <1>2, <3>3, FS_AddElement
    <3> QED
      BY <1>1, <2>1, <3>1, <3>2, <3>4 DEF PlaceInv, PlacesMatch, Places
  <2>2. CASE ~(buckets < TotalConnLimit)
    <3>1. conn' = [conn EXCEPT ![c] = "over"] /\ buckets' = buckets /\ conn[c] # "slot"
      BY <1>5, <2>2 DEF AcceptAcquire
    <3>2. ListenerTypeOK'
      BY <1>1, <1>5, <3>1 DEF AcceptAcquire, ListenerTypeOK
    <3> QED
      BY <1>3, <3>1, <3>2
  <2> QED
    BY <2>1, <2>2
<1>6. ASSUME NEW c \in Conn, CloseRelease(c) PROVE PlaceInv'
  <2>1. conn' = [conn EXCEPT ![c] = "closing"]
    BY <1>6 DEF CloseRelease
  <2>2. CASE conn[c] = "over"
    <3>1. buckets' = buckets
      BY <1>6, <2>2 DEF CloseRelease
    <3>2. ListenerTypeOK'
      BY <1>1, <1>6, <2>1, <3>1 DEF CloseRelease, ListenerTypeOK
    <3> QED
      BY <1>3, <2>1, <2>2, <3>1, <3>2
  <2>3. CASE conn[c] = "slot"
    <3>1. c \in Places /\ Cardinality(Places \ {c}) = Cardinality(Places) - 1
      BY <1>2, <2>3, FS_RemoveElement DEF Places
    <3>2. buckets # 0
      BY <1>1, <1>2, <3>1, FS_EmptySet
    <3>3. buckets' = buckets - 1 /\ buckets > 0
      BY <1>6, <2>3, <3>2 DEF CloseRelease
    <3>4. Places' = Places \ {c}
      BY <1>1, <2>1 DEF Places
    <3>5. ListenerTypeOK'
      BY <1>1, <1>6, <2>1, <3>3 DEF CloseRelease, ListenerTypeOK
    <3> QED
      BY <1>1, <3>1, <3>3, <3>4, <3>5 DEF PlaceInv, PlacesMatch, Places
  <2> QED
    BY <1>6, <2>2, <2>3 DEF CloseRelease
<1>7. ASSUME NEW c \in Conn, CloseCount(c) PROVE PlaceInv'
  <2>1. conn' = [conn EXCEPT ![c] = "closed"] /\ conn[c] # "slot" /\ buckets' = buckets
    BY <1>7 DEF CloseCount
  <2>2. ListenerTypeOK'
    BY <1>1, <1>7, <2>1 DEF CloseCount, Note, ListenerTypeOK
  <2> QED
    BY <1>3, <2>1, <2>2
<1>8. ASSUME NEW c \in Conn, CloseAgain(c) PROVE PlaceInv'
  <2>1. ListenerTypeOK' /\ conn' = conn /\ buckets' = buckets
    BY <1>1, <1>8 DEF CloseAgain, Note, ListenerTypeOK
  <2> QED
    BY <2>1, PlacesKept
<1>9. CASE \/ CloseListener \/ Clock \/ UNCHANGED allVars
           \/ \E c \in Conn : AcquirePanics(c)
  <2>1. ListenerTypeOK' /\ conn' = conn /\ buckets' = buckets
    BY <1>1, <1>9 DEF CloseListener, Clock, Note, AcquirePanics, allVars, listenerVars, ListenerTypeOK
  <2> QED
    BY <2>1, PlacesKept
<1> QED
  BY <1>4, <1>5, <1>6, <1>7, <1>8, <1>9 DEF ListenerNext, Accept, CloseConn

LEMMA PlacesInit == ListenerInit => PlaceInv
<1> SUFFICES ASSUME ListenerInit PROVE PlaceInv
  OBVIOUS
<1>1. Places = {} /\ Cardinality({}) = 0 /\ buckets = 0 /\ TotalConnLimit \in Nat
  BY FS_EmptySet, LimitListenerAssumption DEF LimitListenerAssumption, ListenerInit, Places
<1>2. ListenerTypeOK
  <2>1. /\ conn \in [Conn -> {"none", "counted", "slot", "over", "closing", "closed"}]
        /\ buckets \in 0..TotalConnLimit
    BY <1>1 DEF ListenerInit
  <2>2. closed \in BOOLEAN /\ panicked \in BOOLEAN /\ forgotten \in BOOLEAN /\ again \subseteq Conn
    BY DEF ListenerInit
  <2> QED
    BY <2>1, <2>2 DEF ListenerTypeOK
<1> QED
  BY <1>1, <1>2 DEF PlaceInv, PlacesMatch, Places

\* PlacesMatch: the places taken are those of the connections that hold one,
\* however often Close is called.
THEOREM PlacesAreHeld == ListenerSpec => []PlacesMatch
<1>1. PlaceInv => PlacesMatch
  BY DEF PlaceInv
<1> QED
  BY <1>1, PlacesInit, PlaceStep, PTL DEF ListenerSpec

-----------------------------------------------------------------------------
(* The counts of the addresses                                             *)

Size(ip) == Cardinality(Counted(ip))

\* What NeverTooHigh and ExactUnlessForgotten say of one address, and that the
\* history tells when a counter was lost.
AddressOk(ip) ==
  /\ Counter(ip) <= Size(ip)
  /\ ~forgotten => ~Gone(ip)
  /\ ~forgotten /\ again = {} => Counter(ip) = Size(ip)

CountInv == ListenerTypeOK /\ CacheInv /\ Numbers /\ \A ip \in Key : AddressOk(ip)

LEMMA CountedFacts ==
  ASSUME NEW ip
  PROVE  /\ IsFiniteSet(Counted(ip)) /\ Size(ip) \in Nat /\ Size(ip) <= Cardinality(Conn)
         /\ Size(ip) = 0 <=> Counted(ip) = {}
         /\ Cardinality(Conn) \in Nat /\ Cardinality(Conn) <= MaxCount
         /\ Counted(ip) \subseteq Conn
<1>1. Counted(ip) \in SUBSET Conn
  BY DEF Counted
<1>2. IsFiniteSet(Conn) /\ Cardinality(Conn) <= MaxCount
  BY LimitListenerAssumption DEF LimitListenerAssumption
<1>3. IsFiniteSet(Counted(ip)) /\ Cardinality(Counted(ip)) <= Cardinality(Conn)
  BY <1>1, <1>2, FS_Subset
<1> QED
  BY <1>1, <1>2, <1>3, FS_CardinalityType, FS_EmptySet DEF Size

\* An address that is not counted on in a step.
LEMMA AddressKept ==
  ASSUME CountInv, Note, again \subseteq again', NEW ip \in Key, Counted(ip)' = Counted(ip),
         Live(ip)' => Live(ip) /\ Number(ip)' = Number(ip)
  PROVE  AddressOk(ip)'
<1>1. /\ Counter(ip) = IF Live(ip) THEN Number(ip) ELSE 0
      /\ Live(ip) => Number(ip) \in Int
      /\ AddressOk(ip)
  BY CounterFacts, LruCacheAssumption DEF LruCacheAssumption, CountInv
<1>2. Counter(ip)' = IF Live(ip)' THEN Number(ip)' ELSE 0
  BY DEF Counter, Live, Number, Has, Alive
<1>3. Size(ip)' = Size(ip) /\ Size(ip) \in Nat /\ (Size(ip) = 0 <=> Counted(ip) = {})
  BY CountedFacts DEF Size
<1>4. ~forgotten' => ~forgotten /\ ~Gone(ip)'
  BY DEF Note
<1>5. Gone(ip)' <=> Counted(ip)' # {} /\ ~Live(ip)'
  BY DEF Gone, Live, Has, Alive, Counted
<1>6. Counter(ip)' <= Size(ip)'
  BY <1>1, <1>2, <1>3 DEF AddressOk
<1>7. ASSUME ~forgotten', again' = {} PROVE Counter(ip)' = Size(ip)'
  <2>1. ~forgotten /\ again = {}
    BY <1>4, <1>7
  <2>2. CASE Live(ip)'
    BY <1>1, <1>2, <1>3, <2>1, <2>2 DEF AddressOk
  <2>3. CASE ~Live(ip)'
    <3>1. Counted(ip) = {}
      BY <1>4, <1>5, <1>7, <2>3
    <3> QED
      BY <1>2, <1>3, <2>3, <3>1
  <2> QED
    BY <2>2, <2>3
<1> QED
  BY <1>4, <1>6, <1>7 DEF AddressOk

\* The address that is counted on, by one more or one fewer connection or by a
\* second Close.
LEMMA AddressCounted ==
  ASSUME CountInv, Note, again \subseteq again', NEW ip \in Key, NEW n \in {1, -1},
         Effect(ip, n, IF n = 1 THEN 1 ELSE 0),
         NEW c \in Conn,
         \/ n = 1 /\ c \notin Counted(ip) /\ Counted(ip)' = Counted(ip) \cup {c}
         \/ n = -1 /\ c \in Counted(ip) /\ Counted(ip)' = Counted(ip) \ {c}
         \/ n = -1 /\ Counted(ip)' = Counted(ip) /\ again' # {}
  PROVE  AddressOk(ip)'
<1>1. /\ Counter(ip) = IF Live(ip) THEN Number(ip) ELSE 0
      /\ Live(ip) => Number(ip) \in MinCount..MaxCount
      /\ AddressOk(ip)
  BY CounterFacts DEF CountInv
<1>2. Counter(ip)' = Number(ip)'
  BY DEF Counter, Live, Number, Has, Alive, Effect
<1>3. /\ Size(ip) \in Nat /\ (Size(ip) = 0 <=> Counted(ip) = {}) /\ IsFiniteSet(Counted(ip))
      /\ Size(ip) <= MaxCount /\ Cardinality(Conn) \in Nat /\ Cardinality(Conn) <= MaxCount
      /\ Counted(ip) \subseteq Conn /\ IsFiniteSet(Conn)
  <2>1. MaxCount \in Int /\ IsFiniteSet(Conn)
    BY LruCacheAssumption, LimitListenerAssumption DEF LruCacheAssumption, LimitListenerAssumption
  <2> QED
    BY <2>1, CountedFacts
<1>4. ~forgotten' => ~forgotten /\ ~Gone(ip)'
  BY DEF Note
<1>5. Gone(ip) <=> Counted(ip) # {} /\ ~Live(ip)
  BY DEF Gone, Live
<1>6. MinCount \in Int /\ MaxCount \in Int /\ MinCount <= 0 /\ MaxCount >= 1
  BY LruCacheAssumption DEF LruCacheAssumption
<1>7. Number(ip)' = IF ~Live(ip) THEN (IF n = 1 THEN 1 ELSE 0)
                    ELSE IF Number(ip) = (IF n = 1 THEN MaxCount ELSE MinCount) THEN Number(ip)
                    ELSE Number(ip) + n
  BY DEF Effect
<1>8. Live(ip) => Number(ip) <= Size(ip) /\ (~forgotten /\ again = {} => Number(ip) = Size(ip))
  BY <1>1 DEF AddressOk
<1>9. ~Live(ip) /\ ~forgotten => Size(ip) = 0
  BY <1>1, <1>3, <1>5 DEF AddressOk
<1>10. CASE n = 1 /\ c \notin Counted(ip) /\ Counted(ip)' = Counted(ip) \cup {c}
  <2>1. Size(ip)' = Size(ip) + 1
    BY <1>3, <1>10, FS_AddElement DEF Size
  <2>2. Size(ip) + 1 <= MaxCount
    <3>1. Counted(ip) \cup {c} \in SUBSET Conn
      BY <1>3
    <3>2. Cardinality(Counted(ip) \cup {c}) <= Cardinality(Conn)
      BY <1>3, <3>1, FS_Subset
    <3>3. Size(ip)' \in Nat /\ Cardinality(Counted(ip) \cup {c}) = Size(ip)'
      BY <1>3, <1>10, <2>1 DEF Size
    <3> QED
      BY <1>3, <1>6, <2>1, <3>2, <3>3
  <2>3. Number(ip)' <= Size(ip)'
    BY <1>1, <1>3, <1>6, <1>7, <1>8, <1>10, <2>1
  <2>4. ~forgotten /\ again = {} => Number(ip)' = Size(ip)'
    BY <1>1, <1>3, <1>6, <1>7, <1>8, <1>9, <1>10, <2>1, <2>2
  <2> QED
    BY <1>2, <1>4, <2>3, <2>4 DEF AddressOk
<1>11. CASE n = -1 /\ c \in Counted(ip) /\ Counted(ip)' = Counted(ip) \ {c}
  <2>1. Size(ip)' = Size(ip) - 1 /\ Size(ip) # 0
    BY <1>3, <1>11, FS_RemoveElement DEF Size
  <2>2. Number(ip)' <= Size(ip)'
    BY <1>1, <1>3, <1>6, <1>7, <1>8, <1>11, <2>1
  <2>3. ~forgotten /\ again = {} => Number(ip)' = Size(ip)'
    BY <1>1, <1>3, <1>6, <1>7, <1>8, <1>9, <1>11, <2>1
  <2> QED
    BY <1>2, <1>4, <2>2, <2>3 DEF AddressOk
<1>12. CASE n = -1 /\ Counted(ip)' = Counted(ip) /\ again' # {}
  <2>1. Size(ip)' = Size(ip)
    BY <1>12 DEF Size
  <2>2. Number(ip)' <= Size(ip)'
    BY <1>1, <1>3, <1>6, <1>7, <1>8, <1>12, <2>1
  <2> QED
    BY <1>2, <1>4, <1>12, <2>2 DEF AddressOk
<1> QED
  BY <1>10, <1>11, <1>12

\* A step that counts on one address.
LEMMA CountedStep ==
  ASSUME CountInv, ListenerTypeOK', Note, again \subseteq again', NEW ip \in Key, NEW n \in {1, -1},
         Effect(ip, n, IF n = 1 THEN 1 ELSE 0),
         NEW c \in Conn,
         \/ n = 1 /\ c \notin Counted(ip) /\ Counted(ip)' = Counted(ip) \cup {c}
         \/ n = -1 /\ c \in Counted(ip) /\ Counted(ip)' = Counted(ip) \ {c}
         \/ n = -1 /\ Counted(ip)' = Counted(ip) /\ again' # {},
         \A j \in Key \ {ip} : Counted(j)' = Counted(j)
  PROVE  CountInv'
<1>1. CacheInv' /\ Numbers' /\ \A j \in Key \ {ip} : Live(j)' => Live(j) /\ Number(j)' = Number(j)
  BY DEF Effect
<1>2. AddressOk(ip)'
  BY AddressCounted
<1>3. ASSUME NEW j \in Key \ {ip} PROVE AddressOk(j)'
  BY <1>1, AddressKept
<1>4. \A j \in Key : AddressOk(j)'
  BY <1>2, <1>3
<1> QED
  BY <1>1, <1>4 DEF CountInv

\* A step that counts on none.
LEMMA KeptStep ==
  ASSUME CountInv, ListenerTypeOK', Note, again \subseteq again', UNCHANGED cache, now' \in 0..Horizon,
         now <= now', \A j \in Key : Counted(j)' = Counted(j)
  PROVE  CountInv'
<1>1. CacheInv' /\ Numbers'
  BY DEF CountInv, CacheInv, SegmentOk, Numbers
<1>2. ASSUME NEW j \in Key, Live(j)' PROVE Live(j) /\ Number(j)' = Number(j)
  <2> DEFINE c == cache[SegmentOf[j]]
             x == c.elem[j].expire
  <2>1. Has(c, j) /\ (x = Never \/ now' < x) /\ Number(j)' = Number(j)
    BY <1>2 DEF Live, Number, Has, Alive
  <2>2. x \in {Never} \cup Nat /\ now \in Int /\ now' \in Int /\ Never \in Int
    <3>1. CacheInv
      BY DEF CountInv
    <3>2. now \in Int /\ now' \in Int /\ Never \in Int
      BY <3>1, LruCacheAssumption DEF LruCacheAssumption, CacheInv
    <3> QED
      BY <2>1, <3>1, <3>2, SegmentFacts
  <2>3. x = Never \/ now < x
    BY <2>1, <2>2
  <2> QED
    BY <2>1, <2>3 DEF Live, Alive
<1>3. ASSUME NEW j \in Key PROVE AddressOk(j)'
  BY <1>2, AddressKept
<1> QED
  BY <1>1, <1>3 DEF CountInv

LEMMA CountStep == CountInv /\ [ListenerNext]_allVars /\ ListenerTypeOK' => CountInv'
<1> SUFFICES ASSUME CountInv, [ListenerNext]_allVars, ListenerTypeOK' PROVE CountInv'
  OBVIOUS
<1>1. /\ CacheInv /\ Numbers /\ now \in 0..Horizon /\ Hour \in Int /\ Hour > 0 /\ Never = -1
      /\ conn \in [Conn -> {"none", "counted", "slot", "over", "closing", "closed"}]
      /\ \A c \in Conn : IpOf[c] \in Key
  BY LruCacheAssumption, LimitListenerAssumption
     DEF LruCacheAssumption, LimitListenerAssumption, CountInv, CacheInv, ListenerTypeOK
<1>2. ASSUME NEW c \in Conn, AcceptCount(c) PROVE CountInv'
  <2> DEFINE ip == IpOf[c]
  <2>1. PICK x \in {"over", "counted"} : conn' = [conn EXCEPT ![c] = x]
    BY <1>2 DEF AcceptCount
  <2>2. conn[c] = "none" /\ Note /\ again' = again
    BY <1>2 DEF AcceptCount
  <2>3. Count("IncreaseOne", ip, 1, 1, Never)
    BY <1>2 DEF AcceptCount, IncreaseOne
  <2>4. Effect(ip, 1, 1)
    BY <1>1, <2>3, CountEffect
  <2>5. c \notin Counted(ip) /\ Counted(ip)' = Counted(ip) \cup {c}
    BY <1>1, <2>1, <2>2 DEF Counted
  <2>6. \A j \in Key \ {ip} : Counted(j)' = Counted(j)
    BY <1>1, <2>1, <2>2 DEF Counted
  <2> HIDE DEF ip
  <2>7. ip \in Key
    BY <1>1 DEF ip
  <2> QED
    BY <2>2, <2>4, <2>5, <2>6, <2>7, CountedStep
<1>3. ASSUME NEW c \in Conn, CloseCount(c) PROVE CountInv'
  <2> DEFINE ip == IpOf[c]
  <2>1. conn' = [conn EXCEPT ![c] = "closed"] /\ conn[c] = "closing" /\ Note /\ again' = again
    BY <1>3 DEF CloseCount
  <2>2. Count("DecreaseOne", ip, -1, 0, Hour)
    BY <1>3 DEF CloseCount, DecreaseOne
  <2>3. Effect(ip, -1, 0)
    BY <1>1, <2>2, CountEffect
  <2>4. c \in Counted(ip) /\ Counted(ip)' = Counted(ip) \ {c}
    BY <1>1, <2>1 DEF Counted
  <2>5. \A j \in Key \ {ip} : Counted(j)' = Counted(j)
    BY <1>1, <2>1 DEF Counted
  <2> HIDE DEF ip
  <2>6. ip \in Key
    BY <1>1 DEF ip
  <2> QED
    BY <2>1, <2>3, <2>4, <2>5, <2>6, CountedStep
<1>4. ASSUME NEW c \in Conn, CloseAgain(c) PROVE CountInv'
  <2> DEFINE ip == IpOf[c]
  <2>1. conn' = conn /\ Note /\ again' = again \cup {c}
    BY <1>4 DEF CloseAgain
  <2>2. Count("DecreaseOne", ip, -1, 0, Hour)
    BY <1>4 DEF CloseAgain, DecreaseOne
  <2>3. Effect(ip, -1, 0)
    BY <1>1, <2>2, CountEffect
  <2>4. again' # {} /\ \A j : Counted(j)' = Counted(j)
    BY <2>1 DEF Counted
  <2> HIDE DEF ip
  <2>5. ip \in Key
    BY <1>1 DEF ip
  <2> QED
    BY <2>1, <2>3, <2>4, <2>5, CountedStep
<1>5. CASE Clock
  <2>1. /\ UNCHANGED cache /\ now' = now + 1 /\ now < Horizon /\ Note /\ again' = again
        /\ \A j : Counted(j)' = Counted(j)
    BY <1>5 DEF Clock, Tick, Counted
  <2>2. now' \in 0..Horizon /\ now <= now'
    BY <1>1, <2>1, LruCacheAssumption DEF LruCacheAssumption
  <2> QED
    BY <2>1, <2>2, KeptStep
<1>6. ASSUME UNCHANGED <<vars, again, forgotten>>, \A j \in Key : Counted(j)' = Counted(j)
      PROVE  CountInv'
  <2>1. UNCHANGED <<cache, now>>
    BY <1>6 DEF vars
  <2>2. \A j \in Key : Gone(j)' <=> Gone(j)
    BY <1>6, <2>1 DEF Gone, Has, Alive
  <2>3. Note
    <3>1. forgotten \in BOOLEAN /\ \A j \in Key : AddressOk(j)
      BY DEF CountInv, ListenerTypeOK
    <3>2. CASE forgotten = TRUE
      BY <1>6, <3>2 DEF Note
    <3>3. CASE forgotten = FALSE
      <4>1. ~\E j \in Key : Gone(j)'
        BY <2>2, <3>1, <3>3 DEF AddressOk
      <4> QED
        BY <1>6, <3>3, <4>1 DEF Note
    <3> QED
      BY <3>1, <3>2, <3>3
  <2> QED
    BY <1>1, <1>6, <2>1, <2>3, KeptStep
<1>7. ASSUME NEW c \in Conn, AcceptAcquire(c) PROVE CountInv'
  <2>1. PICK x \in {"slot", "over"} : conn' = [conn EXCEPT ![c] = x]
    BY <1>7 DEF AcceptAcquire
  <2>2. conn[c] = "counted" /\ UNCHANGED <<vars, again, forgotten>>
    BY <1>7 DEF AcceptAcquire
  <2>3. \A j \in Key : Counted(j)' = Counted(j)
    BY <1>1, <2>1, <2>2 DEF Counted
  <2> QED
    BY <1>6, <2>2, <2>3
<1>8. ASSUME NEW c \in Conn, CloseRelease(c) PROVE CountInv'
  <2>1. /\ conn' = [conn EXCEPT ![c] = "closing"] /\ conn[c] \in {"slot", "over"}
        /\ UNCHANGED <<vars, again, forgotten>>
    BY <1>8 DEF CloseRelease
  <2>2. \A j \in Key : Counted(j)' = Counted(j)
    BY <1>1, <2>1 DEF Counted
  <2> QED
    BY <1>6, <2>1, <2>2
<1>9. CASE CloseListener \/ UNCHANGED allVars \/ \E c \in Conn : AcquirePanics(c)
  <2>1. UNCHANGED <<vars, conn, again, forgotten>>
    BY <1>9 DEF CloseListener, AcquirePanics, allVars, listenerVars
  <2> QED
    BY <1>6, <2>1 DEF Counted
<1> QED
  BY <1>2, <1>3, <1>4, <1>5, <1>7, <1>8, <1>9 DEF ListenerNext, Accept, CloseConn

LEMMA CountInit == ListenerInit => CountInv
<1> SUFFICES ASSUME ListenerInit PROVE CountInv
  OBVIOUS
<1>1. CacheInv /\ ListenerTypeOK
  BY InvInit, PlacesInit DEF ListenerInit, Inv, PlaceInv
<1>2. \A s \in 1..SegmentCount : DOMAIN cache[s].elem = {}
  BY DEF ListenerInit, Init
<1>3. Numbers
  BY <1>2 DEF Numbers
<1>4. ASSUME NEW ip \in Key PROVE AddressOk(ip)
  <2>1. ~Live(ip)
    BY <1>1, <1>2, SegmentFacts DEF Live, Has
  <2>2. Counter(ip) = 0 /\ Counted(ip) = {}
    BY <1>1, <1>3, <2>1, CounterFacts DEF Counted, ListenerInit
  <2>3. Size(ip) = 0 /\ ~Gone(ip)
    BY <2>2, CountedFacts DEF Gone
  <2> QED
    BY <2>2, <2>3 DEF AddressOk
<1> QED
  BY <1>1, <1>3, <1>4 DEF CountInv

LEMMA AlwaysCountInv == ListenerSpec => []CountInv
<1>1. PlaceInv /\ [ListenerNext]_allVars => ListenerTypeOK'
  BY PlaceStep DEF PlaceInv
<1> QED
  BY <1>1, PlacesInit, PlaceStep, CountInit, CountStep, PTL DEF ListenerSpec

\* NeverTooHigh: whatever expires, is evicted or is closed twice, the count of
\* an address is never above the number of its connections.
THEOREM CountsNeverTooHigh == ListenerSpec => []NeverTooHigh
<1>1. CountInv => NeverTooHigh
  BY DEF CountInv, AddressOk, NeverTooHigh, Size
<1> QED
  BY <1>1, AlwaysCountInv, PTL

\* ExactUnlessForgotten: the count is exact until a counter is lost or Close is
\* called twice.
THEOREM CountsAreExact == ListenerSpec => []ExactUnlessForgotten
<1>1. CountInv => ExactUnlessForgotten
  BY DEF CountInv, AddressOk, ExactUnlessForgotten, Size
<1> QED
  BY <1>1, AlwaysCountInv, PTL

-----------------------------------------------------------------------------
(* LimitHandler: while no token has been put back twice, each token is in  *)
(* the channel or with one of the requests that took it.                   *)

\* The requests whose token has not come back: those that hold it, and those
\* that are done while returnToken waits for its time or has missed it.
Owing == {r \in Request : req[r] \in {"running", "handled", "returning", "done"} /\ returned[r] = 0}

\* How ServeHTTP, returnToken and the clocks of one request go together.
RequestOk(r) ==
  /\ req[r] \in {"none", "admitted", "refused"} =>
       /\ waiter[r] = "none" /\ returned[r] = 0 /\ finished[r] = "none"
       /\ ~late[r] /\ ~cancelled[r]
  /\ waiter[r] = "none" => ~late[r]
  /\ waiter[r] = "sending" => late[r]
  /\ finished[r] = "slow" => late[r]
  /\ req[r] = "running" => finished[r] = "none" /\ waiter[r] # "none" /\ ~cancelled[r]
  /\ req[r] = "handled" => finished[r] # "none" /\ waiter[r] # "none"
  /\ req[r] = "returning" => finished[r] = "fast" \/ (finished[r] = "none" /\ waiter[r] = "none")
  /\ returned[r] > 0 => late[r] \/ req[r] = "done"
  /\ returned[r] <= (IF req[r] = "done" /\ (finished[r] = "fast" \/ waiter[r] = "none") THEN 1 ELSE 0)
                    + (IF waiter[r] = "ended" THEN 1 ELSE 0)

Balanced == (\A r \in Request : ~Twice(r)) => tokens + Cardinality(Owing) = TotalConCurrency

HandlerInv == HandlerTypeOK /\ (\A r \in Request : RequestOk(r)) /\ Balanced

LEMMA OwingFinite == IsFiniteSet(Owing) /\ Cardinality(Owing) \in Nat
<1>1. Owing \in SUBSET Request /\ IsFiniteSet(Request)
  BY LimitHandlerAssumption DEF LimitHandlerAssumption, Owing
<1> QED
  BY <1>1, FS_Subset, FS_CardinalityType

\* A step of request r takes its token, puts it back or does neither.
LEMMA BalancedStep ==
  ASSUME Balanced, HandlerTypeOK, HandlerTypeOK', NEW r \in Request,
         \A q \in Request : Twice(q) => Twice(q)',
         \/ tokens' = tokens /\ Owing' = Owing
         \/ tokens' = tokens - 1 /\ r \notin Owing /\ Owing' = Owing \cup {r}
         \/ tokens' = tokens + 1 /\ (Twice(r) \/ (r \in Owing /\ Owing' = Owing \ {r}))
  PROVE  Balanced'
<1> SUFFICES ASSUME \A q \in Request : ~Twice(q)' PROVE tokens' + Cardinality(Owing') = TotalConCurrency
  BY DEF Balanced, Owing, Twice
<1>1. ~Twice(r) /\ tokens + Cardinality(Owing) = TotalConCurrency
  BY DEF Balanced
<1>2. /\ IsFiniteSet(Owing) /\ Cardinality(Owing) \in Nat /\ tokens \in Int
  BY OwingFinite, LimitHandlerAssumption DEF HandlerTypeOK, LimitHandlerAssumption
<1>3. CASE tokens' = tokens /\ Owing' = Owing
  BY <1>1, <1>3
<1>4. CASE tokens' = tokens - 1 /\ r \notin Owing /\ Owing' = Owing \cup {r}
  <2>1. Cardinality(Owing') = Cardinality(Owing) + 1
    BY <1>2, <1>4, FS_AddElement
  <2> QED
    BY <1>1, <1>2, <1>4, <2>1
<1>5. CASE tokens' = tokens + 1 /\ r \in Owing /\ Owing' = Owing \ {r}
  <2>1. Cardinality(Owing') = Cardinality(Owing) - 1
    BY <1>2, <1>5, FS_RemoveElement
  <2> QED
    BY <1>1, <1>2, <1>5, <2>1
<1> QED
  BY <1>1, <1>3, <1>4, <1>5

LEMMA HandlerInvInit == HandlerInit => HandlerInv
<1> SUFFICES ASSUME HandlerInit PROVE HandlerInv
  OBVIOUS
<1>1. TotalConCurrency \in Nat /\ MaxPerMinute \in Nat
  BY LimitHandlerAssumption DEF LimitHandlerAssumption
<1>2. HandlerTypeOK
  BY <1>1 DEF HandlerInit, HandlerTypeOK
<1>3. \A r \in Request : RequestOk(r)
  BY DEF HandlerInit, RequestOk
<1>4. Owing = {}
  BY DEF HandlerInit, Owing
<1>5. Balanced
  BY <1>1, <1>4, FS_EmptySet DEF HandlerInit, Balanced
<1> QED
  BY <1>2, <1>3, <1>5 DEF HandlerInv

\* Every step of a request keeps its type ...
LEMMA HandlerTypeStep == HandlerTypeOK /\ (\A r \in Request : RequestOk(r)) /\ [HandlerNext]_handlerVars => HandlerTypeOK'
<1> SUFFICES ASSUME HandlerTypeOK, \A r \in Request : RequestOk(r), [HandlerNext]_handlerVars PROVE HandlerTypeOK'
  OBVIOUS
<1> USE LimitHandlerAssumption DEF LimitHandlerAssumption
<1>1. ASSUME NEW r \in Request, NEW i \in Client, CheckIPRequestLimit(r, i) PROVE HandlerTypeOK'
  BY <1>1 DEF CheckIPRequestLimit, Goto, HandlerTypeOK
<1>2. ASSUME NEW r \in Request, TooBusy(r) \/ NotFound(r) \/ Serve(r) PROVE HandlerTypeOK'
  BY <1>2 DEF TooBusy, NotFound, Serve, Goto, HandlerTypeOK
<1>3. ASSUME NEW r \in Request, Handled(r) \/ HandlerPanics(r) \/ Cancel(r) PROVE HandlerTypeOK'
  BY <1>3 DEF Handled, HandlerPanics, Cancel, Goto, HandlerTypeOK
<1>4. ASSUME NEW r \in Request, ServeReturn(r) PROVE HandlerTypeOK'
  <2>1. returned[r] \in 0..1
    BY <1>4 DEF ServeReturn, RequestOk, HandlerTypeOK
  <2> QED
    BY <1>4, <2>1 DEF ServeReturn, PutBack, Goto, HandlerTypeOK
<1>5. ASSUME NEW r \in Request, WaiterReturns(r) PROVE HandlerTypeOK'
  <2>1. returned[r] \in 0..1
    BY <1>5 DEF WaiterReturns, RequestOk, HandlerTypeOK
  <2> QED
    BY <1>5, <2>1 DEF WaiterReturns, PutBack, HandlerTypeOK
<1>6. ASSUME NEW r \in Request, WaitTimePasses(r) \/ WaiterTimeout(r) \/ WaiterDone(r) PROVE HandlerTypeOK'
  BY <1>6 DEF WaitTimePasses, WaiterTimeout, WaiterDone, HandlerTypeOK
<1>7. ASSUME NEW i \in Client, MinuteEnds(i) PROVE HandlerTypeOK'
  BY <1>7 DEF MinuteEnds, HandlerTypeOK
<1>8. CASE UNCHANGED handlerVars
  BY <1>8 DEF handlerVars, HandlerTypeOK
<1> QED
  BY <1>1, <1>2, <1>3, <1>4, <1>5, <1>6, <1>7, <1>8 DEF HandlerNext, Progress, Wait

\* ... and what RequestOk says, of this request and of the others.
LEMMA RequestStep ==
  HandlerTypeOK /\ (\A r \in Request : RequestOk(r)) /\ [HandlerNext]_handlerVars => \A r \in Request : RequestOk(r)'
<1> SUFFICES ASSUME HandlerTypeOK, \A r \in Request : RequestOk(r), [HandlerNext]_handlerVars, NEW q \in Request
             PROVE  RequestOk(q)'
  OBVIOUS
<1>1. ASSUME NEW r \in Request, NEW i \in Client, CheckIPRequestLimit(r, i) PROVE RequestOk(q)'
  BY <1>1 DEF CheckIPRequestLimit, Goto, HandlerTypeOK, RequestOk
<1>2. ASSUME NEW r \in Request, TooBusy(r) \/ NotFound(r) \/ Serve(r) PROVE RequestOk(q)'
  BY <1>2 DEF TooBusy, NotFound, Serve, Goto, HandlerTypeOK, RequestOk
<1>3. ASSUME NEW r \in Request, Handled(r) \/ HandlerPanics(r) \/ Cancel(r) PROVE RequestOk(q)'
  BY <1>3 DEF Handled, HandlerPanics, Cancel, Goto, HandlerTypeOK, RequestOk
<1>4. ASSUME NEW r \in Request, ServeReturn(r) PROVE RequestOk(q)'
  BY <1>4 DEF ServeReturn, PutBack, Goto, HandlerTypeOK, RequestOk
<1>5. ASSUME NEW r \in Request, WaiterReturns(r) PROVE RequestOk(q)'
  BY <1>5 DEF WaiterReturns, PutBack, HandlerTypeOK, RequestOk
<1>6. ASSUME NEW r \in Request, WaitTimePasses(r) \/ WaiterTimeout(r) \/ WaiterDone(r) PROVE RequestOk(q)'
  BY <1>6 DEF WaitTimePasses, WaiterTimeout, WaiterDone, HandlerTypeOK, RequestOk
<1>7. CASE UNCHANGED handlerVars \/ \E i \in Client : MinuteEnds(i)
  BY <1>7 DEF handlerVars, MinuteEnds, RequestOk
<1> QED
  BY <1>1, <1>2, <1>3, <1>4, <1>5, <1>6, <1>7 DEF HandlerNext, Progress, Wait

LEMMA HandlerInvStep == HandlerInv /\ [HandlerNext]_handlerVars => HandlerInv'
<1> SUFFICES ASSUME HandlerInv, [HandlerNext]_handlerVars PROVE HandlerInv'
  OBVIOUS
<1>1. HandlerTypeOK /\ (\A r \in Request : RequestOk(r)) /\ Balanced
  BY DEF HandlerInv
<1>2. HandlerTypeOK' /\ \A r \in Request : RequestOk(r)'
  BY <1>1, HandlerTypeStep, RequestStep
<1>3. ASSUME UNCHANGED <<tokens, req, late, finished, returned>> PROVE Balanced'
  BY <1>1, <1>3 DEF Balanced, Owing, Twice
<1>4. ASSUME NEW r \in Request, NEW i \in Client, CheckIPRequestLimit(r, i) PROVE Balanced'
  <2>1. tokens' = tokens /\ Owing' = Owing
    BY <1>1, <1>4 DEF CheckIPRequestLimit, Goto, Owing, HandlerTypeOK
  <2>2. \A q \in Request : Twice(q) => Twice(q)'
    BY <1>4 DEF CheckIPRequestLimit, Twice
  <2> QED
    BY <1>1, <1>2, <2>1, <2>2, BalancedStep
<1>5. ASSUME NEW r \in Request, TooBusy(r) PROVE Balanced'
  <2>1. tokens' = tokens /\ Owing' = Owing
    BY <1>1, <1>5 DEF TooBusy, Goto, Owing, HandlerTypeOK
  <2>2. \A q \in Request : Twice(q) => Twice(q)'
    BY <1>5 DEF TooBusy, Twice
  <2> QED
    BY <1>1, <1>2, <2>1, <2>2, BalancedStep
<1>6. ASSUME NEW r \in Request, NotFound(r) \/ Serve(r) PROVE Balanced'
  <2>1. tokens' = tokens - 1 /\ returned[r] = 0
    BY <1>1, <1>6 DEF NotFound, Serve, RequestOk
  <2>2. r \notin Owing /\ Owing' = Owing \cup {r}
    BY <1>1, <1>6, <2>1 DEF NotFound, Serve, Goto, Owing, HandlerTypeOK
  <2>3. \A q \in Request : Twice(q) => Twice(q)'
    BY <1>6 DEF NotFound, Serve, Twice
  <2> QED
    BY <1>1, <1>2, <2>1, <2>2, <2>3, BalancedStep
<1>7. ASSUME NEW r \in Request, Handled(r) \/ HandlerPanics(r) \/ Cancel(r) PROVE Balanced'
  <2>1. tokens' = tokens /\ Owing' = Owing
    BY <1>1, <1>7 DEF Handled, HandlerPanics, Cancel, Goto, Owing, HandlerTypeOK
  <2>2. \A q \in Request : Twice(q) => Twice(q)'
    BY <1>1, <1>7 DEF Handled, HandlerPanics, Cancel, Twice, HandlerTypeOK, RequestOk
  <2> QED
    BY <1>1, <1>2, <2>1, <2>2, BalancedStep
<1>8. ASSUME NEW r \in Request, ServeReturn(r) PROVE Balanced'
  <2>1. tokens' = tokens + 1 /\ \A q \in Request : Twice(q) => Twice(q)'
    BY <1>8 DEF ServeReturn, PutBack, Twice
  <2>2. Twice(r) \/ returned[r] = 0
    BY <1>1, <1>8 DEF ServeReturn, RequestOk, Twice, HandlerTypeOK
  <2>3. returned[r] = 0 => r \in Owing /\ Owing' = Owing \ {r}
    BY <1>1, <1>8 DEF ServeReturn, PutBack, Goto, Owing, HandlerTypeOK
  <2> QED
    BY <1>1, <1>2, <2>1, <2>2, <2>3, BalancedStep
<1>9. ASSUME NEW r \in Request, WaiterReturns(r) PROVE Balanced'
  <2>1. tokens' = tokens + 1 /\ \A q \in Request : Twice(q) => Twice(q)'
    BY <1>9 DEF WaiterReturns, PutBack, Twice
  <2>2. Twice(r) \/ returned[r] = 0
    BY <1>1, <1>9 DEF WaiterReturns, RequestOk, Twice, HandlerTypeOK
  <2>3. req[r] \in {"running", "handled", "returning", "done"}
    BY <1>1, <1>9 DEF WaiterReturns, RequestOk, HandlerTypeOK
  <2>4. returned[r] = 0 => r \in Owing /\ Owing' = Owing \ {r}
    BY <1>1, <1>9, <2>3 DEF WaiterReturns, PutBack, Owing, HandlerTypeOK
  <2> QED
    BY <1>1, <1>2, <2>1, <2>2, <2>4, BalancedStep
<1>10. ASSUME NEW r \in Request, WaitTimePasses(r) PROVE Balanced'
  <2>1. tokens' = tokens /\ Owing' = Owing
    BY <1>10 DEF WaitTimePasses, Owing
  <2>2. \A q \in Request : Twice(q) => Twice(q)'
    BY <1>1, <1>10 DEF WaitTimePasses, Twice, HandlerTypeOK
  <2> QED
    BY <1>1, <1>2, <2>1, <2>2, BalancedStep
<1>11. ASSUME NEW r \in Request, WaiterTimeout(r) \/ WaiterDone(r) PROVE Balanced'
  BY <1>3, <1>11 DEF WaiterTimeout, WaiterDone
<1>12. ASSUME UNCHANGED handlerVars \/ \E i \in Client : MinuteEnds(i) PROVE Balanced'
  BY <1>3, <1>12 DEF handlerVars, MinuteEnds
<1>13. Balanced'
  BY <1>4, <1>5, <1>6, <1>7, <1>8, <1>9, <1>10, <1>11, <1>12 DEF HandlerNext, Progress, Wait
<1> QED
  BY <1>2, <1>13 DEF HandlerInv

LEMMA AlwaysHandlerInv == HandlerSpec => []HandlerInv
BY HandlerInvInit, HandlerInvStep, PTL DEF HandlerSpec

\* The type invariant, in which returned[r] <= 2: no token is put back three
\* times, and no send to the channel is one too many.
THEOREM HandlerTypeCorrect == HandlerSpec => []HandlerTypeOK
BY AlwaysHandlerInv, PTL DEF HandlerInv

\* Bounded: while the two clocks agree, the tokens in the channel and those that
\* requests hold are together never more than the limit.
THEOREM ServedAtATime == HandlerSpec => []Bounded
<1>1. HandlerInv => Bounded
  <2> SUFFICES ASSUME HandlerInv, \A r \in Request : ~Twice(r)
               PROVE  tokens + Cardinality(Holding) <= TotalConCurrency
    BY DEF Bounded
  <2>1. Holding \in SUBSET Owing
    BY DEF Holding, Owing
  <2>2. /\ tokens + Cardinality(Owing) = TotalConCurrency /\ tokens \in Int /\ Cardinality(Owing) \in Nat
        /\ IsFiniteSet(Owing)
    BY OwingFinite, LimitHandlerAssumption DEF LimitHandlerAssumption, HandlerInv, Balanced, HandlerTypeOK
  <2>3. Cardinality(Holding) <= Cardinality(Owing) /\ Cardinality(Holding) \in Nat
    BY <2>1, <2>2, FS_Subset, FS_CardinalityType
  <2> QED
    BY <2>2, <2>3
<1> QED
  BY <1>1, AlwaysHandlerInv, PTL
=============================================================================
