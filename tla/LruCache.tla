------------------------------- MODULE LruCache -------------------------------
(***************************************************************************)
(* The cache of the exporter (xpu-exporter/common/cache/lrucache.go). A    *)
(* key belongs to one of the segments; a segment is a list, newest first,  *)
(* with an index into it, and holds SegmentSize elements. Every call works *)
(* on one segment under its mutex and is one step; the clock is read once  *)
(* per call. The branches for a nil cache and for a list element that is   *)
(* not a *cacheElement are left out: no caller reaches them.               *)
(***************************************************************************)
EXTENDS Integers, Sequences, SequencesExt

CONSTANTS
  Key, Value, Ttl, None, Never, TenYears, MinCount, MaxCount, \* as in ExpiringMap
  SegmentOf,    \* index: the segment of each key
  SegmentCount, \* segmentCount
  MaxEntry,     \* the size New is called with
  Horizon       \* bound on the clock

\* What a segment holds under a key: a *cacheElement.
CacheElement == [data : Value \cup MinCount..MaxCount, expire : {Never} \cup Nat]

ASSUME LruCacheAssumption ==
  /\ SegmentCount \in Nat \ {0} /\ MaxEntry \in Nat \ {0}
  /\ SegmentOf \in [Key -> 1..SegmentCount]
  /\ Never = -1 /\ TenYears \in Nat /\ Horizon \in Nat
  /\ Ttl \subseteq Int
  /\ MinCount \in Int /\ MaxCount \in Int /\ MinCount <= 0 /\ MaxCount >= 1
  /\ None \notin CacheElement

VARIABLES
  cache,  \* cache[s]: the segment s, [order |-> its list, elem |-> key to element]
  now,    \* time.Now()
  reply,  \* the call that returned last
  touched \* history: the keys in the order of their last use, latest first

vars == <<cache, now, reply, touched>>

SegmentSize == (MaxEntry + SegmentCount - 1) \div SegmentCount

Init ==
  /\ cache = [s \in 1..SegmentCount |-> [order |-> <<>>, elem |-> <<>>]]
  /\ now = 0
  /\ reply = None
  /\ touched = <<>>

-----------------------------------------------------------------------------
(* A segment c                                                             *)

Has(c, k) == k \in DOMAIN c.elem

Element(v, ttl) == [data |-> v, expire |-> IF ttl = Never THEN Never ELSE now + ttl]

\* The condition of increment, decrement and setIfNotExist, and that of
\* getValue: they differ at the instant of expiry.
Alive(e) == e.expire = Never \/ now < e.expire
Readable(e) == e.expire = Never \/ now <= e.expire

MoveToFront(c, k) == [c EXCEPT !.order = <<k>> \o RemoveFirst(@, k)]

SafeDeleteByKey(c, k) ==
  [order |-> RemoveFirst(c.order, k), elem |-> [j \in DOMAIN c.elem \ {k} |-> c.elem[j]]]

SafeRemoveOldest(c) == IF c.order = <<>> THEN c ELSE SafeDeleteByKey(c, Last(c.order))

\* Mutant of SetInner: the new element is not counted.
SetInnerOffByOne(c, k, e) ==
  LET d == IF Len(c.order) > SegmentSize THEN SafeRemoveOldest(c) ELSE c
  IN  [order |-> <<k>> \o d.order,
       elem |-> [j \in DOMAIN d.elem \cup {k} |-> IF j = k THEN e ELSE d.elem[j]]]

SetInner(c, k, e) ==
  LET d == IF Len(c.order) + 1 > SegmentSize THEN SafeRemoveOldest(c) ELSE c
  IN  [order |-> <<k>> \o d.order,
       elem |-> [j \in DOMAIN d.elem \cup {k} |-> IF j = k THEN e ELSE d.elem[j]]]

\* paddingElement of the element that is there, or setInner.
Store(c, k, e) ==
  IF Has(c, k) THEN [MoveToFront(c, k) EXCEPT !.elem[k] = e] ELSE SetInner(c, k, e)

-----------------------------------------------------------------------------
(* The calls                                                               *)

\* The call works on the element of k, returns ok and val and leaves segment c.
Return(call, k, ok, val, c) ==
  /\ cache' = [cache EXCEPT ![SegmentOf[k]] = c]
  /\ reply' = [call |-> call, key |-> k, ok |-> ok, val |-> val]
  /\ touched' = IF Has(c, k) THEN <<k>> \o RemoveFirst(touched, k) ELSE RemoveFirst(touched, k)
  /\ UNCHANGED now

\* The parameters are rejected.
Refuse(call, k) ==
  /\ reply' = [call |-> call, key |-> k, ok |-> FALSE, val |-> None]
  /\ UNCHANGED <<cache, now, touched>>

Set(k, v, ttl) ==
  IF ttl < Never \/ ttl > TenYears
  THEN Refuse("Set", k)
  ELSE Return("Set", k, TRUE, None, Store(cache[SegmentOf[k]], k, Element(v, ttl)))

\* Mutants of Get: the element keeps its place in the list; expiry is not checked.
GetInPlace(k) ==
  LET c == cache[SegmentOf[k]]
  IN  IF ~Has(c, k) THEN Return("Get", k, FALSE, None, c)
      ELSE IF Readable(c.elem[k]) THEN Return("Get", k, TRUE, c.elem[k].data, c)
      ELSE Return("Get", k, FALSE, None, SafeDeleteByKey(c, k))
GetStale(k) ==
  LET c == cache[SegmentOf[k]]
  IN  IF ~Has(c, k) THEN Return("Get", k, FALSE, None, c)
      ELSE Return("Get", k, TRUE, c.elem[k].data, MoveToFront(c, k))

Get(k) ==
  LET c == cache[SegmentOf[k]]
  IN  IF ~Has(c, k) THEN Return("Get", k, FALSE, None, c)
      ELSE IF Readable(c.elem[k]) THEN Return("Get", k, TRUE, c.elem[k].data, MoveToFront(c, k))
      ELSE Return("Get", k, FALSE, None, SafeDeleteByKey(c, k))

Delete(k) ==
  LET c == cache[SegmentOf[k]]
  IN  Return("Delete", k, TRUE, None, IF Has(c, k) THEN SafeDeleteByKey(c, k) ELSE c)

SetIfNotExist(k, v, ttl) ==
  LET c == cache[SegmentOf[k]]
  IN  IF ttl < Never \/ ttl > TenYears THEN Refuse("SetIfNotExist", k)
      ELSE IF Has(c, k) /\ Alive(c.elem[k])
      THEN Return("SetIfNotExist", k, FALSE, None, MoveToFront(c, k))
      ELSE Return("SetIfNotExist", k, TRUE, None, Store(c, k, Element(v, ttl)))

\* IncreaseOne and DecreaseOne: by d from a number that is alive, which must be
\* an int64 other than the last one, and otherwise anew at first. The second
\* call never starts below zero but may count there.
Count(call, k, d, first, ttl) ==
  LET c == cache[SegmentOf[k]]
      To(n) == Return(call, k, TRUE, n, Store(c, k, Element(n, ttl)))
      v == c.elem[k].data
  IN  IF ttl <= 0 /\ ttl # Never THEN Refuse(call, k)
      ELSE IF ~Has(c, k) \/ ~Alive(c.elem[k]) THEN To(first)
      ELSE IF v \in MinCount..MaxCount /\ v # (IF d = 1 THEN MaxCount ELSE MinCount)
      THEN To(v + d)
      ELSE Return(call, k, FALSE, None, MoveToFront(c, k))

IncreaseOne(k, ttl) == Count("IncreaseOne", k, 1, 1, ttl)
DecreaseOne(k, ttl) == Count("DecreaseOne", k, -1, 0, ttl)

Tick == now < Horizon /\ now' = now + 1 /\ UNCHANGED <<cache, reply, touched>>

Next ==
  \/ Tick
  \/ \E k \in Key : Get(k) \/ Delete(k)
  \/ \E k \in Key, ttl \in Ttl : IncreaseOne(k, ttl) \/ DecreaseOne(k, ttl)
  \/ \E k \in Key, ttl \in Ttl, v \in Value : Set(k, v, ttl) \/ SetIfNotExist(k, v, ttl)

Spec == Init /\ [][Next]_vars

-----------------------------------------------------------------------------
(* Properties                                                              *)

\* Type, and what the mutexes protect: the index and the list of a segment have
\* the same keys, each once, all of this segment, and never more than it holds.
TypeOK ==
  /\ now \in 0..Horizon
  /\ \A s \in 1..SegmentCount : LET c == cache[s] IN
       /\ c.order \in Seq(Key) /\ c.elem \in [DOMAIN c.elem -> CacheElement]
       /\ Len(c.order) <= SegmentSize
       /\ IsInjective(c.order) /\ Range(c.order) = DOMAIN c.elem
       /\ \A k \in DOMAIN c.elem : SegmentOf[k] = s

\* A key that leaves the cache without being deleted or found expired was, of
\* the keys of its segment, the one least recently used (safeRemoveOldest); a
\* caller's reads keep a key (getValue), whichever call it was used by.
Older(j, k) == \E m, n \in 1..Len(touched) : m < n /\ touched[m] = j /\ touched[n] = k
EvictsTheOldest ==
  [][\A s \in 1..SegmentCount : LET c == cache[s] IN
       \A k \in DOMAIN c.elem : k \notin DOMAIN cache'[s].elem /\ k # reply'.key =>
         \A j \in DOMAIN c.elem \ {k} : Older(j, k)]_vars

\* What callers see of the segments is a map with expiry: every reply is the
\* one the map gives, and a call changes no other key than by dropping one when
\* a new key comes.
Visible == [k \in Key |-> LET c == cache[SegmentOf[k]] IN
             IF Has(c, k) /\ Readable(c.elem[k]) THEN c.elem[k] ELSE None]
Map == INSTANCE ExpiringMap WITH store <- Visible
ImplementsMap == Map!Spec
=============================================================================
