----------------------------- MODULE ExpiringMap -----------------------------
(***************************************************************************)
(* What the cache of the exporter promises its callers, without segments,  *)
(* lists or an index (specification of ConcurrencyLRUCache in              *)
(* xpu-exporter/common/cache/lrucache.go): a map whose entries end at      *)
(* their expiry time, in which the arrival of a new key may drop one other *)
(* key, and nothing else is ever lost, changed or kept for too long.       *)
(***************************************************************************)
EXTENDS Integers

CONSTANTS
  Key,      \* the keys
  Value,    \* what callers store
  Ttl,      \* the expiry times callers ask for
  None,     \* no entry, no value
  Never,    \* neverExpire
  TenYears, \* the longest time that Set accepts
  MinCount, \* math.MinInt64
  MaxCount  \* math.MaxInt64

VARIABLES
  store,    \* store[k]: the entry of k, [data, expire], or None
  now,      \* the time
  reply     \* the call that returned last, [call, key, ok, val]

vars == <<store, now, reply>>

Entry(v, ttl) == [data |-> v, expire |-> IF ttl = Never THEN Never ELSE now + ttl]

\* An entry that ends at this very instant counts as there or as gone.
Seen(k) ==
  {store[k]} \cup IF store[k] # None /\ store[k].expire = now THEN {None} ELSE {}

Init == store = [k \in Key |-> None] /\ now = 0 /\ reply = None

Tick ==
  /\ now' = now + 1
  /\ store' = [k \in Key |->
       IF store[k] # None /\ store[k].expire # Never /\ store[k].expire < now'
       THEN None ELSE store[k]]
  /\ UNCHANGED reply

\* Call c on k returns and leaves e under k; if k was not there, one other key
\* may have been dropped to make room.
Return(c, k, ok, val, e) ==
  /\ reply' = [call |-> c, key |-> k, ok |-> ok, val |-> val]
  /\ \E gone \in {{}} \cup IF store[k] = None THEN {{j} : j \in Key \ {k}} ELSE {} :
       store' = [j \in Key |-> IF j = k THEN e ELSE IF j \in gone THEN None ELSE store[j]]
  /\ UNCHANGED now

Get(k) ==
  LET e == store[k]
  IN  Return("Get", k, e # None, IF e = None THEN None ELSE e.data, e)

Delete(k) == Return("Delete", k, TRUE, None, None)

Set(k, v, ttl) ==
  IF ttl = Never \/ ttl \in 0..TenYears
  THEN Return("Set", k, TRUE, None, Entry(v, ttl))
  ELSE Return("Set", k, FALSE, None, store[k])

SetIfNotExist(k, v, ttl) ==
  \/ /\ ttl = Never \/ ttl \in 0..TenYears
     /\ None \in Seen(k)
     /\ Return("SetIfNotExist", k, TRUE, None, Entry(v, ttl))
  \/ /\ ~(ttl = Never \/ ttl \in 0..TenYears) \/ store[k] # None
     /\ Return("SetIfNotExist", k, FALSE, None, store[k])

\* IncreaseOne (d = 1, first = 1) and DecreaseOne (d = -1, first = 0): the
\* count goes on from a number that is there and starts at first otherwise.
Count(c, k, d, first, ttl) ==
  LET To(n) == Return(c, k, TRUE, n, Entry(n, ttl))
      Error == Return(c, k, FALSE, None, store[k])
      Next(e) == IF e = None THEN To(first)
                 ELSE IF e.data \in MinCount..MaxCount /\ e.data + d \in MinCount..MaxCount
                      THEN To(e.data + d) ELSE Error
  IN  IF ttl = Never \/ ttl > 0 THEN \E e \in Seen(k) : Next(e) ELSE Error

Step(k) ==
  \/ Get(k) \/ Delete(k)
  \/ \E ttl \in Ttl :
       \/ \E v \in Value : Set(k, v, ttl) \/ SetIfNotExist(k, v, ttl)
       \/ Count("IncreaseOne", k, 1, 1, ttl)
       \/ Count("DecreaseOne", k, -1, 0, ttl)

Next == Tick \/ \E k \in Key : Step(k)

Spec == Init /\ [][Next]_vars
=============================================================================
