--------------------------- MODULE Collector_proofs ---------------------------
(***************************************************************************)
(* Theorems about Collector, for any number of scrapes, any cacheTime and  *)
(* any horizon.                                                            *)
(***************************************************************************)
EXTENDS Collector, TLAPS

-----------------------------------------------------------------------------
(* The inductive invariant                                                 *)

Cached == store[vgpuInfoCacheKey]

\* No scrape holds an answer of the future, or has seen one when it began.
InfoOk == \A s \in Scrape : scrape[s].info <= now /\ scrape[s].floor <= newest

\* An entry of the cache ends CacheTime after it was stored, and was stored no
\* later after its answer than any answer so far.
CacheOk ==
  Cached # None =>
    /\ Cached.data \in 0..now /\ Cached.expire \in Nat /\ now <= Cached.expire
    /\ Cached.expire - Cached.data <= CacheTime + slowest

\* As long as no two scrapes have asked the plugin at the same time, what is
\* cached is the newest that was shown, and what is answered is newer still.
Asking == {s \in Scrape : scrape[s].pc \in {"asked", "answered"}}
Alone == ~overlapped => \A s, t \in Asking : s = t
Ordered ==
  ~overlapped =>
    /\ Cached # None => Cached.data >= newest
    /\ \A s \in Scrape : scrape[s].pc = "answered" =>
         /\ scrape[s].info >= newest
         /\ Cached # None => Cached.data <= scrape[s].info

Inv == TypeOK /\ InfoOk /\ CacheOk /\ Alone /\ Ordered /\ NeverBackward

-----------------------------------------------------------------------------
(* What the cache does with its one key                                    *)

LEMMA GetFacts ==
  ASSUME Cache!Get(vgpuInfoCacheKey)
  PROVE  /\ Cached' = Cached /\ now' = now
         /\ reply'.ok <=> Cached # None
         /\ Cached # None => reply'.val = Cached.data
BY DEF Cache!Get, Cache!Return, Cached

LEMMA SetFacts ==
  ASSUME NEW info, Cache!Set(vgpuInfoCacheKey, info, CacheTime)
  PROVE  Cached' = [data |-> info, expire |-> now + CacheTime] /\ now' = now
BY CollectorAssumption DEF CollectorAssumption, Cache!Set, Cache!Return, Cache!Entry, Cached

LEMMA TickFacts ==
  ASSUME CacheOk, now \in Nat, Cache!Tick
  PROVE  /\ now' = now + 1
         /\ Cached' \in {Cached, None}
         /\ Cached' # None => Cached' = Cached /\ now + 1 <= Cached.expire
BY DEF Cache!Tick, CacheOk, Cached

-----------------------------------------------------------------------------
(* The steps                                                               *)

\* The steps of a scrape that neither show nor store anything.
LEMMA QuietStep ==
  ASSUME Inv, UNCHANGED <<mainVars, newest, slowest>>, Cached' = Cached, now' = now,
         NEW s \in Scrape, NEW next, scrape' = [scrape EXCEPT ![s] = next],
         next \in [pc : {"idle", "get", "asked", "answered"}, info : 0..Horizon, floor : 0..Horizon],
         next.info <= now, next.floor <= newest,
         next.pc = "answered" => scrape[s].pc = "asked" /\ next.info = now,
         next.pc = "asked" => overlapped' \/ Asking = {},
         overlapped' \in BOOLEAN, overlapped => overlapped'
  PROVE  Inv'
<1>1. TypeOK'
  <2>1. /\ store'[vgpuInfoCacheKey] = None \/ store'[vgpuInfoCacheKey].data \in 0..now'
        /\ now' \in 0..Horizon
        /\ scrape' \in [Scrape -> [pc : {"idle", "get", "asked", "answered", "shown"},
                                   info : 0..Horizon, floor : 0..Horizon]]
        /\ loop' \in {"ask", "asked", "ticker", "ended"}
        /\ server' \in {"serving", "failed", "ended"}
        /\ newest' \in 0..now' /\ slowest' \in 0..now'
    BY DEF Inv, TypeOK, mainVars, Cached
  <2>2. server' = "serving" <=> ~cancelled'
    BY DEF Inv, TypeOK, mainVars
  <2> QED
    BY <2>1, <2>2 DEF TypeOK
<1>2. InfoOk'
  BY DEF Inv, InfoOk, TypeOK
<1>3. CacheOk'
  BY DEF Inv, CacheOk
<1>4. ASSUME NEW t \in Scrape, t # s PROVE scrape'[t] = scrape[t]
  BY <1>4 DEF Inv, TypeOK
<1>5. scrape'[s] = next
  BY DEF Inv, TypeOK
<1>6. ASSUME ~overlapped' PROVE ~overlapped
  BY <1>6
<1>7. Alone'
  <2> SUFFICES ASSUME ~overlapped', NEW t \in Scrape, NEW u \in Scrape,
                      scrape'[t].pc \in {"asked", "answered"}, scrape'[u].pc \in {"asked", "answered"}
               PROVE  t = u
    BY DEF Alone, Asking
  <2>1. \A v, w \in Asking : v = w
    BY <1>6 DEF Inv, Alone
  <2>2. CASE s \in Asking
    BY <1>4, <2>1, <2>2 DEF Asking
  <2>3. CASE s \notin Asking
    BY <1>4, <1>5, <2>1, <2>3 DEF Asking
  <2> QED
    BY <2>2, <2>3
<1>8. Ordered'
  <2> SUFFICES ASSUME ~overlapped' PROVE
        /\ Cached' # None => Cached'.data >= newest'
        /\ \A t \in Scrape : scrape'[t].pc = "answered" =>
             scrape'[t].info >= newest' /\ (Cached' # None => Cached'.data <= scrape'[t].info)
    BY DEF Ordered
  <2>1. now >= newest /\ (Cached # None => Cached.data <= now)
    BY DEF Inv, TypeOK, CacheOk
  <2> QED
    BY <1>4, <1>5, <1>6, <2>1 DEF Inv, Ordered
<1>9. NeverBackward'
  BY <1>4, <1>5, <1>6 DEF Inv, NeverBackward
<1> QED
  BY <1>1, <1>2, <1>3, <1>7, <1>8, <1>9 DEF Inv

\* A scrape shows what it has found, or what it has just stored.
LEMMA ShowStep ==
  ASSUME Inv, UNCHANGED <<mainVars, overlapped>>, now' = now, NEW s \in Scrape, NEW info \in 0..now,
         Show(s, info), slowest' \in slowest..now,
         Cached' # None => /\ Cached'.data = info /\ Cached'.expire \in Nat /\ now <= Cached'.expire
                           /\ Cached'.expire - info <= CacheTime + slowest',
         ~overlapped => info >= newest,
         ~overlapped => \A t \in Scrape \ {s} : scrape[t].pc = "answered" => scrape[t].info >= info
  PROVE  Inv'
<1>1. /\ scrape'[s] = [pc |-> "shown", info |-> info, floor |-> scrape[s].floor]
      /\ \A t \in Scrape : t # s => scrape'[t] = scrape[t]
  BY DEF Inv, TypeOK, Show, At
<1>2. newest <= newest' /\ newest' \in {newest, info} /\ newest' >= info /\ newest' \in 0..now
  BY DEF Inv, TypeOK, Show
<1>3. TypeOK'
  <2>1. scrape' \in [Scrape -> [pc : {"idle", "get", "asked", "answered", "shown"},
                                info : 0..Horizon, floor : 0..Horizon]]
    <3> DEFINE floor == scrape[s].floor
    <3>1. info \in 0..Horizon /\ floor \in 0..Horizon
      BY CollectorAssumption DEF CollectorAssumption, Inv, TypeOK
    <3> HIDE DEF floor
    <3>2. At("shown", info, floor) \in
            [pc : {"idle", "get", "asked", "answered", "shown"}, info : 0..Horizon, floor : 0..Horizon]
      BY <3>1 DEF At
    <3>3. At("shown", info, scrape[s].floor) \in
            [pc : {"idle", "get", "asked", "answered", "shown"}, info : 0..Horizon, floor : 0..Horizon]
      BY <3>2 DEF floor
    <3> QED
      BY <3>3 DEF Inv, TypeOK, Show
  <2>2. store'[vgpuInfoCacheKey] = None \/ store'[vgpuInfoCacheKey].data \in 0..now'
    BY DEF Cached
  <2>3. server' = "serving" <=> ~cancelled'
    BY DEF Inv, TypeOK, mainVars
  <2>4. /\ now' \in 0..Horizon /\ newest' \in 0..now' /\ slowest' \in 0..now'
        /\ loop' \in {"ask", "asked", "ticker", "ended"}
        /\ server' \in {"serving", "failed", "ended"} /\ overlapped' \in BOOLEAN
    BY <1>2 DEF Inv, TypeOK, mainVars
  <2> QED
    BY <2>1, <2>2, <2>3, <2>4 DEF TypeOK
<1>4. InfoOk'
  <2> SUFFICES ASSUME NEW t \in Scrape PROVE scrape'[t].info <= now' /\ scrape'[t].floor <= newest'
    BY DEF InfoOk
  <2>1. scrape[t].info <= now /\ scrape[t].floor <= newest /\ scrape[t].floor \in 0..Horizon
    BY DEF Inv, InfoOk, TypeOK
  <2> QED
    BY <1>1, <1>2, <2>1 DEF Inv, TypeOK
<1>5. CacheOk'
  BY DEF CacheOk
<1>6. Alone'
  <2>1. \A t \in Asking' : t \in Asking
    BY <1>1 DEF Asking
  <2> QED
    BY <2>1 DEF Inv, Alone
<1>7. Ordered'
  <2> SUFFICES ASSUME ~overlapped' PROVE
        /\ Cached' # None => Cached'.data >= newest'
        /\ \A t \in Scrape : scrape'[t].pc = "answered" =>
             scrape'[t].info >= newest' /\ (Cached' # None => Cached'.data <= scrape'[t].info)
    BY DEF Ordered
  <2>1. newest' = info
    BY <1>2 DEF Inv, TypeOK
  <2>2. ASSUME NEW t \in Scrape, scrape'[t].pc = "answered" PROVE scrape'[t].info >= info
    BY <1>1, <2>2
  <2> QED
    BY <2>1, <2>2
<1>8. NeverBackward'
  <2> SUFFICES ASSUME ~overlapped', NEW t \in Scrape, scrape'[t].pc = "shown"
               PROVE  scrape'[t].info >= scrape'[t].floor
    BY DEF NeverBackward
  <2>1. CASE t = s
    <3>1. scrape[s].floor <= newest /\ info >= newest /\ scrape[s].floor \in 0..Horizon
      BY DEF Inv, InfoOk, TypeOK
    <3> QED
      BY <1>1, <2>1, <3>1 DEF Inv, TypeOK
  <2>2. CASE t # s
    BY <1>1, <2>2 DEF Inv, NeverBackward
  <2> QED
    BY <2>1, <2>2
<1> QED
  BY <1>3, <1>4, <1>5, <1>6, <1>7, <1>8 DEF Inv

\* One step of one scrape.
LEMMA CollectStep ==
  ASSUME Inv, NEW s \in Scrape, Collect(s)
  PROVE  Inv'
<1> DEFINE With(pc, info, floor) == [pc |-> pc, info |-> info, floor |-> floor]
<1>1. /\ scrape[s].info \in 0..Horizon /\ scrape[s].floor \in 0..Horizon
      /\ scrape[s].info <= now /\ scrape[s].floor <= newest
      /\ newest \in 0..now /\ now \in 0..Horizon /\ slowest \in 0..now
  BY DEF Inv, TypeOK, InfoOk
<1>2. ASSUME UNCHANGED <<cacheVars, mainVars, history>>,
             \/ scrape' = [scrape EXCEPT ![s] = Idle]
             \/ scrape' = [scrape EXCEPT ![s] = At("get", 0, newest)]
             \/ scrape[s].pc = "asked" /\ scrape' = [scrape EXCEPT ![s] = At("answered", now, @.floor)]
      PROVE  Inv'
  <2> DEFINE next == scrape'[s]
  <2>1. next \in {With("idle", 0, 0), With("get", 0, newest), With("answered", now, scrape[s].floor)}
    BY <1>2 DEF Inv, TypeOK, Idle, At
  <2>2. scrape' = [scrape EXCEPT ![s] = next]
    BY <1>2 DEF Inv, TypeOK
  <2>3. next.pc = "answered" => scrape[s].pc = "asked" /\ next.info = now
    BY <1>2 DEF Inv, TypeOK, Idle, At
  <2> HIDE DEF next
  <2>4. /\ next \in [pc : {"idle", "get", "asked", "answered"}, info : 0..Horizon, floor : 0..Horizon]
        /\ next.info <= now /\ next.floor <= newest /\ next.pc # "asked"
    <3> DEFINE floor == scrape[s].floor
    <3>1. /\ floor \in 0..Horizon /\ floor <= newest /\ newest \in 0..Horizon /\ now \in 0..Horizon
          /\ 0 <= newest /\ 0 \in 0..Horizon
      BY <1>1, CollectorAssumption DEF CollectorAssumption
    <3>2. next \in {With("idle", 0, 0), With("get", 0, newest), With("answered", now, floor)}
      BY <2>1
    <3> HIDE DEF floor
    <3> QED
      BY <3>1, <3>2
  <2>5. UNCHANGED <<mainVars, newest, slowest>> /\ Cached' = Cached /\ now' = now
        /\ overlapped' = overlapped
    BY <1>2 DEF cacheVars, history, Cached
  <2>6. overlapped' \in BOOLEAN /\ (overlapped => overlapped')
    BY <2>5 DEF Inv, TypeOK
  <2> QED
    BY <2>2, <2>3, <2>4, <2>5, <2>6, QuietStep
<1>3. CASE Begin(s) \/ Answer(s) \/ AnswerFails(s) \/ End(s)
  BY <1>2, <1>3 DEF Begin, Answer, AnswerFails, End
<1>4. CASE GetMiss(s)
  <2> DEFINE next == With("asked", scrape[s].info, scrape[s].floor)
  <2>1. scrape' = [scrape EXCEPT ![s] = next]
    <3>1. scrape[s] = With(scrape[s].pc, scrape[s].info, scrape[s].floor)
      BY DEF Inv, TypeOK
    <3>2. [scrape[s] EXCEPT !.pc = "asked"] = next
      BY <3>1
    <3>3. scrape' = [scrape EXCEPT ![s] = [scrape[s] EXCEPT !.pc = "asked"]]
      BY <1>4 DEF GetMiss
    <3> QED
      BY <3>2, <3>3
  <2>2. /\ next \in [pc : {"idle", "get", "asked", "answered"}, info : 0..Horizon, floor : 0..Horizon]
        /\ next.info <= now /\ next.floor <= newest /\ next.pc # "answered"
    BY <1>1
  <2>3. UNCHANGED <<mainVars, newest, slowest>> /\ Cached' = Cached /\ now' = now
    BY <1>4, GetFacts DEF GetMiss
  <2>4. overlapped' = (overlapped \/ \E t \in Scrape : scrape[t].pc \in {"asked", "answered"})
    BY <1>4 DEF GetMiss
  <2>5. /\ overlapped' \in BOOLEAN /\ (overlapped => overlapped')
        /\ (\E t \in Scrape : scrape[t].pc \in {"asked", "answered"}) => overlapped'
    BY <2>4, Zenon
  <2>6. overlapped' \/ Asking = {}
    BY <2>5 DEF Asking
  <2> HIDE DEF next
  <2> QED
    BY <2>1, <2>2, <2>3, <2>5, <2>6, QuietStep
<1>5. CASE GetHit(s)
  <2>1. /\ Cached' = Cached /\ now' = now /\ Cached # None /\ reply'.val = Cached.data
        /\ UNCHANGED <<mainVars, slowest, overlapped>> /\ Show(s, reply'.val)
    BY <1>5, GetFacts DEF GetHit
  <2>2. Show(s, Cached.data) /\ Cached.data \in 0..now
    BY <2>1 DEF Inv, CacheOk
  <2>3. /\ Cached.expire \in Nat /\ now <= Cached.expire
        /\ Cached.expire - Cached.data <= CacheTime + slowest
    BY <2>1 DEF Inv, CacheOk
  <2>4. ~overlapped => /\ Cached.data >= newest
                       /\ \A t \in Scrape \ {s} : scrape[t].pc = "answered" => scrape[t].info >= Cached.data
    <3>1. ASSUME ~overlapped, NEW t \in Scrape, scrape[t].pc = "answered"
          PROVE  scrape[t].info >= Cached.data
      BY <2>1, <2>2, <3>1 DEF Inv, Ordered, TypeOK
    <3> QED
      BY <2>1, <3>1 DEF Inv, Ordered
  <2>5. slowest' \in slowest..now /\ slowest' = slowest
    BY <1>1, <2>1
  <2> QED
    BY <2>1, <2>2, <2>3, <2>4, <2>5, ShowStep
<1>6. CASE Store(s)
  <2> DEFINE info == scrape[s].info
  <2>1. Cached' = [data |-> info, expire |-> now + CacheTime] /\ now' = now
    BY <1>6, SetFacts DEF Store
  <2>2. /\ scrape[s].pc = "answered" /\ Show(s, info) /\ UNCHANGED <<mainVars, overlapped>>
        /\ slowest' = IF now - info > slowest THEN now - info ELSE slowest
    BY <1>6 DEF Store
  <2>3. info \in 0..now
    BY <1>1
  <2>4. ~overlapped => /\ info >= newest
                       /\ \A t \in Scrape \ {s} : scrape[t].pc = "answered" => scrape[t].info >= info
    BY <2>2 DEF Inv, Ordered, Alone, Asking
  <2>5. slowest' \in slowest..now /\ now - info <= slowest'
    BY <1>1, <2>2, <2>3
  <2>6. /\ Cached'.data = info /\ Cached'.expire \in Nat /\ now <= Cached'.expire
        /\ Cached'.expire - info <= CacheTime + slowest'
    BY <1>1, <2>1, <2>3, <2>5, CollectorAssumption DEF CollectorAssumption
  <2> HIDE DEF info
  <2> QED
    BY <2>1, <2>2, <2>3, <2>4, <2>5, <2>6, ShowStep
<1> QED
  BY <1>3, <1>4, <1>5, <1>6 DEF Collect

LEMMA InvStep == Inv /\ [Next]_vars => Inv'
<1> SUFFICES ASSUME Inv, [Next]_vars PROVE Inv'
  OBVIOUS
<1>1. ASSUME UNCHANGED <<cacheVars, scrape, history>>,
             loop' \in {"ask", "asked", "ticker", "ended"}, server' \in {"serving", "failed", "ended"},
             server' = "serving" <=> ~cancelled'
      PROVE  Inv'
  <2>1. /\ store'[vgpuInfoCacheKey] = None \/ store'[vgpuInfoCacheKey].data \in 0..now'
        /\ now' \in 0..Horizon
        /\ scrape' \in [Scrape -> [pc : {"idle", "get", "asked", "answered", "shown"},
                                   info : 0..Horizon, floor : 0..Horizon]]
        /\ newest' \in 0..now' /\ slowest' \in 0..now' /\ overlapped' \in BOOLEAN
    BY <1>1 DEF Inv, TypeOK, cacheVars, history
  <2>2. TypeOK'
    BY <1>1, <2>1 DEF TypeOK
  <2> QED
    BY <1>1, <2>2 DEF Inv, InfoOk, CacheOk, Alone, Ordered, NeverBackward, Asking, Cached, cacheVars, history
<1>2. CASE UNCHANGED vars
  BY <1>1, <1>2 DEF vars, cacheVars, history, Inv, TypeOK
<1>3. CASE Main
  <2>1. UNCHANGED <<cacheVars, scrape, history>>
    BY <1>3 DEF Main, LoopAsk, LoopAnswer, LoopTicker, ServeFails, Shutdown
  <2>2. loop' \in {"ask", "asked", "ticker", "ended"} /\ server' \in {"serving", "failed", "ended"}
    BY <1>3 DEF Inv, TypeOK, Main, LoopAsk, LoopAnswer, LoopTicker, ServeFails, Shutdown
  <2>3. server' = "serving" <=> ~cancelled'
    BY <1>3 DEF Inv, TypeOK, Main, LoopAsk, LoopAnswer, LoopTicker, ServeFails, Shutdown
  <2> QED
    BY <1>1, <2>1, <2>2, <2>3
<1>4. CASE Tick
  <2>1. now \in Nat /\ now + 1 <= Horizon /\ UNCHANGED <<scrape, mainVars, history>>
    BY <1>4, CollectorAssumption DEF CollectorAssumption, Tick, Inv, TypeOK
  <2>2. /\ now' = now + 1 /\ Cached' \in {Cached, None}
        /\ Cached' # None => Cached' = Cached /\ now + 1 <= Cached.expire
    BY <1>4, <2>1, TickFacts DEF Tick, Inv
  <2>3. TypeOK'
    <3>1. /\ now' \in 0..Horizon /\ newest' \in 0..now' /\ slowest' \in 0..now'
          /\ store'[vgpuInfoCacheKey] = None \/ store'[vgpuInfoCacheKey].data \in 0..now'
          /\ scrape' \in [Scrape -> [pc : {"idle", "get", "asked", "answered", "shown"},
                                     info : 0..Horizon, floor : 0..Horizon]]
          /\ loop' \in {"ask", "asked", "ticker", "ended"}
          /\ server' \in {"serving", "failed", "ended"} /\ overlapped' \in BOOLEAN
      BY <2>1, <2>2 DEF Inv, TypeOK, CacheOk, Cached, mainVars, history
    <3>2. server' = "serving" <=> ~cancelled'
      BY <2>1 DEF Inv, TypeOK, mainVars
    <3> QED
      BY <3>1, <3>2 DEF TypeOK
  <2>4. CacheOk'
    BY <2>1, <2>2 DEF Inv, CacheOk, history
  <2>5. InfoOk'
    BY <2>1, <2>2 DEF Inv, TypeOK, InfoOk, history
  <2>6. Alone' /\ NeverBackward'
    BY <2>1 DEF Inv, Alone, Asking, NeverBackward, history
  <2>7. Ordered'
    BY <2>1, <2>2 DEF Inv, Ordered, history
  <2> QED
    BY <2>3, <2>4, <2>5, <2>6, <2>7 DEF Inv
<1> QED
  BY <1>2, <1>3, <1>4, CollectStep DEF Next

LEMMA AlwaysInv == Spec => []Inv
<1>1. Init => Inv
  <2> SUFFICES ASSUME Init PROVE Inv
    OBVIOUS
  <2>1. Cached = None /\ now = 0 /\ newest = 0 /\ slowest = 0 /\ Horizon \in Nat
    BY CollectorAssumption DEF CollectorAssumption, Init, Cache!Init, Cached
  <2>2. /\ \A s \in Scrape : scrape[s] = [pc |-> "idle", info |-> 0, floor |-> 0]
        /\ scrape = [s \in Scrape |-> [pc |-> "idle", info |-> 0, floor |-> 0]]
    BY DEF Init, Idle, At
  <2>3. TypeOK
    <3>1. server = "serving" <=> ~cancelled
      BY DEF Init
    <3>2. 0 \in 0..Horizon /\ 0 \in 0..0
      BY <2>1
    <3>3. scrape \in [Scrape -> [pc : {"idle", "get", "asked", "answered", "shown"},
                                info : 0..Horizon, floor : 0..Horizon]]
      BY <2>2, <3>2
    <3>4. /\ now \in 0..Horizon /\ newest \in 0..now /\ slowest \in 0..now
          /\ loop \in {"ask", "asked", "ticker", "ended"} /\ server \in {"serving", "failed", "ended"}
          /\ overlapped \in BOOLEAN /\ store[vgpuInfoCacheKey] = None
      BY <2>1, <3>2 DEF Init, Cached
    <3> QED
      BY <3>1, <3>3, <3>4 DEF TypeOK
  <2>4. InfoOk /\ CacheOk /\ Alone /\ NeverBackward
    BY <2>1, <2>2 DEF InfoOk, CacheOk, Alone, Asking, NeverBackward
  <2>5. Ordered
    BY <2>1, <2>2 DEF Ordered
  <2> QED
    BY <2>3, <2>4, <2>5 DEF Inv
<1> QED
  BY <1>1, InvStep, PTL DEF Spec

-----------------------------------------------------------------------------
(* Theorems                                                                *)

\* Types, and that the context is cancelled when the server has failed.
THEOREM TypeCorrect == Spec => []TypeOK
<1>1. Inv => TypeOK
  BY DEF Inv
<1> QED
  BY <1>1, AlwaysInv, PTL

\* A scrape shows nothing older than an earlier one has, unless two have asked
\* the plugin at the same time (getVgpuInfoInCache stores without comparing).
THEOREM ShownInOrder == Spec => []NeverBackward
<1>1. Inv => NeverBackward
  BY DEF Inv
<1> QED
  BY <1>1, AlwaysInv, PTL

\* What is found in the cache is at most cacheTime older than an answer has been
\* on its way into the cache.
THEOREM FoundFresh == Spec => Fresh
<1> DEFINE Step == \A s \in Scrape : scrape[s].pc = "get" /\ scrape'[s].pc = "shown" =>
                     now - scrape'[s].info <= CacheTime + slowest
<1>1. ASSUME Inv, [Next]_vars PROVE Step
  <2> SUFFICES ASSUME NEW s \in Scrape, scrape[s].pc = "get", scrape'[s].pc = "shown"
               PROVE  now - scrape'[s].info <= CacheTime + slowest
    OBVIOUS
  <2>1. GetHit(s)
    <3>1. scrape'[s] # scrape[s]
      OBVIOUS
    <3>2. \E t \in Scrape : Collect(t)
      BY <1>1, <3>1 DEF Next, vars, Main, LoopAsk, LoopAnswer, LoopTicker, ServeFails, Shutdown, Tick
    <3>3. PICK t \in Scrape : Collect(t)
      BY <3>2
    <3>4. \A u \in Scrape \ {t} : scrape'[u] = scrape[u]
      BY <1>1, <3>3 DEF Inv, TypeOK, Collect, Begin, GetHit, GetMiss, Answer, AnswerFails, Store, End, Show
    <3>5. t = s
      BY <3>1, <3>4
    <3>6. ~Begin(s) /\ ~Answer(s) /\ ~AnswerFails(s) /\ ~Store(s) /\ ~End(s)
      BY DEF Begin, Answer, AnswerFails, Store, End
    <3>7. ~GetMiss(s)
      BY <1>1 DEF Inv, TypeOK, GetMiss
    <3> QED
      BY <3>3, <3>5, <3>6, <3>7 DEF Collect
  <2>2. Cached # None /\ scrape'[s].info = Cached.data
    <3>1. Cached # None /\ reply'.val = Cached.data /\ Show(s, reply'.val)
      BY <2>1, GetFacts DEF GetHit
    <3> QED
      BY <1>1, <3>1 DEF Show, At, Inv, TypeOK
  <2> QED
    BY <1>1, <2>2, CollectorAssumption DEF CollectorAssumption, Inv, CacheOk, TypeOK
<1>2. Inv /\ [Next]_vars => [Step]_vars
  BY <1>1
<1>3. Spec => [][Step]_vars
  BY <1>2, AlwaysInv, PTL DEF Spec
<1> QED
  BY <1>3 DEF Fresh
===============================================================================
