------------------------------ MODULE Collector ------------------------------
(***************************************************************************)
(* The metrics of the exporter (xpu-exporter/collector/gpuservice,         *)
(* server/prometheus.go, cmd/xpu-exporter/main.go). A scrape takes the     *)
(* answer of GetAllVxpuInfo from the cache, or asks the device plugin      *)
(* itself, without a deadline, and stores what it gets. A loop asks too,   *)
(* and drops the answer. Scrapes run concurrently.                         *)
(*                                                                         *)
(* The cache is the map of ExpiringMap, which LruCache implements. An      *)
(* answer is the time at which the plugin made it: it shows nothing later. *)
(***************************************************************************)
EXTENDS Integers, FiniteSets

CONSTANTS
  Scrape,    \* the goroutines that serve scrapes, each serves one after another
  CacheTime, \* cacheTime
  Horizon,   \* bound on the clock
  None

ASSUME CollectorAssumption == CacheTime \in Nat \ {0} /\ Horizon \in Nat

VARIABLES
  store, now, reply, \* the cache, with its one key, and the clock
  scrape,    \* scrape[s]: where it is, the answer it holds, and what had been shown when it began
  loop,      \* setVgpuInfoToCache: "ask", "asked" (a call is in flight), "ticker" or "ended"
  server,    \* StartServe: "serving", "failed" (Serve has returned) or "ended"
  cancelled, \* the context of main is cancelled
  newest,    \* history: the latest answer that a scrape has shown
  slowest,   \* history: the longest time between an answer and its storage
  overlapped \* history: two scrapes have asked the plugin at the same time

vars == <<store, now, reply, scrape, loop, server, cancelled, newest, slowest, overlapped>>
cacheVars == <<store, now, reply>>
history == <<newest, slowest, overlapped>>
mainVars == <<loop, server, cancelled>>

vgpuInfoCacheKey == "xpu-exporter-vgpu-info"

\* TenYears and the bounds of counters play no part here.
Cache == INSTANCE ExpiringMap
  WITH Key <- {vgpuInfoCacheKey}, Value <- 0..Horizon, Ttl <- {CacheTime}, Never <- -1,
       TenYears <- CacheTime, MinCount <- 0, MaxCount <- 0

At(pc, info, floor) == [pc |-> pc, info |-> info, floor |-> floor]
Idle == At("idle", 0, 0)

Init ==
  /\ Cache!Init
  /\ scrape = [s \in Scrape |-> Idle]
  /\ loop = "ask" /\ server = "serving" /\ cancelled = FALSE
  /\ newest = 0 /\ slowest = 0 /\ overlapped = FALSE

-----------------------------------------------------------------------------
(* Collect                                                                 *)

\* A scrape comes in, while the process serves.
Begin(s) ==
  /\ scrape[s].pc = "idle" /\ server = "serving"
  /\ scrape' = [scrape EXCEPT ![s] = At("get", 0, newest)]
  /\ UNCHANGED <<cacheVars, mainVars, history>>

\* The scrape emits the metrics of an answer and ends in the state "shown".
Show(s, info) ==
  /\ scrape' = [scrape EXCEPT ![s] = At("shown", info, @.floor)]
  /\ newest' = IF info > newest THEN info ELSE newest

\* getVgpuInfoInCache finds an answer in the cache.
GetHit(s) ==
  /\ scrape[s].pc = "get"
  /\ Cache!Get(vgpuInfoCacheKey)
  /\ reply'.ok /\ Show(s, reply'.val)
  /\ UNCHANGED <<mainVars, slowest, overlapped>>

\* It finds none, and calls GetAllVxpuInfo.
GetMiss(s) ==
  /\ scrape[s].pc = "get"
  /\ Cache!Get(vgpuInfoCacheKey)
  /\ ~reply'.ok
  /\ scrape' = [scrape EXCEPT ![s].pc = "asked"]
  /\ overlapped' = (overlapped \/ \E t \in Scrape : scrape[t].pc \in {"asked", "answered"})
  /\ UNCHANGED <<mainVars, newest, slowest>>

\* The plugin makes its answer; the scrape gets it whenever it goes on.
Answer(s) ==
  /\ scrape[s].pc = "asked"
  /\ scrape' = [scrape EXCEPT ![s] = At("answered", now, @.floor)]
  /\ UNCHANGED <<cacheVars, mainVars, history>>

\* The call fails: no metrics of devices, and nothing is stored.
AnswerFails(s) ==
  /\ scrape[s].pc = "asked"
  /\ scrape' = [scrape EXCEPT ![s] = Idle]
  /\ UNCHANGED <<cacheVars, mainVars, history>>

\* Mutant of Store: the entry does not expire.
StoreForEver(s) ==
  /\ scrape[s].pc = "answered"
  /\ Cache!Set(vgpuInfoCacheKey, scrape[s].info, -1)
  /\ Show(s, scrape[s].info)
  /\ slowest' = IF now - scrape[s].info > slowest THEN now - scrape[s].info ELSE slowest
  /\ UNCHANGED <<mainVars, overlapped>>

\* The answer is stored and shown.
Store(s) ==
  /\ scrape[s].pc = "answered"
  /\ Cache!Set(vgpuInfoCacheKey, scrape[s].info, CacheTime)
  /\ Show(s, scrape[s].info)
  /\ slowest' = IF now - scrape[s].info > slowest THEN now - scrape[s].info ELSE slowest
  /\ UNCHANGED <<mainVars, overlapped>>

End(s) ==
  /\ scrape[s].pc = "shown"
  /\ scrape' = [scrape EXCEPT ![s] = Idle]
  /\ UNCHANGED <<cacheVars, mainVars, history>>

-----------------------------------------------------------------------------
(* setVgpuInfoToCache, StartServe and main                                 *)

\* Mutant of LoopAsk: no case <-ctx.Done().
LoopAskAlways ==
  /\ loop = "ask"
  /\ loop' = "asked"
  /\ UNCHANGED <<cacheVars, scrape, server, cancelled, history>>

\* The select at the head of the loop.
LoopAsk ==
  /\ loop = "ask"
  /\ loop' = IF cancelled THEN "ended" ELSE "asked"
  /\ UNCHANGED <<cacheVars, scrape, server, cancelled, history>>

\* Mutant of LoopAnswer: the answer that came is stored, later than it was made.
LoopAnswerStored ==
  /\ loop = "asked"
  /\ loop' \in {"ticker", "ended"}
  /\ IF now > 0 THEN Cache!Set(vgpuInfoCacheKey, now - 1, CacheTime) ELSE UNCHANGED cacheVars
  /\ UNCHANGED <<scrape, server, cancelled, history>>

\* GetAllVxpuInfo returns: the answer is dropped, an error ends the loop.
LoopAnswer ==
  /\ loop = "asked"
  /\ loop' \in {"ticker", "ended"}
  /\ UNCHANGED <<cacheVars, scrape, server, cancelled, history>>

LoopTicker ==
  /\ loop = "ticker"
  /\ loop' = "ask"
  /\ UNCHANGED <<cacheVars, scrape, server, cancelled, history>>

\* newServer or Serve fails, and the context is cancelled.
ServeFails ==
  /\ server = "serving"
  /\ server' = "failed" /\ cancelled' = TRUE
  /\ UNCHANGED <<cacheVars, scrape, loop, history>>

\* Shutdown waits for the scrapes that run, up to its timeout of 30 s.
Shutdown ==
  /\ server = "failed"
  /\ server' = "ended"
  /\ UNCHANGED <<cacheVars, scrape, loop, cancelled, history>>

\* wg.Wait of main returns.
Ended == loop = "ended" /\ server = "ended"

Tick == now < Horizon /\ Cache!Tick /\ UNCHANGED <<scrape, mainVars, history>>

Collect(s) ==
  Begin(s) \/ GetHit(s) \/ GetMiss(s) \/ Answer(s) \/ AnswerFails(s) \/ Store(s) \/ End(s)

Main == LoopAsk \/ LoopAnswer \/ LoopTicker \/ ServeFails \/ Shutdown

Next == ~Ended /\ (Main \/ Tick \/ \E s \in Scrape : Collect(s))

\* The plugin answers the loop or is gone, which fails the call.
Spec ==
  /\ Init /\ [][Next]_vars
  /\ WF_vars(~Ended /\ LoopAsk) /\ WF_vars(~Ended /\ LoopAnswer) /\ WF_vars(~Ended /\ LoopTicker)
  /\ WF_vars(~Ended /\ Shutdown)

-----------------------------------------------------------------------------
(* Properties                                                              *)

TypeOK ==
  /\ store[vgpuInfoCacheKey] = None \/ store[vgpuInfoCacheKey].data \in 0..now
  /\ now \in 0..Horizon
  /\ scrape \in [Scrape -> [pc : {"idle", "get", "asked", "answered", "shown"},
                            info : 0..Horizon, floor : 0..Horizon]]
  /\ loop \in {"ask", "asked", "ticker", "ended"}
  /\ server \in {"serving", "failed", "ended"}
  /\ server = "serving" <=> ~cancelled
  /\ newest \in 0..now /\ slowest \in 0..now /\ overlapped \in BOOLEAN

\* A scrape shows nothing older than an earlier scrape has shown, as long as no
\* two of them have missed the cache together (the older of two answers may be
\* stored last, getVgpuInfoInCache).
NeverBackward ==
  ~overlapped => \A s \in Scrape : scrape[s].pc = "shown" => scrape[s].info >= scrape[s].floor

\* What a scrape finds in the cache is at most CacheTime older than an answer
\* may get on its way into the cache; there the lack of a deadline shows.
Fresh ==
  [][\A s \in Scrape : scrape[s].pc = "get" /\ scrape'[s].pc = "shown" =>
       now - scrape'[s].info <= CacheTime + slowest]_vars

\* When the server has failed the process ends: the goroutine of the collector
\* sees the cancelled context, and main gets both back.
ExporterEnds == cancelled ~> Ended

=============================================================================
