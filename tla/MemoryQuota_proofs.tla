------------------------- MODULE MemoryQuota_proofs -------------------------
(***************************************************************************)
(* Theorems about MemoryQuota and about the pid maps of PidsConfig that it *)
(* is built on, for all finite memories, all sets of processes and         *)
(* threads, all quotas and all calls that satisfy MemoryQuotaAssumption,   *)
(* and any number of registration attempts.                                *)
(***************************************************************************)
EXTENDS MemoryQuota, FiniteSetTheorems, TLAPS

-----------------------------------------------------------------------------
(* The pid maps: PidsSpec of PidsConfig                                    *)

\* What cgroup.procs can list is a sequence of processes.
LEMMA ListingType ==
  ASSUME NEW S \in SUBSET Proc, NEW s \in SetToSeqs(S)
  PROVE  s \in Seq(Proc)
<1>1. IsFiniteSet(S)
  BY PidsConfigAssumption, FS_Subset
<1>2. Cardinality(S) \in Nat
  BY <1>1, FS_CardinalityType
<1>3. s \in [1..Cardinality(S) -> Proc]
  BY DEF SetToSeqs
<1> QED
  BY <1>2, <1>3

\* The pids in a file are processes.
LEMMA ToSetType ==
  ASSUME NEW s \in Seq(Proc)
  PROVE  ToSet(s) \subseteq Proc
BY DEF ToSet

\* Writing lines over a file leaves a file of such lines.
LEMMA OverwriteType ==
  ASSUME NEW file \in Seq(Proc), NEW lines \in Seq(Proc)
  PROVE  Overwrite(file, lines) \in Seq(Proc)
<1>1. SubSeq(file, Len(lines) + 1, Len(file)) \in Seq(Proc)
  OBVIOUS
<1> QED
  BY <1>1 DEF Overwrite

\* Every step keeps the types (pid_manager.cpp, service_impl.go).
LEMMA PidsTypeStep ==
  ASSUME PidsTypeOK, [PidsNext]_pidsVars
  PROVE  PidsTypeOK'
<1> USE PidsConfigAssumption DEF PidsTypeOK
<1>1. ASSUME NEW p \in Proc, Start(p) PROVE PidsTypeOK'
  BY <1>1 DEF Start
<1>2. ASSUME NEW p \in Proc, ExitProcess(p) PROVE PidsTypeOK'
  BY <1>2 DEF ExitProcess
<1>3. ASSUME NEW p \in Proc, GetPidsRead(p) PROVE PidsTypeOK'
  <2>1. PICK s \in SetToSeqs({q \in Proc : Alive(q)}) : snapshot' = [snapshot EXCEPT ![p] = s]
    BY <1>3 DEF GetPidsRead
  <2>2. {q \in Proc : Alive(q)} \in SUBSET Proc
    OBVIOUS
  <2>3. s \in Seq(Proc)
    BY <2>2, ListingType
  <2> QED
    BY <1>3, <2>1, <2>3 DEF GetPidsRead
<1>4. ASSUME NEW p \in Proc, GetPidsTruncate(p) PROVE PidsTypeOK'
  BY <1>4 DEF GetPidsTruncate, FileEvent
<1>5. ASSUME NEW p \in Proc, GetPidsFlush(p) PROVE PidsTypeOK'
  <2>1. pidsFile' \in Seq(Proc)
    BY <1>5, OverwriteType DEF GetPidsFlush
  <2> QED
    BY <1>5, <2>1 DEF GetPidsFlush, FileEvent, Return, Registered
<1>6. ASSUME NEW p \in Proc, GetPidsFail(p) PROVE PidsTypeOK'
  <2>1. tries[p] + 1 \in 0..MaxTries
    BY <1>6 DEF GetPidsFail
  <2> QED
    BY <1>6, <2>1 DEF GetPidsFail, Return
<1>7. ASSUME NEW p \in Proc, AddWatch(p) PROVE PidsTypeOK'
  BY <1>7 DEF AddWatch
<1>8. ASSUME NEW p \in Proc, FirstRefresh(p) PROVE PidsTypeOK'
  BY <1>8, ToSetType DEF FirstRefresh, Refresh
<1>9. ASSUME NEW p \in Proc, HandleEvent(p) PROVE PidsTypeOK'
  BY <1>9, ToSetType DEF HandleEvent, Refresh
<1>10. CASE UNCHANGED pidsVars
  BY <1>10 DEF pidsVars
<1> QED
  BY <1>1, <1>2, <1>3, <1>4, <1>5, <1>6, <1>7, <1>8, <1>9, <1>10
     DEF PidsNext, PidsStep, Progress

\* Every variable keeps its type, and RegisterToDevicePlugin makes no more than
\* TRY_TIMES attempts.
THEOREM PidsTypeCorrect == PidsSpec => []PidsTypeOK
<1>1. PidsInit => PidsTypeOK
  BY PidsConfigAssumption DEF PidsInit, PidsTypeOK
<1>2. PidsTypeOK /\ [PidsNext]_pidsVars => PidsTypeOK'
  BY PidsTypeStep
<1> QED
  BY <1>1, <1>2, PTL DEF PidsSpec

\* No step makes the map of a watching process differ from the file without an
\* event that is still to be handled.
LEMMA NoLostUpdateStep ==
  ASSUME PidsTypeOK, NoLostUpdate, [PidsNext]_pidsVars
  PROVE  NoLostUpdate'
<1> USE DEF PidsTypeOK, NoLostUpdate
<1>1. ASSUME NEW p \in Proc, Start(p) PROVE NoLostUpdate'
  BY <1>1 DEF Start
<1>2. ASSUME NEW p \in Proc, ExitProcess(p) PROVE NoLostUpdate'
  BY <1>2 DEF ExitProcess
<1>3. ASSUME NEW p \in Proc, GetPidsRead(p) PROVE NoLostUpdate'
  BY <1>3 DEF GetPidsRead
<1>4. ASSUME NEW p \in Proc, GetPidsTruncate(p) PROVE NoLostUpdate'
  BY <1>4 DEF GetPidsTruncate, FileEvent
<1>5. ASSUME NEW p \in Proc, GetPidsFlush(p) PROVE NoLostUpdate'
  BY <1>5 DEF GetPidsFlush, FileEvent
<1>6. ASSUME NEW p \in Proc, GetPidsFail(p) PROVE NoLostUpdate'
  BY <1>6 DEF GetPidsFail
<1>7. ASSUME NEW p \in Proc, AddWatch(p) PROVE NoLostUpdate'
  BY <1>7 DEF AddWatch
<1>8. ASSUME NEW p \in Proc, FirstRefresh(p) PROVE NoLostUpdate'
  BY <1>8 DEF FirstRefresh, Refresh
<1>9. ASSUME NEW p \in Proc, HandleEvent(p) PROVE NoLostUpdate'
  BY <1>9 DEF HandleEvent, Refresh
<1>10. CASE UNCHANGED pidsVars
  BY <1>10 DEF pidsVars
<1> QED
  BY <1>1, <1>2, <1>3, <1>4, <1>5, <1>6, <1>7, <1>8, <1>9, <1>10
     DEF PidsNext, PidsStep, Progress

\* PidsConfigWatcherThread misses no change of pids.config.
THEOREM NothingLost == PidsSpec => []NoLostUpdate
<1>1. PidsInit => NoLostUpdate
  BY DEF PidsInit, NoLostUpdate
<1>2. PidsTypeOK /\ NoLostUpdate /\ [PidsNext]_pidsVars => NoLostUpdate'
  BY NoLostUpdateStep
<1> QED
  BY <1>1, <1>2, PidsTypeCorrect, PTL DEF PidsSpec

-----------------------------------------------------------------------------
(* The quota: Spec of MemoryQuota                                          *)

\* Every step of the composition is a step of the pid maps or leaves them alone.
LEMMA PidsStepOrStutter ==
  ASSUME [Next]_vars
  PROVE  [PidsNext]_pidsVars
<1>1. ASSUME NEW t \in Thread,
             Request(t) \/ Acquire(t) \/ AcquireFails(t) \/ Guarded(t)
      PROVE  UNCHANGED pidsVars
  BY <1>1 DEF Request, Acquire, AcquireFails, Guarded, Check, CheckFails, Driver,
              DriverFails, Release
<1>2. ASSUME NEW p \in Proc, FreePages(p) \/ UnhookedAlloc(p) PROVE UNCHANGED pidsVars
  BY <1>2 DEF FreePages, UnhookedAlloc
<1>3. ASSUME NEW p \in Proc, Exit(p) PROVE PidsNext
  BY <1>3 DEF Exit, PidsNext
<1>4. ASSUME NEW p \in Proc, PidsStep(p) PROVE PidsNext
  BY <1>4 DEF PidsNext
<1>5. CASE UNCHANGED vars
  BY <1>5 DEF vars
<1> QED
  BY <1>1, <1>2, <1>3, <1>4, <1>5 DEF Next

\* The library's own pid maps behave as PidsConfig says, whatever its threads
\* allocate: in particular no change of pids.config is missed.
THEOREM ImplementsPids == Spec => PidsInit /\ [][PidsNext]_pidsVars
<1>1. Init => PidsInit
  BY DEF Init
<1>2. [Next]_vars => [PidsNext]_pidsVars
  BY PidsStepOrStutter
<1> QED
  BY <1>1, <1>2, PTL DEF Spec

LEMMA PidsInvariant == Spec => [](PidsTypeOK /\ NoLostUpdate)
<1>1. PidsInit => PidsTypeOK /\ NoLostUpdate
  BY PidsConfigAssumption DEF PidsInit, PidsTypeOK, NoLostUpdate
<1>2. PidsTypeOK /\ NoLostUpdate /\ [PidsNext]_pidsVars => PidsTypeOK' /\ NoLostUpdate'
  BY PidsTypeStep, NoLostUpdateStep
<1> QED
  BY <1>1, <1>2, ImplementsPids, PTL

-----------------------------------------------------------------------------
\* size_t arithmetic
LEMMA AskedType ==
  ASSUME NEW a \in Alloc
  PROVE  Asked(a) \in 0..(Word - 1)
BY MemoryQuotaAssumption DEF Asked

LEMMA SmallSum ==
  ASSUME NEW x \in Nat, x < Word
  PROVE  x % Word = x
BY MemoryQuotaAssumption

\* What a thread does to the types of the memory state.
LEMMA TypeStep ==
  ASSUME TypeOK, [Next]_vars
  PROVE  TypeOK'
<1>1. PidsTypeOK'
  BY PidsStepOrStutter, PidsTypeStep DEF TypeOK
<1> USE MemoryQuotaAssumption DEF TypeOK, Goto, HookReturns
<1> DEFINE R == [asked : 0..(Word - 1), taken : Nat]
<1>2. NoRequest \in R
  BY DEF NoRequest
<1>3. ASSUME NEW p \in Proc \cup {Free}, NEW pages \in SUBSET Page, Take(p, pages)
      PROVE  owner' \in [Page -> Proc \cup {Free}]
  BY <1>3 DEF Take
<1>4. ASSUME NEW t \in Thread, Request(t) PROVE TypeOK'
  <2>1. PICK a \in Alloc :
          request' = [request EXCEPT ![t] = [asked |-> Asked(a), taken |-> a.taken]]
    BY <1>4 DEF Request
  <2>2. [asked |-> Asked(a), taken |-> a.taken] \in R
    BY AskedType
  <2> QED
    BY <1>1, <1>4, <2>1, <2>2 DEF Request
<1>5. ASSUME NEW t \in Thread, Acquire(t) PROVE TypeOK'
  BY <1>1, <1>5 DEF Acquire, Holding
<1>6. ASSUME NEW t \in Thread, AcquireFails(t) PROVE TypeOK'
  BY <1>1, <1>2, <1>6 DEF AcquireFails
<1>7. ASSUME NEW t \in Thread, Check(t) PROVE TypeOK'
  BY <1>1, <1>7 DEF Check, Holding
<1>8. ASSUME NEW t \in Thread, CheckFails(t) PROVE TypeOK'
  BY <1>1, <1>8 DEF CheckFails, Holding
<1>9. ASSUME NEW t \in Thread, Driver(t) PROVE TypeOK'
  <2>1. owner' \in [Page -> Proc \cup {Free}]
    BY <1>3, <1>9 DEF Driver, Available
  <2> QED
    BY <1>1, <1>9, <2>1 DEF Driver, Holding
<1>10. ASSUME NEW t \in Thread, DriverFails(t) PROVE TypeOK'
  BY <1>1, <1>10 DEF DriverFails, Holding
<1>11. ASSUME NEW t \in Thread, Release(t) PROVE TypeOK'
  BY <1>1, <1>2, <1>11 DEF Release
<1>12. ASSUME NEW p \in Proc, FreePages(p) PROVE TypeOK'
  <2>1. PICK pages \in SUBSET Page : Take(Free, pages) /\ unhooked' = unhooked \ pages
    BY <1>12 DEF FreePages
  <2>2. owner' \in [Page -> Proc \cup {Free}]
    BY <1>3, <2>1
  <2> QED
    BY <1>1, <1>12, <2>1, <2>2 DEF FreePages
<1>13. ASSUME NEW p \in Proc, UnhookedAlloc(p) PROVE TypeOK'
  <2>1. PICK g \in Page : Take(p, {g}) /\ unhooked' = unhooked \cup {g}
    BY <1>13 DEF UnhookedAlloc, Available
  <2>2. owner' \in [Page -> Proc \cup {Free}]
    BY <1>3, <2>1
  <2> QED
    BY <1>1, <1>13, <2>1, <2>2 DEF UnhookedAlloc
<1>14. ASSUME NEW p \in Proc, Exit(p) PROVE TypeOK'
  <2>1. owner' \in [Page -> Proc \cup {Free}]
    BY <1>3, <1>14 DEF Exit
  <2>2. request' \in [Thread -> R]
    BY <1>2, <1>14 DEF Exit
  <2> QED
    BY <1>1, <1>14, <2>1, <2>2 DEF Exit
<1>15. ASSUME UNCHANGED memVars PROVE TypeOK'
  BY <1>1, <1>15 DEF memVars
<1> QED
  BY <1>4, <1>5, <1>6, <1>7, <1>8, <1>9, <1>10, <1>11, <1>12, <1>13, <1>14, <1>15
     DEF Next, Guarded, vars

\* Every variable of the guard and of the memory keeps its type; the sizes the
\* hooks work out stay within size_t.
THEOREM TypeCorrect == Spec => []TypeOK
<1>1. Init => TypeOK
  <2>1. NoRequest \in [asked : 0..(Word - 1), taken : Nat]
    BY MemoryQuotaAssumption DEF NoRequest
  <2>2. Init => PidsTypeOK
    BY PidsConfigAssumption DEF Init, PidsInit, PidsTypeOK
  <2> QED
    BY <2>1, <2>2, MemoryQuotaAssumption DEF Init, TypeOK
<1>2. TypeOK /\ [Next]_vars => TypeOK'
  BY TypeStep
<1> QED
  BY <1>1, <1>2, PTL DEF Spec

-----------------------------------------------------------------------------
(* What the steps do to the memory                                         *)

Hooked == Owned \ unhooked

\* Sets of pages are finite: their sizes are numbers, and grow with the sets.
LEMMA PagesFinite ==
  ASSUME NEW A \in SUBSET Page, NEW B \in SUBSET A
  PROVE  /\ IsFiniteSet(A) /\ Cardinality(A) \in Nat /\ Cardinality(B) \in Nat
         /\ Cardinality(B) <= Cardinality(A)
BY MemoryQuotaAssumption, FS_Subset, FS_CardinalityType

\* Pages that are taken are owned afterwards, pages that are freed are not.
LEMMA TakenOwned ==
  ASSUME TypeOK, NEW p \in Proc, NEW pages \in SUBSET Page, Take(p, pages)
  PROVE  Owned' = Owned \cup pages
BY MemoryQuotaAssumption DEF Take, Owned, TypeOK

LEMMA FreedNotOwned ==
  ASSUME TypeOK, NEW pages \in SUBSET Page, Take(Free, pages)
  PROVE  Owned' = Owned \ pages
BY DEF Take, Owned, TypeOK

\* No step of another kind than the driver's adds to the memory that was
\* obtained through the hooks.
Shrinks == Hooked' \subseteq Hooked

LEMMA FreeShrinks ==
  ASSUME TypeOK, NEW p \in Proc, FreePages(p) \/ UnhookedAlloc(p) \/ Exit(p)
  PROVE  Shrinks
<1>1. CASE FreePages(p)
  <2>1. PICK pages \in SUBSET Page : Take(Free, pages) /\ unhooked' = unhooked \ pages
    BY <1>1 DEF FreePages
  <2> QED
    BY <2>1, FreedNotOwned DEF Shrinks, Hooked
<1>2. CASE UnhookedAlloc(p)
  <2>1. PICK g \in Page : Take(p, {g}) /\ unhooked' = unhooked \cup {g}
    BY <1>2 DEF UnhookedAlloc, Available
  <2>2. Owned' = Owned \cup {g}
    BY <2>1, TakenOwned
  <2> QED
    BY <2>1, <2>2 DEF Shrinks, Hooked
<1>3. CASE Exit(p)
  <2> DEFINE pages == {g \in Page : owner[g] = p}
  <2>1. Take(Free, pages) /\ unhooked' = unhooked \ pages
    BY <1>3 DEF Exit
  <2> QED
    BY <2>1, FreedNotOwned DEF Shrinks, Hooked
<1> QED
  BY <1>1, <1>2, <1>3

\* A driver call adds as many pages as it takes.
LEMMA DriverAdds ==
  ASSUME TypeOK, NEW t \in Thread, Driver(t)
  PROVE  /\ request[t].taken <= Cardinality(Page)
         /\ Cardinality(Hooked') <= Cardinality(Hooked) + request[t].taken
<1>1. PICK pages \in SUBSET Available :
        Cardinality(pages) = request[t].taken /\ Take(ProcOf[t], pages)
  BY DEF Driver
<1>2. pages \in SUBSET Page /\ Owned \in SUBSET Page /\ Hooked \in SUBSET Page
  BY DEF Available, Owned, Hooked
<1>3. Cardinality(pages) <= Cardinality(Page)
  BY <1>2, PagesFinite
<1>4. Owned' = Owned \cup pages
  BY <1>1, <1>2, TakenOwned, MemoryQuotaAssumption
<1>5. Hooked' \subseteq Hooked \cup pages
  BY <1>4 DEF Hooked, Driver
<1>6. /\ IsFiniteSet(Hooked) /\ IsFiniteSet(pages)
      /\ Cardinality(Hooked) \in Nat /\ Cardinality(pages) \in Nat
      /\ Cardinality(Hooked \cap pages) \in Nat
  BY <1>2, PagesFinite
<1>7. Cardinality(Hooked \cup pages) <= Cardinality(Hooked) + Cardinality(pages)
  <2>1. Cardinality(Hooked \cup pages)
          = Cardinality(Hooked) + Cardinality(pages) - Cardinality(Hooked \cap pages)
    BY <1>6, FS_Union, Zenon
  <2> QED
    BY <1>6, <2>1
<1>8. Cardinality(Hooked') <= Cardinality(Hooked \cup pages)
      /\ Cardinality(Hooked') \in Nat /\ Cardinality(Hooked \cup pages) \in Nat
  <2>1. Hooked \cup pages \in SUBSET Page
    BY <1>2
  <2> QED
    BY <1>5, <2>1, PagesFinite
<1> QED
  BY <1>1, <1>3, <1>6, <1>7, <1>8

-----------------------------------------------------------------------------
(* The inductive invariant, conjunct by conjunct                           *)

\* The cases of a step that all the lemmas below have in common: all but the
\* steps of the hook before and after the check leave everything but the maps
\* and the owners alone.
Quiet == UNCHANGED <<flock, pc, request, blind>>

LEMMA QuietSteps ==
  ASSUME [Next]_vars
  PROVE  \/ \E t \in Thread : Request(t) \/ Acquire(t) \/ AcquireFails(t) \/ Guarded(t)
         \/ \E p \in Proc : Exit(p)
         \/ \E p \in Proc : (FreePages(p) \/ UnhookedAlloc(p)) /\ Quiet
         \/ UNCHANGED memVars /\ Quiet
BY DEF Next, vars, memVars, Quiet, FreePages, UnhookedAlloc

\* flock excludes: the threads between Acquire and Release are its holder.
LEMMA OnlyHolderStep ==
  ASSUME TypeOK, OnlyHolder, [Next]_vars
  PROVE  OnlyHolder'
<1> USE MemoryQuotaAssumption DEF OnlyHolder, TypeOK, Holding, Goto, HookReturns
<1>1. ASSUME NEW t \in Thread, Request(t) PROVE OnlyHolder'
  BY <1>1 DEF Request
<1>2. ASSUME NEW t \in Thread, Acquire(t) PROVE OnlyHolder'
  BY <1>2 DEF Acquire
<1>3. ASSUME NEW t \in Thread, AcquireFails(t) PROVE OnlyHolder'
  BY <1>3 DEF AcquireFails
<1>4. ASSUME NEW t \in Thread, Check(t) \/ CheckFails(t) PROVE OnlyHolder'
  BY <1>4 DEF Check, CheckFails
<1>5. ASSUME NEW t \in Thread, Driver(t) \/ DriverFails(t) PROVE OnlyHolder'
  BY <1>5 DEF Driver, DriverFails
<1>6. ASSUME NEW t \in Thread, Release(t) PROVE OnlyHolder'
  BY <1>6 DEF Release
<1>7. ASSUME NEW p \in Proc, Exit(p) PROVE OnlyHolder'
  BY <1>7 DEF Exit
<1>8. CASE Quiet
  BY <1>8 DEF Quiet
<1> QED
  BY <1>1, <1>2, <1>3, <1>4, <1>5, <1>6, <1>7, <1>8, QuietSteps DEF Guarded

\* A process in a hooked call has been registered, and until it exits stays so.
LEMMA CallersReadyStep ==
  ASSUME TypeOK, CallersReady, [Next]_vars
  PROVE  CallersReady'
<1> USE MemoryQuotaAssumption
    DEF CallersReady, TypeOK, PidsTypeOK, Holding, Goto, HookReturns
<1>1. ASSUME NEW t \in Thread, Request(t) PROVE CallersReady'
  BY <1>1 DEF Request, pidsVars
<1>2. ASSUME NEW t \in Thread, Acquire(t) \/ AcquireFails(t) PROVE CallersReady'
  BY <1>2 DEF Acquire, AcquireFails, pidsVars
<1>3. ASSUME NEW t \in Thread, Guarded(t) PROVE CallersReady'
  BY <1>3 DEF Guarded, Check, CheckFails, Driver, DriverFails, Release, pidsVars
<1>4. ASSUME NEW p \in Proc, Exit(p) PROVE CallersReady'
  BY <1>4 DEF Exit, ExitProcess
<1>5. ASSUME NEW p \in Proc, FreePages(p) \/ UnhookedAlloc(p) PROVE CallersReady'
  BY <1>5 DEF FreePages, UnhookedAlloc, pidsVars
<1>6. ASSUME NEW p \in Proc, PidsStep(p), UNCHANGED memVars PROVE CallersReady'
  <2>1. \A q \in Proc : life[q] = "ready" => life'[q] = "ready"
    BY <1>6 DEF PidsStep, Progress, Start, GetPidsRead, GetPidsTruncate, GetPidsFlush,
                Registered, GetPidsFail, AddWatch, FirstRefresh, HandleEvent
  <2> QED
    BY <1>6, <2>1 DEF memVars
<1>7. CASE UNCHANGED vars
  BY <1>7 DEF vars, pidsVars, memVars
<1> QED
  BY <1>1, <1>2, <1>3, <1>4, <1>5, <1>6, <1>7 DEF Next

\* The memory of a process that has gone is gone.
LEMMA OwnersAliveStep ==
  ASSUME TypeOK, CallersReady, OwnersAlive, [Next]_vars
  PROVE  OwnersAlive'
<1> USE MemoryQuotaAssumption
    DEF OwnersAlive, TypeOK, PidsTypeOK, Owned, Alive, Take
<1>1. ASSUME NEW t \in Thread,
             Request(t) \/ Acquire(t) \/ AcquireFails(t) \/ Check(t) \/ CheckFails(t)
               \/ DriverFails(t) \/ Release(t)
      PROVE  OwnersAlive'
  BY <1>1 DEF Request, Acquire, AcquireFails, Check, CheckFails, DriverFails, Release,
              pidsVars
<1>2. ASSUME NEW t \in Thread, Driver(t) PROVE OwnersAlive'
  <2>1. life[ProcOf[t]] = "ready"
    BY <1>2 DEF Driver, CallersReady
  <2> QED
    BY <1>2, <2>1 DEF Driver, pidsVars
<1>3. ASSUME NEW p \in Proc, Exit(p) PROVE OwnersAlive'
  BY <1>3 DEF Exit, ExitProcess
<1>4. ASSUME NEW p \in Proc, FreePages(p) PROVE OwnersAlive'
  BY <1>4 DEF FreePages, pidsVars
<1>5. ASSUME NEW p \in Proc, UnhookedAlloc(p) PROVE OwnersAlive'
  BY <1>5 DEF UnhookedAlloc, pidsVars
<1>6. ASSUME NEW p \in Proc, PidsStep(p), UNCHANGED memVars PROVE OwnersAlive'
  <2>1. \A q \in Proc : Alive(q) => Alive(q)'
    BY <1>6 DEF PidsStep, Progress, Start, GetPidsRead, GetPidsTruncate, GetPidsFlush,
                Registered, GetPidsFail, AddWatch, FirstRefresh, HandleEvent
  <2> QED
    BY <1>6, <2>1 DEF memVars
<1>7. CASE UNCHANGED vars
  BY <1>7 DEF vars, pidsVars, memVars
<1> QED
  BY <1>1, <1>2, <1>3, <1>4, <1>5, <1>6, <1>7 DEF Next, Guarded

\* What a thread is serving is one of the calls.
LEMMA RequestFitsStep ==
  ASSUME TypeOK, RequestFits, [Next]_vars
  PROVE  RequestFits'
<1> USE MemoryQuotaAssumption DEF RequestFits, TypeOK, Holding, Goto, HookReturns
<1>1. ASSUME NEW t \in Thread, Request(t) PROVE RequestFits'
  <2>1. PICK a \in Alloc :
          request' = [request EXCEPT ![t] = [asked |-> Asked(a), taken |-> a.taken]]
    BY <1>1 DEF Request
  <2> QED
    BY <1>1, <2>1 DEF Request
<1>2. ASSUME NEW t \in Thread, Acquire(t) \/ AcquireFails(t) PROVE RequestFits'
  BY <1>2 DEF Acquire, AcquireFails
<1>3. ASSUME NEW t \in Thread, Guarded(t) PROVE RequestFits'
  BY <1>3 DEF Guarded, Check, CheckFails, Driver, DriverFails, Release
<1>4. ASSUME NEW p \in Proc, Exit(p) PROVE RequestFits'
  BY <1>4 DEF Exit
<1>5. CASE Quiet
  BY <1>5 DEF Quiet
<1> QED
  BY <1>1, <1>2, <1>3, <1>4, <1>5, QuietSteps

\* Pages the hooks obtained do not become more by a step that is not a driver
\* call.
LEMMA HookedShrinks ==
  ASSUME TypeOK, Shrinks
  PROVE  /\ Cardinality(Hooked) \in Nat /\ Cardinality(Hooked') \in Nat
         /\ Cardinality(Hooked') <= Cardinality(Hooked)
<1>1. Hooked \in SUBSET Page
  BY DEF Hooked, Owned
<1> QED
  BY <1>1, PagesFinite DEF Shrinks

LEMMA OthersShrink ==
  ASSUME TypeOK, [Next]_vars, \A t \in Thread : ~Driver(t)
  PROVE  Shrinks
<1>1. ASSUME NEW t \in Thread, Request(t) \/ Acquire(t) \/ AcquireFails(t) \/ Guarded(t)
      PROVE  Shrinks
  BY <1>1 DEF Request, Acquire, AcquireFails, Guarded, Check, CheckFails, DriverFails,
              Release, Shrinks, Hooked, Owned
<1>2. ASSUME NEW p \in Proc, FreePages(p) \/ UnhookedAlloc(p) \/ Exit(p) PROVE Shrinks
  BY <1>2, FreeShrinks
<1>3. CASE UNCHANGED memVars
  BY <1>3 DEF memVars, Shrinks, Hooked, Owned
<1> QED
  BY <1>1, <1>2, <1>3 DEF Next, vars

\* A check that passes having seen everything leaves room for the request.
LEMMA CheckLeavesRoom ==
  ASSUME TypeOK, RequestFits, NEW t \in Thread, Check(t), ~blind',
         request[t].taken <= Cardinality(Page)
  PROVE  Cardinality(Hooked) + request[t].asked <= Quota
<1> USE MemoryQuotaAssumption
<1>1. MemoryUsed(ProcOf[t]) = Cardinality(Owned)
  BY DEF Check, MemoryUsed
<1>2. Owned \in SUBSET Page /\ Hooked \in SUBSET Owned
  BY DEF Owned, Hooked
<1>3. /\ Cardinality(Owned) \in Nat /\ Cardinality(Hooked) \in Nat
      /\ Cardinality(Page) \in Nat
      /\ Cardinality(Hooked) <= Cardinality(Owned)
      /\ Cardinality(Owned) <= Cardinality(Page)
  BY <1>2, PagesFinite
<1>4. request[t].asked \in Nat /\ request[t].asked + Cardinality(Page) < Word
  <2>1. request[t] \in [asked : 0..(Word - 1), taken : Nat]
    BY DEF TypeOK
  <2>2. request[t].asked + Cardinality(Page) < Word
    BY DEF RequestFits, Check
  <2> QED
    BY <2>1, <2>2
<1>5. (request[t].asked + Cardinality(Owned)) % Word = request[t].asked + Cardinality(Owned)
  <2>1. request[t].asked + Cardinality(Owned) \in Nat
        /\ request[t].asked + Cardinality(Owned) < Word
    BY <1>3, <1>4
  <2> QED
    BY <2>1, SmallSum
<1>6. request[t].asked + Cardinality(Owned) <= Quota
  BY <1>1, <1>5 DEF Check, Enough
<1> QED
  BY <1>3, <1>4, <1>6

\* What a check has seen stays true until its driver call has been made.
LEMMA CheckStandsStep ==
  ASSUME TypeOK, OnlyHolder, RequestFits, CheckStands, [Next]_vars
  PROVE  CheckStands'
<1> SUFFICES ASSUME ~blind', NEW u \in Thread, pc'[u] = "driver",
                    request'[u].taken <= Cardinality(Page)
             PROVE  Cardinality(Hooked') + request'[u].asked <= Quota
  BY DEF CheckStands, Hooked
<1> USE MemoryQuotaAssumption
<1>1. request \in [Thread -> [asked : 0..(Word - 1), taken : Nat]]
      /\ pc \in [Thread -> {"idle", "wait"} \cup Holding]
  BY DEF TypeOK
<1>2. ASSUME pc[u] = "driver", request'[u] = request[u], ~blind, Shrinks
      PROVE  Cardinality(Hooked') + request'[u].asked <= Quota
  <2>1. Cardinality(Hooked) + request[u].asked <= Quota
    BY <1>2 DEF CheckStands, Hooked
  <2> QED
    BY <1>1, <1>2, <2>1, HookedShrinks
<1>3. ASSUME NEW t \in Thread, Check(t), t = u
      PROVE  Cardinality(Hooked') + request'[u].asked <= Quota
  <2>1. Hooked' = Hooked /\ request' = request
    BY <1>3 DEF Check, Hooked, Owned
  <2> QED
    BY <1>3, <2>1, CheckLeavesRoom
<1>4. ASSUME NEW t \in Thread, Driver(t) PROVE FALSE
  <2>1. pc[t] = "driver" /\ pc' = [pc EXCEPT ![t] = "unwind"]
    BY <1>4 DEF Driver, Goto
  <2>2. u # t /\ pc[u] = "driver"
    BY <1>1, <2>1
  <2> QED
    BY <2>1, <2>2 DEF OnlyHolder, Holding
<1>5. ASSUME \A t \in Thread : ~Driver(t),
             \A t \in Thread : Check(t) => t # u
      PROVE  Cardinality(Hooked') + request'[u].asked <= Quota
  <2>1. Shrinks
    BY <1>5, OthersShrink
  <2>2. pc[u] = "driver" /\ request'[u] = request[u] /\ ~blind
    <3>1. ASSUME NEW t \in Thread, Request(t) \/ Acquire(t) \/ AcquireFails(t)
          PROVE  pc[u] = "driver" /\ request'[u] = request[u] /\ ~blind
      BY <1>1, <3>1 DEF Request, Acquire, AcquireFails, Goto, HookReturns
    <3>2. ASSUME NEW t \in Thread, Guarded(t)
          PROVE  pc[u] = "driver" /\ request'[u] = request[u] /\ ~blind
      <4>1. CASE Check(t)
        <5>1. ~blind
          BY <4>1 DEF Check
        <5>2. t # u /\ request' = request /\ pc' = [pc EXCEPT ![t] = "driver"]
          BY <1>5, <4>1 DEF Check, Goto
        <5> QED
          BY <1>1, <5>1, <5>2
      <4>2. CASE CheckFails(t) \/ DriverFails(t) \/ Release(t)
        BY <1>1, <4>2 DEF CheckFails, DriverFails, Release, Goto, HookReturns
      <4> QED
        BY <1>5, <3>2, <4>1, <4>2 DEF Guarded
    <3>3. ASSUME NEW p \in Proc, Exit(p)
          PROVE  pc[u] = "driver" /\ request'[u] = request[u] /\ ~blind
      BY <1>1, <3>3 DEF Exit
    <3>4. CASE Quiet
      BY <3>4 DEF Quiet
    <3> QED
      BY <3>1, <3>2, <3>3, <3>4, QuietSteps
  <2> QED
    BY <1>2, <2>1, <2>2
<1> QED
  BY <1>3, <1>4, <1>5

\* The argument of the guard in one step: the only step that adds hooked memory
\* is a driver call, and it adds what its check left room for, plus Slack.
LEMMA QuotaRespectedStep ==
  ASSUME TypeOK, RequestFits, CheckStands, QuotaRespected, [Next]_vars
  PROVE  QuotaRespected'
<1> SUFFICES ASSUME ~blind' PROVE Cardinality(Hooked') <= Quota + Slack
  BY DEF QuotaRespected, Hooked
<1> USE MemoryQuotaAssumption
<1>1. ASSUME NEW t \in Thread, Driver(t) PROVE Cardinality(Hooked') <= Quota + Slack
  <2>1. pc[t] = "driver" /\ ~blind
    BY <1>1 DEF Driver
  <2>2. /\ request[t].taken <= Cardinality(Page)
        /\ Cardinality(Hooked') <= Cardinality(Hooked) + request[t].taken
    BY <1>1, DriverAdds
  <2>3. request[t].taken <= request[t].asked + Slack
    BY <2>1, <2>2 DEF RequestFits
  <2>4. Cardinality(Hooked) + request[t].asked <= Quota
    BY <2>1, <2>2 DEF CheckStands, Hooked
  <2>5. Cardinality(Hooked) \in Nat /\ Cardinality(Hooked') \in Nat
    <3>1. Hooked \in SUBSET Page /\ Hooked' \in SUBSET Page
      BY DEF Hooked, Owned
    <3> QED
      BY <3>1, PagesFinite
  <2>6. request[t].asked \in Int /\ request[t].taken \in Nat
    BY DEF TypeOK
  <2> QED
    BY <2>2, <2>3, <2>4, <2>5, <2>6
<1>2. ASSUME \A t \in Thread : ~Driver(t) PROVE Cardinality(Hooked') <= Quota + Slack
  <2>1. ~blind
    BY DEF Next, Request, Acquire, AcquireFails, Guarded, Check, CheckFails, Driver,
           DriverFails, Release, FreePages, UnhookedAlloc, Exit, vars, memVars
  <2>2. Cardinality(Hooked) <= Quota + Slack
    BY <2>1 DEF QuotaRespected, Hooked
  <2>3. /\ Cardinality(Hooked) \in Nat /\ Cardinality(Hooked') \in Nat
        /\ Cardinality(Hooked') <= Cardinality(Hooked)
    BY <1>2, OthersShrink, HookedShrinks
  <2> QED
    BY <2>2, <2>3
<1> QED
  BY <1>1, <1>2

-----------------------------------------------------------------------------
(* The results                                                             *)

LEMMA QuotaInductive == Spec => [](TypeOK /\ QuotaInv /\ QuotaRespected)
<1>1. Init => QuotaInv /\ QuotaRespected
  <2> SUFFICES ASSUME Init PROVE QuotaInv /\ QuotaRespected
    OBVIOUS
  <2> USE MemoryQuotaAssumption
  <2>1. Owned = {} /\ Owned \ unhooked = {}
    BY DEF Init, Owned
  <2>2. Cardinality({}) = 0
    BY FS_EmptySet
  <2>3. OnlyHolder /\ CallersReady /\ RequestFits /\ CheckStands
    BY DEF Init, OnlyHolder, CallersReady, RequestFits, CheckStands, Holding
  <2>4. OwnersAlive
    BY <2>1 DEF OwnersAlive
  <2>5. QuotaRespected
    BY <2>1, <2>2 DEF QuotaRespected
  <2> QED
    BY <2>3, <2>4, <2>5 DEF QuotaInv
<1>2. TypeOK /\ QuotaInv /\ QuotaRespected /\ [Next]_vars => (QuotaInv /\ QuotaRespected)'
  BY OnlyHolderStep, CallersReadyStep, OwnersAliveStep, RequestFitsStep,
     CheckStandsStep, QuotaRespectedStep DEF QuotaInv
<1> QED
  BY <1>1, <1>2, TypeCorrect, PTL DEF Spec

\* The inductive invariant, a run of TLC checks it too.
THEOREM QuotaInvariant == Spec => []Inv
BY QuotaInductive, PTL DEF Inv

\* The quota holds, whatever the interleaving of the threads of all processes,
\* the exits in the middle of a call and the answers of the driver, as long as
\* no check overlooked a process that has memory (memory_limiter.cpp).
THEOREM QuotaHolds == Spec => []QuotaRespected
BY QuotaInductive, PTL

\* When every live process is in pids.config and every watcher has caught up,
\* a check counts all the memory of the container.
THEOREM SettledChecks == Spec => SettledCheckSeesAll
<1>1. ASSUME TypeOK, QuotaInv, NoLostUpdate, NEW t \in Thread, Settled, Check(t)
      PROVE  Counted(ProcOf[t]) = Owned
  <2>1. ProcOf[t] \in Proc /\ Alive(ProcOf[t])
    BY <1>1, MemoryQuotaAssumption DEF QuotaInv, CallersReady, Check, Alive
  <2>2. pidsMap[ProcOf[t]] = ToSet(pidsFile)
    BY <1>1, <2>1 DEF Settled, NoLostUpdate
  <2>3. ASSUME NEW g \in Owned PROVE owner[g] \in ToSet(pidsFile)
    <3>1. owner[g] \in Proc /\ Alive(owner[g])
      BY <1>1, <2>3 DEF QuotaInv, OwnersAlive, TypeOK, Owned
    <3> QED
      BY <1>1, <3>1 DEF Settled
  <2> QED
    BY <2>2, <2>3 DEF Counted
<1>2. TypeOK /\ QuotaInv /\ NoLostUpdate /\ [Next]_vars
        => [\A t \in Thread : Settled /\ Check(t) => Counted(ProcOf[t]) = Owned]_vars
  BY <1>1
<1> QED
  BY <1>2, QuotaInductive, PidsInvariant, PTL DEF Spec, SettledCheckSeesAll
=============================================================================
