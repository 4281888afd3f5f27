---------------------------- MODULE MemoryQuota ----------------------------
(***************************************************************************)
(* The GPU memory quota of one container: the hooked allocation calls of   *)
(* the CUDA interception library (direct/cuda/src/hooks/cuda_hooks.cpp,    *)
(* direct/common/src/memory_limiter.cpp and file_lock.cpp) on top of the   *)
(* pid maps of PidsConfig.                                                 *)
(*                                                                         *)
(* Every hooked call takes an flock that all the threads of all the        *)
(* processes of the container compete for (each guard opens its own file   *)
(* description), adds up what NVML reports for the pids in the process's   *)
(* pidsMap_, and calls the driver with the lock still held. Frees are not  *)
(* hooked, and neither are all the ways to obtain memory.                  *)
(*                                                                         *)
(* Memory is a set of pages of one device; a size is a number of pages.    *)
(***************************************************************************)
EXTENDS PidsConfig

CONSTANTS
  Thread,    \* the threads that call the CUDA API
  ProcOf,    \* ProcOf[t]: the process of thread t
  Page,      \* the memory of the device
  Free,      \* the owner of a page that nobody has
  NoThread,  \* the flock is not held
  Quota,     \* MemoryQuota()
  Alloc,     \* the calls: the size the hook multiplies out, and what the driver takes
  Slack,     \* what the driver may take above the size the hook checks (pitch, mipmaps)
  Word       \* 2^64, the modulus of size_t

Asked(a) == a.bytes % Word

\* A call that the card can satisfy is small enough not to wrap when it is
\* added to what is in use, and takes Slack more than it asks for at most.
ASSUME MemoryQuotaAssumption ==
  /\ ProcOf \in [Thread -> Proc]
  /\ IsFiniteSet(Page)
  /\ Free \notin Proc /\ NoThread \notin Thread
  /\ Quota \in Nat /\ Slack \in Nat /\ Word \in Nat \ {0}
  /\ Alloc \subseteq [bytes : Nat, taken : Nat]
  /\ \A a \in Alloc :
       a.taken <= Cardinality(Page) =>
         a.taken <= Asked(a) + Slack /\ Asked(a) + Cardinality(Page) < Word

VARIABLES
  owner,    \* owner[g]: the process that has page g
  unhooked, \* history: the pages obtained by calls that are not hooked
  flock,    \* the thread that holds the flock on memctl.lock
  pc,       \* where each thread is
  request,  \* request[t]: the allocation t is making
  blind     \* history: a check passed without seeing an owner of memory

memVars == <<owner, unhooked, flock, pc, request, blind>>
vars == <<pidsVars, memVars>>

Holding == {"check", "driver", "unwind"}

TypeOK ==
  /\ PidsTypeOK
  /\ owner \in [Page -> Proc \cup {Free}]
  /\ unhooked \subseteq Page
  /\ flock \in Thread \cup {NoThread}
  /\ pc \in [Thread -> {"idle", "wait"} \cup Holding]
  /\ request \in [Thread -> [asked : 0..(Word - 1), taken : Nat]]
  /\ blind \in BOOLEAN

Owned == {g \in Page : owner[g] # Free}
Available == Page \ Owned

NoRequest == [asked |-> 0, taken |-> 0]

Init ==
  /\ PidsInit
  /\ owner = [g \in Page |-> Free]
  /\ unhooked = {}
  /\ flock = NoThread
  /\ pc = [t \in Thread |-> "idle"]
  /\ request = [t \in Thread |-> NoRequest]
  /\ blind = FALSE

Goto(t, label) == pc' = [pc EXCEPT ![t] = label]

\* The hooked call returns to the program.
HookReturns(t) == Goto(t, "idle") /\ request' = [request EXCEPT ![t] = NoRequest]

-----------------------------------------------------------------------------
(* A hooked allocation                                                     *)

\* A thread enters cuMemAlloc or one of the others: the hook works out the
\* size, in size_t arithmetic, and opens the lock file.
Request(t) ==
  /\ pc[t] = "idle" /\ life[ProcOf[t]] = "ready"
  /\ \E a \in Alloc :
       request' = [request EXCEPT ![t] = [asked |-> Asked(a), taken |-> a.taken]]
  /\ Goto(t, "wait")
  /\ UNCHANGED <<pidsVars, owner, unhooked, flock, blind>>

\* flock(fd, LOCK_EX) returns 0.
Acquire(t) ==
  /\ pc[t] = "wait" /\ flock = NoThread
  /\ flock' = t
  /\ Goto(t, "check")
  /\ UNCHANGED <<pidsVars, owner, unhooked, request, blind>>

\* open or flock failed: Guard::Error(), the hook returns CUDA_ERROR_UNKNOWN.
AcquireFails(t) ==
  /\ pc[t] = "wait"
  /\ HookReturns(t)
  /\ UNCHANGED <<pidsVars, owner, unhooked, flock, blind>>

\* GpuManager::MemoryUsed: the memory of the processes in pidsMap_ of p.
Counted(p) == {g \in Owned : owner[g] \in pidsMap[p]}
MemoryUsed(p) == Cardinality(Counted(p))

\* Mutant of Enough: the sum is compared before the request is added.
EnoughBefore(t) == MemoryUsed(ProcOf[t]) <= Quota

\* requested + used > quota, in size_t arithmetic
Enough(t) == (request[t].asked + MemoryUsed(ProcOf[t])) % Word <= Quota

\* Mutant of Check: the guard is a temporary, gone before the driver is called.
CheckUnguarded(t) ==
  /\ pc[t] = "check"
  /\ Enough(t)
  /\ Goto(t, "driver")
  /\ flock' = NoThread
  /\ blind' = (blind \/ Counted(ProcOf[t]) # Owned)
  /\ UNCHANGED <<pidsVars, owner, unhooked, request>>

\* MemoryCheck passes.
Check(t) ==
  /\ pc[t] = "check"
  /\ Enough(t)
  /\ Goto(t, "driver")
  /\ blind' = (blind \/ Counted(ProcOf[t]) # Owned)
  /\ UNCHANGED <<pidsVars, owner, unhooked, flock, request>>

\* MemoryCheck fails, or NVML does: CUDA_ERROR_OUT_OF_MEMORY.
CheckFails(t) ==
  /\ pc[t] = "check"
  /\ Goto(t, "unwind")
  /\ UNCHANGED <<pidsVars, owner, unhooked, flock, request, blind>>

Take(p, pages) == owner' = [g \in Page |-> IF g \in pages THEN p ELSE owner[g]]

\* The driver serves the call.
Driver(t) ==
  /\ pc[t] = "driver"
  /\ \E pages \in SUBSET Available :
       /\ Cardinality(pages) = request[t].taken
       /\ Take(ProcOf[t], pages)
  /\ Goto(t, "unwind")
  /\ UNCHANGED <<pidsVars, unhooked, flock, request, blind>>

\* The driver refuses the call.
DriverFails(t) ==
  /\ pc[t] = "driver"
  /\ Goto(t, "unwind")
  /\ UNCHANGED <<pidsVars, owner, unhooked, flock, request, blind>>

\* ~FileLock unlocks and closes, the hook returns.
Release(t) ==
  /\ pc[t] = "unwind"
  /\ flock' = NoThread
  /\ HookReturns(t)
  /\ UNCHANGED <<pidsVars, owner, unhooked, blind>>

-----------------------------------------------------------------------------
(* What is not hooked                                                      *)

\* cuMemFree and its like.
FreePages(p) ==
  /\ life[p] = "ready"
  /\ \E pages \in (SUBSET {g \in Page : owner[g] = p}) \ {{}} :
       Take(Free, pages) /\ unhooked' = unhooked \ pages
  /\ UNCHANGED <<pidsVars, flock, pc, request, blind>>

\* A context, a pool or cuMemCreate: memory that no check sees coming.
UnhookedAlloc(p) ==
  /\ life[p] = "ready"
  /\ \E g \in Available : Take(p, {g}) /\ unhooked' = unhooked \cup {g}
  /\ UNCHANGED <<pidsVars, flock, pc, request, blind>>

\* The process ends at any point: the kernel closes its files, and with them
\* the flock is gone, and the driver takes its memory back.
Exit(p) ==
  LET mine == {t \in Thread : ProcOf[t] = p}
      pages == {g \in Page : owner[g] = p}
  IN /\ ExitProcess(p)
     /\ Take(Free, pages)
     /\ unhooked' = unhooked \ pages
     /\ flock' = IF flock \in mine THEN NoThread ELSE flock
     /\ pc' = [t \in Thread |-> IF t \in mine THEN "idle" ELSE pc[t]]
     /\ request' = [t \in Thread |-> IF t \in mine THEN NoRequest ELSE request[t]]
     /\ UNCHANGED blind

-----------------------------------------------------------------------------
Guarded(t) ==
  \/ Check(t) \/ CheckFails(t) \/ Driver(t) \/ DriverFails(t) \/ Release(t)

Next ==
  \/ \E t \in Thread : Request(t) \/ Acquire(t) \/ AcquireFails(t) \/ Guarded(t)
  \/ \E p \in Proc : FreePages(p) \/ UnhookedAlloc(p) \/ Exit(p)
  \/ \E p \in Proc : PidsStep(p) /\ UNCHANGED memVars

Spec == Init /\ [][Next]_vars

-----------------------------------------------------------------------------
(* Properties                                                              *)

\* What the guard around check and driver call is for: as long as no check
\* overlooked a process that has memory, the memory the container got through
\* the hooked calls of all its threads and processes never exceeds the quota
\* by more than one call's Slack; underestimates do not add up.
QuotaRespected == ~blind => Cardinality(Owned \ unhooked) <= Quota + Slack

\* Why: only the holder of the flock is between check and driver call, so what
\* the check saw can only have shrunk by the time the driver is called, but
\* for what the unhooked calls took meanwhile.
OnlyHolder == \A t \in Thread : pc[t] \in Holding <=> flock = t
CallersReady == \A t \in Thread : pc[t] # "idle" => life[ProcOf[t]] = "ready"
OwnersAlive == \A g \in Owned : Alive(owner[g])
RequestFits ==
  \A t \in Thread :
    pc[t] # "idle" /\ request[t].taken <= Cardinality(Page) =>
      /\ request[t].taken <= request[t].asked + Slack
      /\ request[t].asked + Cardinality(Page) < Word
CheckStands ==
  ~blind => \A t \in Thread :
    pc[t] = "driver" /\ request[t].taken <= Cardinality(Page) =>
      Cardinality(Owned \ unhooked) + request[t].asked <= Quota

QuotaInv == OnlyHolder /\ CallersReady /\ OwnersAlive /\ RequestFits /\ CheckStands
Inv == TypeOK /\ QuotaInv

\* When the registrations are over, every live process is in the file and no
\* event waits, then every check counts all that the container has.
Settled ==
  \A p \in Proc : Alive(p) =>
    watcher[p] = "looping" /\ ~event[p] /\ p \in ToSet(pidsFile)
SettledCheckSeesAll ==
  [][\A t \in Thread : Settled /\ Check(t) => Counted(ProcOf[t]) = Owned]_vars

\* memory_limiter.cpp:24, "out of memory": read as a promise, a hooked call is
\* refused when the container would exceed its quota. The pid map lags behind
\* the registrations, and the memory of an unlisted process is not counted.
QuotaAlways == Cardinality(Owned \ unhooked) <= Quota + Slack
=============================================================================
