# A TLA+ model of the GPU virtualisation service of flexai

The repository (`ModelEngine-Group/flexai`) shares the GPUs of a Kubernetes node
between containers. This directory holds TLA+ modules that model its own code,
the TLC configurations that check them on small instances, and theorems that the
TLA+ proof system checks for every instance. `PROJECT.json` lists the
components, runs, mutants, findings, hazards and theorems, and maps every
definition to the lines it stands for.

Paths below are relative to `src/GPU-Virtual-Service/xpu-pool-service/`;
`plugin/` abbreviates `GPU-device-plugin/`.

## 1. The system

```
 scheduler (binary)         kubelet                        Prometheus
   | lock, annotate, bind     | ListAndWatch, Allocate         | scrape
   v                          v                                v
 API server <---- device plugin (Go, one per node) <---- xpu-exporter (Go)
   Node: lock,     | writes vgpu.config, vgpu-ids.config   GetAllVxpuInfo
     devices       | GetPids: writes pids.config
   Pod: phase,     v
     requests    /etc/xpu/<pod>/<container>/ ---> libcuda_direct.so (C++), in every
                                                 process of the container
```

### Components

| Component | State | Operations | What is hard | Module |
|---|---|---|---|---|
| Node lock, `plugin/pkg/lock/nodelock.go` | an annotation on the Node whose value is the host uptime | `ObtainLockNode`, `setNodeLock`, `ReleaseNodeLock` | read-modify-write with retries, lost replies, expiry, reboot, a second writer | NodeLock, Mutex |
| Pod allocation, `plugin/pkg/plugin/plugin.go`, `util/util.go` | pod annotations, files of the container | `Allocate`, `GetPendingPod`, `GetNextDeviceRequest`, `EraseNextDeviceType...`, `PodAllocation*` | the call does not name its pod; several writes, each of which can fail; crash in between | VgpuAllocation |
| Device cache, `plugin/pkg/plugin/cache.go`, `xpu/gpu.go` | devices and their health, notify channel, mutex | `checkHealth`, `notifyLoop`, `Add/RemoveNotifyChannel` | unbuffered channels, a send with the mutex held | DeviceHealth |
| Plugin life cycle, `plugin/cmd/main.go`, `plugin.go` | server, channels | `Start`, `Stop`, `ListAndWatch`, `events` | restart without stop, kubelet restarts, signals | DeviceHealth |
| Pids service, `plugin/pkg/api/runtime/service/service_impl.go` | `pids.config` | `GetPids`, `GetAllVxpuInfo`, cleaning of directories | concurrent calls, truncation, pods and pids that come and go | PidsConfig (GetPids), VxpuInfo |
| Pid map, `direct/cuda/src/pid_manager.cpp`, `direct/common/src/register.cpp` | `pidsMap_`, watcher thread | `Initialize`, `RegisterToDevicePlugin`, `Refresh` | file events against loads, retries | PidsConfig |
| Memory limiter, `direct/common/src/memory_limiter.cpp`, `file_lock.cpp`, `cuda_hooks.cpp` | an flock | the hooked allocation calls | check-then-act between processes, unhooked calls, frees, wrapping sizes | MemoryQuota |
| Core limiter, `direct/cuda/src/gpu_core_limiter.cpp` | delay of each device, PID controller | watcher, `ComputingPowerLimiter` | one controller for all devices, clamping | planned: CoreLimiter |
| Node registration, `plugin/pkg/plugin/register.go` | node annotations | patch every 30 s | two failures end the process | in NodeLock as a writer; loop planned |
| GPU topology, `xpu/gpu.go`, `pkg/graph/graph.go` | none (pure) | parser, graph search | the regular expression does not match the header it is written for | planned: Topology |
| gonvml, `plugin/pkg/gonvml` | reference count | `Init`, `Shutdown` | a failing init that has counted | planned: NvmlRefCount |
| Log writer, `plugin/pkg/log` | current file, backups | `Write`, rotation, compression | rotation against compression, equal names, crashes | FileLogger |
| Exporter limits, `xpu-exporter/common/limiter` | token bucket, counters of addresses, connection slots | `ServeHTTP`, `returnToken`, `Accept`, `Close` | timer against completion, double close | LimitHandler, LimitListener |
| LRU cache, `xpu-exporter/common/cache/lrucache.go` | segments: map and list | `Set`, `Get`, `SetIfNotExist`, `IncreaseOne`, ... | eviction against expiry, three readings of "expired" | LruCache, ExpiringMap |
| Collector and server, `xpu-exporter/collector`, `server` | cached answer, context | scrape, refresh loop, `Serve` | get, call and set are not atomic; shutdown | Collector (uses ExpiringMap) |
| Client update, `client_update/*.sh` | libraries on the host | install, update loop | a crash between any two commands | planned: ClientUpdate |

Not to be modelled: the binaries of the scheduler and of the Ascend service (no
source; the scheduler appears as an external actor, as far as the plugin's code
shows what it relies on), generated RPC code, images, charts and installation
scripts, the logger and monitor tool of the CUDA library.

### What makes the components correct

- Node lock: at most one holder; a holder is covered by the annotation; a caller
  is refused only for a recent lock; every call returns.
- Allocation: the pending pod is the one the kubelet means; a container gets its
  own request, once, with as many devices as asked for; the lock is given back
  by its holder; a bound pod gets its devices.
- Health: a failure reaches the kubelet that is connected; the plugin can be
  restarted and stopped at any time.
- Pids: no change of the file is missed; maps settle on the file; the file lists
  every registered process; `cuInit` ends.
- Memory: the container stays within its quota, whatever its threads and
  processes do.
- Usage: a process is counted for the vGPUs of its own container, and only
  directories of pods that are gone are removed, all of them in the end.
- Log: the newest backups survive crashes and failing steps; the others go.
- Exporter: the cache is a map with expiry that evicts the oldest; tokens and
  places of connections are given back, once; a scrape never shows less recent
  data than an earlier one; a failed server ends the process.

## 2. Plan

Done, in two rounds. First what the service promises, who gets which GPU and how
much of it: NodeLock, PidsConfig, MemoryQuota (EXTENDS PidsConfig and composes
with it), VgpuAllocation (takes the lock as one variable), DeviceHealth, with the
first proofs. Then what it reports: VxpuInfo; the exporter with ExpiringMap (the
abstract cache), LruCache (refines it), LimitListener (EXTENDS LruCache: its
counters of addresses are entries of the cache), LimitHandler, Collector
(INSTANCE of ExpiringMap, so that it stands on the abstraction that the cache is
shown to implement); and FileLogger. Then the safety properties of all of these as
theorems, the refinement of ExpiringMap by LruCache, and that of Mutex (the
abstract lock) by NodeLock.

Next:

1. ClientUpdate with crashes; the registration loop; CoreLimiter (delay bounds),
   NvmlRefCount, Topology.
2. Theorems about those, with the lemmas on retries and wrapped arithmetic they share
   with NodeLock and MemoryQuota.

Each run answers a question of its own; a new module either takes its place in
a run of a module that composes it or replaces a weaker run.

## 3. Modules

### NodeLock

One client is one bind-and-allocate cycle. The API server is `annotation` and
`fresh`: an Update is accepted when the object the client read last is still
current, which is what `resourceVersion` does; every accepted write makes all
copies stale. `pc` follows the code: `ObtainGet` (nodelock.go:138-150), `Refuse`
and `Expire` (151-170), `SetGet`, `SetUpdateOK/Err`, `SetRetry` (65-104),
`Release...` (107-135). A failing Update is not applied, or it is applied and
its reply lost. `ReleaseNodeLock` is one set of actions with two sets of labels:
the plugin's release, and that of an expired lock inside `ObtainLockNode`.
`Tick`, `Reboot` and `RegisterPatch` are the clock, the host and register.go's
patch of the same Node.

`hazards` records which of three unguarded paths have been taken: a success in
the retry loop of `setNodeLock`, a lost reply, an expiry. Without them the lock
is exclusive (`ExclusiveUnlessUnguarded`); that they break it is seen when
`MutualExclusion` is added to `NodeLock.cfg`.

Mutex is what is left of the protocol then: a lock that is free, owned, or taken
without an owner. The refinement takes for owners the clients that hold the lock
or are giving it back, and for "taken" that the annotation is there
(`ImplementsMutex`). This is the lock that VgpuAllocation has as one variable:
its `Bind` is `Acquire`, its `ReleaseNodeLock` is `Release` (that it is called by the
owner is `LockKept`), a fault of the API there is `Lose`, and the take-overs by which
NodeLock departs from Mutex are its fault "expiry".

### PidsConfig

`Start` is `PidManager::Initialize`: the watcher thread is spawned, then the
process registers. A `GetPids` call is read (snapshot of `cgroup.procs`),
truncate, flush; a failure is counted, and after `MaxTries` the process exits,
as `CudaResourceLimiter::Initialize` does. The watcher adds its watch, loads the
file once, then reloads on every event. The watcher's read of the file is one
step. A process that does not call `cuInit` has no state in this model.

### MemoryQuota

EXTENDS PidsConfig: its steps are steps of the composition (theorem
`ImplementsPids`). Every hooked call is `Request`, `Acquire` (the `flock`),
`Check`, `Driver`, `Release`. Memory is a set of pages of one device with an owner;
`MemoryUsed` counts those of the pids in the process's map. `FreePages` and
`UnhookedAlloc` run at any time without the lock. `Exit` releases memory and
lock, as the kernel does. `blind` records that a check passed while a process it
did not list had memory. Sizes wrap at `Word` as `size_t` does.

Assumed: the quota is on (`LimitMemory`), one device, no `fork` that inherits the
flock; `MemoryQuotaAssumption` says that a call the card can serve takes at most
`Slack` more than its checked size and does not wrap when added to the memory in
use. `cuMemAllocPitch` of more than 4 GiB is outside it (its two factors are
`unsigned int`), and is listed as a hazard.

### VgpuAllocation

`Bind` is the scheduler: lock, annotate, bind. `Allocate` is the kubelet's call
for the next container of a pod, one call at a time; the actions that follow, of a
handler `h`, are the statements of `DevicePlugin.Allocate` and of the functions it
calls, in order, each with its failure. `KubeletRestarts` makes the kubelet forget
its call: the handler goes on, its answer is dropped, and the kubelet may call
again while it runs, so two handlers work on the same annotations with copies
of their own. An annotation is the sequence of its requests, 0 for
one that was erased, with `joined` for what `EncodePodDevices` makes of it: it
separates containers by the comma that `DecodePodDevices` takes for a separator
of fields. The next request of a container is the first that is left
(`Min`, the loop of `GetNextDeviceRequest`). `mishaps` records what has gone wrong, so that one run can say what
holds without and what holds with it.

The lock is one variable whose calls are one step (plan item 3); a `Bind` that
finds it expired takes it over as a mishap. A kubelet that restarts is a mishap for
`OnePending`, `RightPod` and `LockKept`, and TLC shows why when `LockWorks` is
widened: when the old handler has finished behind its back, the call it repeats
is answered with the request of the next pod, or fails and releases the lock
of the next pod. `HandedOutOnce` and `CountsMatch` hold all the same.

### DeviceHealth

`Main` is main.go's loop with `Start`, `events` and `Stop` inlined. Channels are
numbered by the starts that made them. A rendezvous on the unbuffered channel is
`Receive(k)`: the sender holds the mutex in `notify`, the handler waits on the
same channel. `Select(k)` evaluates `m.health` anew, as the Go statement does,
which is how a handler of the first server comes to wait on the channel of the
second. `Signal` loses a signal when one waits in the channel of one place.
`ListAndWatch` makes up its list without a lock and then sends it (plugin.go:211,
220): `NewList(k)` begins to read the health of the devices, one after the other,
and `Send(k)` delivers what was unhealthy then and any part of what has been marked
since. A restart by SIGHUP leaves a kubelet with two streams, whose lists may
overtake each other: a device that an older list makes healthy again is in
`missed`, and `OneStreamInOrder` says that this takes two streams.

Left out: the stop channels (closed only when the process is about to exit), the
loop that restarts a crashed gRPC server, and a kubelet that opens a second stream
for one registration. The critical sections other than that of `notify` do not
block, and are one step.

### VxpuInfo

The service side of section 1's picture. `Bind`, `Run`, `Succeed`, `Delete` are
the pods, `StartProcess` and `EndProcess` the kernel, which gives pids out again.
`AllocateRead` / `AllocateWrite` are the part of `Allocate` that makes the
directory of a container, with the gap between them. `GetPidsRead` is `GetPids` up
to `writePidsConfig`, which empties the file (`GetPidsTruncate`, O_TRUNC) and
flushes its lines into it (`GetPidsWrite`); readers take no lock, so one that comes
in between finds no pid, and a file that is removed in between takes the lines with
it. A flush that fails leaves what one leaves that never comes. One `GetPids` at a
time runs for a container; PidsConfig has those that overlap. `ListDirs`,
`ListPods`, `RemoveDir` and `RemoveFails` are `cleanDestroyedPodDir` and its loop,
which ends at the first listing that fails (`unlisted`).

A call of `GetAllVxpuInfo` is `GetVxpus` (`Pi(p)[i]` is the running index into the
annotation after container `i`, `Takes` its condition, so containers without vGPU
are skipped), `ReadPidsConfig` for each container and, for each GPU, the two
questions of `GetXPUUsage`: `GetComputeRunningProcesses`, the processes that run
now, then `DeviceGetProcessUtilization`, samples of the last period, which adds
pids of processes that have begun since or have ended. Containers and GPUs come in
any order, and anything else may happen between two steps. Which samples NVML
still has is `samples`, which loses one at any time, and which of them it gives is a
free choice, as the period is left out. The container of a process is kept next to
its pid as a ghost, to say of the answer whose usage it is.

`steady` are the processes that are listed and run during the whole call, `torn` the
containers whose file the call has read between truncation and flush: that is where
`SteadyCounted` would fail. `reused` are pids that were given out while a file, a
call or a sample still had an earlier process of that pid: the one way to the usage
of another container (`OwnUsage`).

`VxpuInfoAssumption` is what the scheduler's annotation looks like: `Ordinal(p, i)`,
the place of container `i` among those with vGPUs, has an entry as long as the
container asks for. That the running index is this place is proved, not assumed.

Of the usage only which process is counted is kept, not how much. NVML's own
errors end the call (`ReturnInfo` may come at any time). A list of more than 4096
bytes, which `bufio` writes in several pieces, is written in one.

### ExpiringMap and LruCache

ExpiringMap is the cache as its callers may think of it: a map with expiry in
which the arrival of a new key may drop one other. LruCache is lrucache.go: a
segment is a list, newest first, and an index; every call is one step, as the
mutex of the segment makes it. `Set`, `SetIfNotExist`, `Get`, `Delete`,
`IncreaseOne`, `DecreaseOne` follow the code's branches, with its two comparisons
with the clock: `getValue` finds an entry at the very instant of its expiry, the
others no longer do (`Readable`, `Alive`). `Visible` is the refinement mapping,
from segments to what can be read; `ImplementsMap` is checked by TLC and proved.
The list is a sequence, `MoveToFront` and `Remove` of container/list take the key
out of it (`RemoveFirst`); `CacheElement` is the set of what the index points to,
of which `None` is no member. Left out:
`nil` receivers and list elements of another type.

### LimitListener and LimitHandler

LimitListener EXTENDS LruCache: `AcceptCount` and `CloseCount` are its
`IncreaseOne` and `DecreaseOne`, so expiry and eviction of the counters come from
the model of the cache. A connection is counted, then takes a place of the
channel or not (`AcceptAcquire`); in both cases the server serves it, as
`closeImmediately` closes nothing. Close is `CloseRelease` then `CloseCount`;
`CloseAgain` is Close a second time, which `net/http` does on some paths.
`CloseListener` closes the channel; an Accept in flight then panics. The set of
connections is finite and no larger than the counters can count
(`LimitListenerAssumption`: `math.MaxInt64`).

In LimitHandler a request is admitted by the counter of its client, takes a token
and is served next to the goroutine of `returnToken`. The two clocks, the
`stop - start` of ServeHTTP and the timer of the goroutine, are `late` and
`finished`; the two windows between them are named `Twice` and `Missed`, and
the properties say what holds outside. A counter of an address is deleted
by its timer (`MinuteEnds`) between any two requests.

### Collector

A scrape is `GetHit`, or `GetMiss`, `Answer`, `Store`, each a step, and scrapes
overlap. An answer is the time at which the plugin made it, so "older" is a
comparison. The loop of `setVgpuInfoToCache` asks and drops what it gets
(`LoopAnswer` leaves the cache alone), ends at its first error or when the context
is cancelled; `ServeFails`, `Shutdown` and `Ended` are the server and main's
`wg.Wait`.

### FileLogger

A call of `Write` is one step under the logger's mutex, with the step of the
file system that fails in it as a parameter: the file is opened, continued or
rotated, and rotated again when the entry does not fit. The goroutine's run is
`HandleStaleLogRunOnce` (the listing, the only part that takes the mutex),
`RemoveNext`, `CompressOpen`, `CompressCopy`, `CompressUnlink`, each of which may
fail, and `Crash` may come between any two; `ListingFails` is a directory that
cannot be read. A backup is known by the clock value in its name; its content is
the number of the log it once was. `clash` records two backups of the same
millisecond, for which nothing is claimed.

A crash while a backup is compressed leaves it next to a partial copy of the same
time. `oldLogFiles` sorts by time only (file.go:334), with `sort.Sort`, which keeps the
order of equal elements (the plain file first, as `os.ReadDir` has it) up to a
length of 12, the constant `StableLength`; in a longer list any of these pairs may
be swapped (`Swaps`, the parameter of `ToRemove` and `ToCompress`). `swapped` records
those: if the backup is also the last of `maxBackups`, the partial copy takes its
place and the complete file is removed. `KeepsNewest` claims the last place only
for the others, and TLC refutes it without that exception.

## 4. What the runs show

| Run | Result | Question |
|---|---|---|
| `node_lock` | pass | exclusive, and a Mutex, unless unguarded; the inductive invariant; refusals before a reboot are for recent locks; calls return |
| `pids_config` | pass | no lost update, maps converge, `cuInit` ends |
| `memory_quota` | pass | the quota holds up to one `Slack` unless a check was blind; in a settled container none is |
| `vgpu_allocation` | pass | right pod, once, matching counts, lock kept, completion |
| `vgpu_allocation_two` | violation of `NextCanBeDecoded` | do pods with two vGPU containers work? The plugin dies |
| `device_health` | pass | failures are reported, and stay reported to a kubelet with one stream; Start, Stop and SIGTERM are held up by an abandoned notify only |
| `vxpu_info` | pass | steady processes are counted unless their file was read half written, usage is that of one's own container unless a pid was given out with something left of it, only directories of deleted pods are removed, and all of them |
| `lru_cache` | pass | list, index and bound agree; evictions take the oldest; the cache implements ExpiringMap |
| `limit_listener` | pass | places match the connections that hold one; counts of addresses are never too high, and exact unless forgotten or closed twice |
| `limit_handler` | pass | tokens are bounded and come back outside the two windows |
| `collector` | pass | scrapes do not go backward unless two missed together; the age of what is shown is bounded; a failed server ends the process |
| `file_logger` | pass | the written length is the size; the newest backups survive, the last of them unless a long list swaps it with its partial copy; the rest is trimmed |

Every property of a passing run has a mutant in `PROJECT.json`: a plausible bug
in a mapped definition under which TLC finds the property violated. The mutants
are operators of the modules, marked as such and used by no specification.

The runs check what could really go wrong. A type invariant is stated next to the
properties of every module; it is part of what the runs check where it says more
than types (NodeLock, MemoryQuota and DeviceHealth within `Inv`, LruCache), and a
theorem in the others. The inductive invariants that stand in the
proof modules hold in the instances of the runs too: each was checked by TLC on
the run's configuration before it was proved.

### Bounds

- NodeLock: two clients are enough for an overlap of any two steps of the
  protocol; one retry already has the unguarded Update; uptime 0..2 with an
  interval of 1 has locks that are fresh, at the limit and expired, before and
  after one reboot.
- PidsConfig: two processes, two tries; MemoryQuota: one try, no failing calls
  (those are `pids_config`'s), two processes with a thread each, three pages,
  quota 1, slack 1 and a call for one page that takes two: one call reaches
  quota and slack, a second one would pass them, and a free in between brings the
  memory in use to the quota exactly; `Word` 16 with a call of 31, which wraps to 15, and wraps again when the memory in
  use is added.
- VgpuAllocation: a pod with two containers, one with one, and one of another
  scheduler, with different numbers of devices so that a mix-up is seen; two
  handlers, one restart of the kubelet and at most two different faults in a
  behaviour (`MaxFaults`).
- DeviceHealth: two devices (one can be under way while the next fails), two
  starts (`MaxStarts`), which is one restart and, after SIGHUP, two streams of one
  kubelet; the kubelet may restart as often as starts are left.
- VxpuInfo: two pods on one GPU, one of them with a container without vGPU before
  the one with: the running index is off by one where it can be; one pid and two
  starts (`MaxStarts`), so it is given out twice, to one container or to both,
  with all, some or none of its traces left; one `GetPids` in flight (`MaxGetPids`):
  those of two containers share nothing. What is left of a process is told from
  another's by its pid alone, so a second pid would not meet the first; the
  theorems are for any number of them.
- LruCache: three keys in a segment of two (SegmentCount 2, size 3 rounded up), so
  that an insert evicts; expiry times rejected, never, at once and later;
  counters -1..1, at both ends of their range.
- LimitListener: four connections, three of one address and one of another, whose
  counters share a segment of one and evict each other; two places, one per
  address; an hour is one tick.
- LimitHandler: three requests for two tokens, one client, two per minute.
- Collector: two scrapes, a cache time of 2 and a clock up to 5: an answer is
  stored late, found, expires and is asked for again.
- FileLogger: a file of length 3 with entries of 1 and of 3 (the maximum, for which
  one call rotates twice), two backups, age 2, clock up to 3, four rotations
  (`MaxRotations`): superfluous and overaged backups and equal names occur;
  `StableLength` 3 instead of 12, so that lists of both lengths occur; one
  crash and one failing step, so each hits every step.

Deadlock is checked for LruCache, which never stops. In the others
(`CHECK_DEADLOCK FALSE`) clocks, pods, starts, requests and connections are
bounded, and processes exit, so they stop in states that are legal.

### Fairness

Weak fairness only for code that runs by itself: the steps of a call that has
been made, of a goroutine or thread that exists, and the kubelet's calls for
what it has admitted or registered. Nothing is assumed of the scheduler, the
clock, signals, faults or applications. In VgpuAllocation `Allocate(p)` is
strongly fair, because the kubelet's calls for several pods take turns. In
DeviceHealth `AddNotifyChannel` and `Stop` are strongly fair: they wait for a
`sync.Mutex`, which hands itself over to a waiter that has starved for a
millisecond. The bound on retries, not fairness, is what makes calls return.

In VxpuInfo the cleaning goroutine goes on (weak fairness of its listings) and
`RemoveAll` of a directory does not fail for ever (strong fairness of
`RemoveDir`); pods, processes and calls need not. In FileLogger the goroutine
goes on, nobody need write. In LimitHandler the timer of `returnToken` runs out and
goroutines go on, but a handler need not return and no minute need end. In Collector the loop and the server's end go
on, and the plugin answers the loop or its call fails; scrapes may wait for ever.
LruCache and LimitListener have safety properties only.

## 5. What is proved

`tlapm X_proofs.tla` checks the theorems of a module. They hold for every value of
the constants that satisfies the assumptions of the module they are about. Two
proof modules have parts: MemoryQuota_proofs proves PidsConfig's theorems first,
as MemoryQuota EXTENDS PidsConfig and cites them; Limits_proofs those of LruCache,
on which LimitListener stands, then LimitListener's and LimitHandler's. No part
uses anything of the modules of a later one.

- NodeLock: `TypeCorrect`; `LockInvariant`, from which `Exclusive` and
  `HolderCovered` follow; `Invariant`, which is what the run checks, and from it
  `RefusalIsRecent`. Mutual exclusion is not inductive: it needs
  that a first Update that would be accepted finds no annotation
  (`FirstUpdateSafe`), that users are covered by the annotation and that no
  call is inside a take-over; an Update in the retry loop is told from a
  first one by `tries` (`RetryCounted`). `AgeInv` relates annotation, age and
  uptime, up to the copies the calls decide on. `IsMutex` is the refinement of
  Mutex: while no unguarded path is taken every step leaves `Users` and the
  annotation alone or is `Acquire`, `Release` or `Lose` (`MutexStep`).
- PidsConfig: `PidsTypeCorrect`; `NothingLost`, where the watch is added
  before the first load, and every write of the file leaves an event.
- MemoryQuota: `ImplementsPids`; `TypeCorrect`; `QuotaInvariant` and from it
  `QuotaHolds`: only the holder of the flock is between check and driver
  (`OnlyHolder`), so what a check has seen stands until the call
  (`CheckStands`); this uses the finiteness of `Page` and the arithmetic of
  cardinalities. `SettledChecks`: in a settled container the map holds every live
  process, and memory is owned by live processes only (`OwnersAlive`).
- DeviceHealth: `TypeCorrect`; `HealthInvariant`, from which
  `NoFailureForgotten`: that a new Start has channels no handler knows and that
  no stream is older than its kubelet (`FreshChannels`, `OpenersPast`) is what
  keeps `ToldUnlessMissed` when a kubelet restarts. `FailureStaysKnown`: a handler
  that is alone makes up no list without a device its kubelet knows
  (`ListsInOrder`).
- VgpuAllocation: `TypeCorrect`, `OnlyHolderPending`, `OwnRequest`, `NoRequestTwice`,
  `AsManyAsAsked`, `LockOnlyReturned`, for any pods, any number of handlers,
  restarts and faults. The invariant says what an annotation can be (`Annotations`:
  as the scheduler wrote it, or the plugin's, with its first request erased),
  what the copies of the handlers are (`Copies`), and, while the lock works, that
  all is about one pod (`Locked`). What the proof brings out: `HandedOutOnce` rests
  on the defect of section 6. No handler ever serves a pod's second request,
  because none can read the annotation once the plugin has written it; a repair
  of `DecodePodDevices` needs another reason for it.
- LruCache: `SegmentsInOrder` (list and index agree, no duplicates, never too
  full), `OldestEvicted` (the order of each list is that of the last uses:
  `Recent`) and the refinement `ImplementsExpiringMap`, with a lemma for each call
  (`GetMap`, `SetMap`, `CountMap`, `TickMap`): a key that is evicted is the one the
  abstract map may drop, and what the three readings of "expired" leave visible
  is what `Seen` allows.
- LimitListener: `PlacesAreHeld`; `CountsNeverTooHigh` and `CountsAreExact`, from
  `CountInv`: every entry of the cache is a number (`Numbers`), a count is at most
  the number of connections that have been counted, and exact while nothing was
  forgotten or closed twice (`AddressOk`). The steps of the counters are those of
  the cache, so this part cites the lemmas on LruCache.
- LimitHandler: `HandlerTypeCorrect`, in which no send finds the channel full, and
  `ServedAtATime`: while no token has been put back twice, tokens and the
  requests that owe one add up to the limit (`Balanced`), over what `ServeHTTP`
  and `returnToken` can each be doing (`RequestOk`).
- VxpuInfo: `TypeCorrect`; `GoneOnly`: what the cleaner has listed belongs to pods
  that have been bound, and what it has not found afterwards is gone
  (`CleanerOk`, `DirsBound`); `OwnProcesses`: a pid of which nothing was left when it
  was given out stands in the files, answers and samples of one container only, its
  own (`Owners`, `Sampled`);
  `NobodyMissed`: how far the call is with a process that was there all the time
  (`SteadyOk`). The last one needs that the running index of `GetVxpus` meets the
  entry of its container (`PiFacts`), which is proved of the recursive function
  `Pi(p)` by a closed form and the least index at which the two would differ.
- FileLogger: `TypeCorrect`; `FileStaysSmall`, from what one call of `Write` may do
  (`WriteFacts`); `NewestAreKept`. For the last one each file holds what was renamed
  to it or a part of that (`FilesOk`), the goroutine's list is never too long
  (`RemoveOk`: what it will remove is there and can be spared), what it will
  compress is there (`CompressOk`), and what it is copying comes from that file
  (`CopyOk`). The list may be old when it is used: that is no harm, since no backup
  becomes one of the newest later (`NewestBefore`) unless the log takes its name. A
  twin that is second in the list has one file more before it, which is why a
  swapped one is sure of a place less (`Sure`).
- Collector: `TypeCorrect`; `ShownInOrder`: as long as no two scrapes have asked
  at once, what is cached is at least as new as what was shown, and what is
  answered is newer than both (`Ordered`, `Alone`); `FoundFresh`: an entry ends
  `CacheTime` after it was stored, which was at most `slowest` after its answer
  (`CacheOk`). It stands on ExpiringMap, which LruCache is proved to implement.

Only model-checked: all liveness properties (`CallsReturn`, `MapsConverge`,
`InitializeReturns`, `AllocationCompletes`, `FailureReported`,
`BlockedOnlyByAbandoned`, `GonePodsCleaned`, `TokenComesBack`,
`ExporterEnds`, `Trimmed`), which the proof system does not handle under fairness.
That `NextCanBeDecoded` is violated needs a counterexample and no proof.

## 6. Where code and documents disagree

The finding of `PROJECT.json` is the counterexample of `vgpu_allocation_two`: a pod
with two vGPU containers ends the plugin, since what `EncodePodDevices` writes
after the first (util.go:155) cannot be decoded for the second (util.go:275).

Other sentences of the repository are stated as definitions too. TLC refutes
each when it is added to the module's .cfg, and a passing property says what is
true instead:

| Definition | The sentence | What the code does | True instead |
|---|---|---|---|
| `MutualExclusion` (NodeLock) | the lock is exclusive | the retry of `setNodeLock` takes a lock that is held (nodelock.go:84) | `ExclusiveUnlessUnguarded` |
| `RefusalSaysRecent` (NodeLock, a PROPERTY) | "has been locked within %f seconds" (nodelock.go:169) | the age is measured by a clock that a reboot sets back (nodelock.go:151) | `RefusedOnlyIfRecent` |
| `FileComplete` (PidsConfig) | pids.config lists the container's processes | concurrent `GetPids` calls leave a stale file (service_impl.go:279) | `NoLostUpdate`: the maps follow the file |
| `QuotaAlways` (MemoryQuota) | "out of memory" beyond the quota (memory_limiter.cpp:24) | memory of a process is not counted before the map is loaded | `QuotaRespected`, `SettledCheckSeesAll` |
| `PlainPodsRefused` (VgpuAllocation, with a second pod that asks for as many vGPUs) | "user pod doesn't specify volcano scheduler" (plugin.go:339) | a pod of another scheduler gets the devices of a pending pod | `HandedOutOnce`, `CountsMatch` |
| `RestartCompletes` (DeviceHealth, a PROPERTY) | the plugin is restarted "to reconnect to the kubelet" (main.go:45) | a restart with failing devices blocks main for ever (cache.go:82) | `BlockedOnlyByAbandoned` |
| `AtMostTotal` (LimitListener) | "accepts at most n connections at the same time" (limit_listener.go:23) | `closeImmediately` hands the connection to the server | `PlacesMatch` |
| `AlwaysReturned` (LimitHandler, a PROPERTY) | "the token must be returned" (limit_handler.go:171) | it is lost when the handler ends as the timer runs out | `TokenComesBack` |

And one that needs no run: the flag of the exporter's main.go:51 is the "Interval
(seconds) to update the npu metric cache", but the loop drops what it gets; only a
scrape that misses fills the cache.

## 7. Not modelled

- No source: the scheduler and the Ascend service. The scheduler is the external
  `Bind` of VgpuAllocation, as far as the plugin's code shows what it relies on.
- No behaviour of their own: generated RPC code, images, charts, installation.
- Pure or single-threaded computation of which a test says as much: the NVML
  wrappers, parsing of configuration files, the metrics' formatting.
- Still to come, see the plan: the core limiter, the topology parser and graph
  search, the reference count of gonvml, the client update script, and the loop
  of register.go (its patch of the Node is in NodeLock).
