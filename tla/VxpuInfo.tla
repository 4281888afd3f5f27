------------------------------- MODULE VxpuInfo -------------------------------
(***************************************************************************)
(* Who uses which GPU: the answer of GetAllVxpuInfo, and what it is made   *)
(* of (pkg/api/runtime/service/service_impl.go, GetVxpus in util.go,       *)
(* GetXPUUsage in gpu.go). Pods come and go; Allocate makes the directory  *)
(* of a container, GetPids its pids.config, a goroutine of the service     *)
(* removes the directories of pods that are gone; the kernel gives pids    *)
(* out again.                                                              *)
(*                                                                         *)
(* One GetPids at a time runs for a container (PidsConfig has several). Of *)
(* the usage of a process only that it is counted is kept.                 *)
(***************************************************************************)
EXTENDS Integers, Sequences, FiniteSets, SequencesExt

CONSTANTS
  Pod,       \* pods (their UIDs) of this node
  Pid,       \* host pids
  Gpu,       \* the GPUs of the node
  Number,    \* Number[p]: the vgpu-number limits of the containers of p, 0 where there is none
  Assigned,  \* Assigned[p]: for each vGPU container of p its GPUs, from the annotation
  MaxStarts, \* bound on the number of processes that are started
  MaxGetPids \* bound on the number of GetPids in flight

\* The place of container i among the containers of p with vGPUs.
Ordinal(p, i) == Cardinality({j \in 1..i : Number[p][j] # 0})

\* The scheduler assigns each container as many vGPUs as it asks for.
ASSUME VxpuInfoAssumption ==
  /\ Number \in [Pod -> Seq(Nat)] /\ Assigned \in [Pod -> Seq(Seq(Gpu))]
  /\ \A p \in Pod : \A i \in DOMAIN Number[p] : Number[p][i] # 0 =>
       /\ Ordinal(p, i) \in DOMAIN Assigned[p]
       /\ Len(Assigned[p][Ordinal(p, i)]) = Number[p][i]
  /\ MaxStarts \in Nat /\ MaxGetPids \in Nat

\* The containers with vGPUs, as <<pod, index>>.
Ctr == {c \in UNION {{p} \X DOMAIN Number[p] : p \in Pod} : Number[c[1]][c[2]] # 0}
CtrsOf(p) == {c \in Ctr : c[1] = p}

VARIABLES
  phase,      \* phase[p]: not yet there, bound, Running, Succeeded or removed from the API server
  owner,      \* owner[i]: the container in which pid i runs, or Nobody
  allocating, \* containers for which Allocate has read the pod and not yet made the directory
  conf,       \* conf[c]: no directory, a directory, or pids.config and the pids in it
  getPids,    \* getPids[c]: how far a GetPids is, and what it has read
  cleaner,    \* the goroutine of Start: where it is, the directories it has listed or is to remove
  call,       \* the call of GetAllVxpuInfo
  samples,    \* processes that have ended and of which NVML still has samples, as <<pid, container>>
  starts,     \* bound: processes started
  reused,     \* history: pids given out while something was left of an earlier process of that pid
  steady,     \* history: pids running and listed in pids.config ever since the call began
  torn,       \* history: containers whose pids.config the call read while GetPids rewrote it
  unlisted    \* history: the cleaner could not list directories or pods

podVars == <<phase, owner, samples, starts, reused>>
vars == <<phase, owner, samples, allocating, conf, getPids, cleaner, call, starts, reused, steady, torn,
          unlisted>>

Nobody == <<>>
\* What Allocate hands to container c: the entry of the annotation for it.
GpusOf(c) == ToSet(Assigned[c[1]][Ordinal(c[1], c[2])])

NoDir == [state |-> "none", pids |-> {}]
Dir == [state |-> "dir", pids |-> {}]
File(pids) == [state |-> "file", pids |-> pids]
NoGetPids == [pc |-> "idle", pids |-> {}]
NoCall == [pc |-> "idle", vxpus |-> {}, unread |-> {}, pSet |-> [c \in Ctr |-> {}],
           unsampled |-> {}, sampling |-> {}, processMap |-> [g \in Gpu |-> {}]]

Init ==
  /\ phase = [p \in Pod |-> "none"] /\ owner = [i \in Pid |-> Nobody]
  /\ allocating = {} /\ conf = [c \in Ctr |-> NoDir]
  /\ getPids = [c \in Ctr |-> NoGetPids]
  /\ cleaner = [pc |-> "remove", dirs |-> {}] /\ call = NoCall
  /\ samples = {} /\ starts = 0 /\ reused = {} /\ steady = {} /\ torn = {} /\ unlisted = FALSE

\* The pids that run in container c.
Running(c) == {i \in Pid : owner[i] = c}

\* GetPids has truncated pids.config and not yet written it.
Rewritten(c) == getPids[c].pc = "write" /\ conf[c].state = "file"

\* What is in pids.config, or in the GetPids that is writing it.
Content(c) == IF Rewritten(c) THEN getPids[c].pids ELSE conf[c].pids

\* What is listed correctly.
Listed ==
  {i \in Pid : owner[i] # Nobody /\ phase[owner[i][1]] = "running" /\ i \in Content(owner[i])}
StillSteady == steady' = steady \cap Listed'

-----------------------------------------------------------------------------
(* Pods and processes                                                      *)

Move(p, from, to) ==
  /\ phase[p] \in from /\ phase' = [phase EXCEPT ![p] = to]
  /\ UNCHANGED <<owner, samples, allocating, conf, getPids, cleaner, call, starts, reused, torn, unlisted>>
  /\ StillSteady

Bind(p) == Move(p, {"none"}, "bound")
Run(p) == (\A c \in CtrsOf(p) : conf[c] # NoDir) /\ Move(p, {"bound"}, "running")
Succeed(p) == (\A c \in CtrsOf(p) : Running(c) = {}) /\ Move(p, {"running"}, "succeeded")

\* The pod is removed, by force even under processes that still run.
Delete(p) == Move(p, {"bound", "running", "succeeded"}, "deleted")

StartProcess(i, c) ==
  /\ starts < MaxStarts /\ owner[i] = Nobody /\ phase[c[1]] = "running"
  /\ owner' = [owner EXCEPT ![i] = c]
  /\ starts' = starts + 1
  /\ reused' = IF \E d \in Ctr : \/ i \in conf[d].pids \cup getPids[d].pids \cup call.pSet[d]
                                \/ <<i, d>> \in samples
               THEN reused \cup {i} ELSE reused
  /\ UNCHANGED <<phase, samples, allocating, conf, getPids, cleaner, call, torn, unlisted>>
  /\ StillSteady

EndProcess(i) ==
  /\ owner[i] # Nobody
  /\ owner' = [owner EXCEPT ![i] = Nobody]
  /\ samples' = samples \cup {<<i, owner[i]>>}
  /\ UNCHANGED <<phase, allocating, conf, getPids, cleaner, call, starts, reused, torn, unlisted>>
  /\ StillSteady

\* NVML overwrites its oldest samples.
LoseSamples(x) ==
  /\ x \in samples /\ samples' = samples \ {x}
  /\ UNCHANGED <<phase, owner, starts, reused, allocating, conf, getPids, cleaner, call, steady, torn,
                 unlisted>>

-----------------------------------------------------------------------------
(* Allocate and GetPids, as far as they concern the directory              *)

AllocateRead(c) ==
  /\ phase[c[1]] = "bound" /\ c \notin allocating /\ conf[c] = NoDir
  /\ allocating' = allocating \cup {c}
  /\ UNCHANGED <<podVars, conf, getPids, cleaner, call, steady, torn, unlisted>>

\* createDirAndWriteFile; the pod may have gone meanwhile.
AllocateWrite(c) ==
  /\ c \in allocating
  /\ allocating' = allocating \ {c}
  /\ conf' = [conf EXCEPT ![c] = IF @ = NoDir THEN Dir ELSE @]
  /\ UNCHANGED <<podVars, getPids, cleaner, call, steady, torn, unlisted>>

\* GetPids: the pids of the cgroup, of a container that is listed as Running.
GetPidsRead(c) ==
  /\ Cardinality({d \in Ctr : getPids[d].pc # "idle"}) < MaxGetPids
  /\ getPids[c].pc = "idle" /\ Running(c) # {} /\ phase[c[1]] = "running"
  /\ getPids' = [getPids EXCEPT ![c] = [pc |-> "read", pids |-> Running(c)]]
  /\ UNCHANGED <<podVars, allocating, conf, cleaner, call, steady, torn, unlisted>>

\* writePidsConfig opens the file with O_TRUNC, under no lock; without a
\* directory it cannot be opened.
GetPidsTruncate(c) ==
  /\ getPids[c].pc = "read"
  /\ IF conf[c] = NoDir
     THEN getPids' = [getPids EXCEPT ![c] = NoGetPids] /\ UNCHANGED conf
     ELSE /\ getPids' = [getPids EXCEPT ![c].pc = "write"]
          /\ conf' = [conf EXCEPT ![c] = File({})]
  /\ UNCHANGED <<podVars, allocating, cleaner, call, torn, unlisted>>
  /\ StillSteady

\* Flush, into nothing if the file was removed meanwhile; one that fails is as
\* one that never comes.
GetPidsWrite(c) ==
  /\ getPids[c].pc = "write"
  /\ getPids' = [getPids EXCEPT ![c] = NoGetPids]
  /\ conf' = [conf EXCEPT ![c] = IF Rewritten(c) THEN File(getPids[c].pids) ELSE @]
  /\ UNCHANGED <<podVars, allocating, cleaner, call, torn, unlisted>>
  /\ StillSteady

-----------------------------------------------------------------------------
(* cleanDestroyedPodDir, once a minute; the loop ends at its first error   *)

Clean(pc, dirs) == cleaner' = [pc |-> pc, dirs |-> dirs]
DirNames == {p \in Pod : \E c \in CtrsOf(p) : conf[c] # NoDir}
Known == {p \in Pod : phase[p] \notin {"none", "deleted"}}

\* getPodDirNames, when all is removed and the minute is over.
ListDirs ==
  /\ cleaner.pc = "remove" /\ cleaner.dirs = {}
  /\ \/ Clean("dirs", DirNames) /\ UNCHANGED unlisted
     \/ Clean("ended", {}) /\ unlisted' = TRUE
  /\ UNCHANGED <<podVars, allocating, conf, getPids, call, steady, torn>>

\* Mutant of ListPods: the selector of GetVxpus, of Running pods only.
ListPodsRunning ==
  /\ cleaner.pc = "dirs"
  /\ \/ Clean("remove", cleaner.dirs \ {p \in Pod : phase[p] = "running"}) /\ UNCHANGED unlisted
     \/ Clean("ended", {}) /\ unlisted' = TRUE
  /\ UNCHANGED <<podVars, allocating, conf, getPids, call, steady, torn>>

\* ListPods, and the names that are not in podIdSet.
ListPods ==
  /\ cleaner.pc = "dirs"
  /\ \/ Clean("remove", cleaner.dirs \ Known) /\ UNCHANGED unlisted
     \/ Clean("ended", {}) /\ unlisted' = TRUE
  /\ UNCHANGED <<podVars, allocating, conf, getPids, call, steady, torn>>

\* os.RemoveAll
RemoveDir(p) ==
  /\ cleaner.pc = "remove" /\ p \in cleaner.dirs
  /\ Clean("remove", cleaner.dirs \ {p})
  /\ conf' = [c \in Ctr |-> IF c[1] = p THEN NoDir ELSE conf[c]]
  /\ UNCHANGED <<podVars, allocating, getPids, call, torn, unlisted>>
  /\ StillSteady

\* Mutant of RemoveFails: the error is returned.
RemoveFailsReturned(p) ==
  /\ cleaner.pc = "remove" /\ p \in cleaner.dirs
  /\ Clean("ended", {})
  /\ UNCHANGED <<podVars, allocating, conf, getPids, call, steady, torn, unlisted>>

\* os.RemoveAll fails; its error is overwritten or dropped.
RemoveFails(p) ==
  /\ cleaner.pc = "remove" /\ p \in cleaner.dirs
  /\ Clean("remove", cleaner.dirs \ {p})
  /\ UNCHANGED <<podVars, allocating, conf, getPids, call, steady, torn, unlisted>>

-----------------------------------------------------------------------------
(* GetAllVxpuInfo                                                          *)

\* Mutant of Vxpus: containers without vGPU take an entry of the annotation too.
VxpusByContainer(p) ==
  UNION {{[ctr |-> <<p, i>>, gpu |-> g] : g \in ToSet(Assigned[p][i])} :
         i \in {j \in DOMAIN Number[p] \cap DOMAIN Assigned[p] : Len(Assigned[p][j]) = Number[p][j]}}

\* GetVxpus for one pod: a container that has vGPUs takes the next entry of the
\* annotation, if that is as long as it should be. Pi(p)[i] is pi after container i.
Takes(p, i, pi) ==
  Number[p][i] # 0 /\ pi \in DOMAIN Assigned[p] /\ Len(Assigned[p][pi]) = Number[p][i]
Pi(p) ==
  LET pi[i \in 0..Len(Number[p])] ==
        IF i = 0 THEN 1 ELSE IF Takes(p, i, pi[i - 1]) THEN pi[i - 1] + 1 ELSE pi[i - 1]
  IN  pi
Vxpus(p) ==
  UNION {{[ctr |-> <<p, i>>, gpu |-> g] : g \in ToSet(Assigned[p][Pi(p)[i - 1]])} :
         i \in {j \in DOMAIN Number[p] : Takes(p, j, Pi(p)[j - 1])}}

\* GetXPUs and GetVxpus: the devices of the pods that are Running.
GetVxpus ==
  /\ call.pc = "idle"
  /\ LET vxpus == UNION {Vxpus(p) : p \in {q \in Pod : phase[q] = "running"}} IN
     call' = [NoCall EXCEPT !.pc = "files", !.vxpus = vxpus, !.unread = {v.ctr : v \in vxpus},
                            !.unsampled = Gpu]
  /\ steady' = Listed /\ torn' = {}
  /\ UNCHANGED <<podVars, allocating, conf, getPids, cleaner, unlisted>>

\* getPodSet reads one pids.config, as it is; where there is none it goes on.
ReadPidsConfig(c) ==
  /\ call.pc = "files" /\ c \in call.unread
  /\ call' = [call EXCEPT !.unread = @ \ {c}, !.pSet[c] = conf[c].pids]
  /\ torn' = IF Rewritten(c) THEN torn \cup {c} ELSE torn
  /\ UNCHANGED <<podVars, allocating, conf, getPids, cleaner, steady, unlisted>>

\* The processes that run on g. With the pid its container is kept, which the
\* code does not know.
RunningOn(g) == {<<i, owner[i]>> : i \in {j \in Pid : owner[j] # Nobody /\ g \in GpusOf(owner[j])}}

\* The processes that have ended and of which NVML has samples of g.
EndedOn(g) == {x \in samples : g \in GpusOf(x[2])}

\* GetXPUUsage of one GPU after the other: first a pid for each process that runs on it,
GetComputeRunningProcesses(g) ==
  /\ call.pc = "files" /\ call.unread = {} /\ call.sampling = {} /\ g \in call.unsampled
  /\ call' = [call EXCEPT !.unsampled = @ \ {g}, !.sampling = {g}, !.processMap[g] = RunningOn(g)]
  /\ UNCHANGED <<podVars, allocating, conf, getPids, cleaner, steady, torn, unlisted>>

\* then one for each sample of the period, of processes that run or that have ended.
DeviceGetProcessUtilization(g) ==
  /\ call.pc = "files" /\ g \in call.sampling
  /\ \E sampled \in SUBSET (EndedOn(g) \cup RunningOn(g)) :
       call' = [call EXCEPT !.sampling = {}, !.processMap[g] = @ \cup sampled]
  /\ UNCHANGED <<podVars, allocating, conf, getPids, cleaner, steady, torn, unlisted>>

\* All is read, and setVxpuDevices puts it together.
Complete == call.pc = "files" /\ call.unread = {} /\ call.unsampled = {} /\ call.sampling = {}

\* Mutant of Counted: containers of the same name in two pods share a key of pSet.
CountedByName == {u \in call.vxpus \X (UNION {call.processMap[g] : g \in Gpu}) :
                    u[2] \in call.processMap[u[1].gpu] /\ \E c \in Ctr : u[2][1] \in call.pSet[c]}

\* The answer: which process is counted for which vGPU.
Counted == {u \in call.vxpus \X (UNION {call.processMap[g] : g \in Gpu}) :
              u[2] \in call.processMap[u[1].gpu] /\ u[2][1] \in call.pSet[u[1].ctr]}

\* The call returns, with its answer or with the error of any step.
ReturnInfo ==
  /\ call.pc # "idle"
  /\ call' = NoCall /\ steady' = {} /\ torn' = {}
  /\ UNCHANGED <<podVars, allocating, conf, getPids, cleaner, unlisted>>

-----------------------------------------------------------------------------
Pods == \E p \in Pod : Bind(p) \/ Run(p) \/ Succeed(p) \/ Delete(p)
Processes ==
  \/ \E i \in Pid : EndProcess(i) \/ \E c \in Ctr : StartProcess(i, c)
  \/ \E x \in samples : LoseSamples(x)
Files(c) ==
  \/ AllocateRead(c) \/ AllocateWrite(c)
  \/ GetPidsRead(c) \/ GetPidsTruncate(c) \/ GetPidsWrite(c)
Cleaner == ListDirs \/ ListPods \/ \E p \in Pod : RemoveDir(p) \/ RemoveFails(p)
GetAllVxpuInfo ==
  \/ GetVxpus \/ ReturnInfo
  \/ \E c \in Ctr : ReadPidsConfig(c)
  \/ \E g \in Gpu : GetComputeRunningProcesses(g) \/ DeviceGetProcessUtilization(g)

Next == Pods \/ Processes \/ (\E c \in Ctr : Files(c)) \/ Cleaner \/ GetAllVxpuInfo

\* The goroutine goes on; RemoveAll does not fail for ever.
Spec ==
  /\ Init /\ [][Next]_vars
  /\ WF_vars(ListDirs) /\ WF_vars(ListPods)
  /\ \A p \in Pod : SF_vars(RemoveDir(p))

-----------------------------------------------------------------------------
(* Properties                                                              *)

TypeOK ==
  /\ phase \in [Pod -> {"none", "bound", "running", "succeeded", "deleted"}]
  /\ owner \in [Pid -> Ctr \cup {Nobody}]
  /\ allocating \subseteq Ctr /\ torn \subseteq Ctr /\ samples \subseteq Pid \X Ctr
  /\ conf \in [Ctr -> [state : {"none", "dir", "file"}, pids : SUBSET Pid]]
  /\ \A c \in Ctr : conf[c].state # "file" => conf[c].pids = {}
  /\ getPids \in [Ctr -> [pc : {"idle", "read", "write"}, pids : SUBSET Pid]]
  /\ cleaner \in [pc : {"dirs", "remove", "ended"}, dirs : SUBSET Pod]
  /\ call.pc \in {"idle", "files"} /\ call.pSet \in [Ctr -> SUBSET Pid]
  /\ starts \in 0..MaxStarts /\ reused \cup steady \subseteq Pid /\ unlisted \in BOOLEAN
  /\ unlisted <=> cleaner.pc = "ended"

\* The directory of a container is removed only when its pod is gone from the
\* API server: not one that Allocate made between the two listings of
\* cleanDestroyedPodDir, and not one of a pod that does not run.
OnlyGonePodsCleaned ==
  [][\A c \in Ctr : conf[c] # NoDir /\ conf'[c] = NoDir => phase[c[1]] = "deleted"]_vars

\* Once no more pods come and go, no directory of a pod that is gone is left,
\* not even one that an Allocate in flight has made later, and whatever RemoveAll
\* reports; unless a listing failed once.
GonePodsCleaned == <>[](unlisted \/ \A p \in DirNames : phase[p] # "deleted")

\* A process that was in pids.config and ran on its GPU from the first to the
\* last step of GetAllVxpuInfo is counted for every vGPU of its container,
\* whatever starts, ends or is cleaned during the call, and also when GetPids
\* rewrites the file with it; unless the file was read between the truncation
\* and the write of a GetPids.
SteadyCounted ==
  Complete =>
    \A i \in steady : owner[i] \in torn \/
      \A g \in GpusOf(owner[i]) : <<[ctr |-> owner[i], gpu |-> g], <<i, owner[i]>>>> \in Counted

\* A process is counted for a container that is not its own only if its pid was
\* given out while something was left of an earlier process with that pid: in a
\* pids.config, a call in flight or the samples of NVML.
OwnUsage ==
  Complete =>
    \A x \in Counted : x[1].ctr = x[2][2] \/ x[2][1] \in reused
=============================================================================
