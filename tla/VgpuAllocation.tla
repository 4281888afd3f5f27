--------------------------- MODULE VgpuAllocation ---------------------------
(***************************************************************************)
(* How a pod gets its vGPUs: the handshake, over annotations, between the  *)
(* scheduler, the kubelet and DevicePlugin.Allocate                        *)
(* (pkg/plugin/plugin.go, pkg/plugin/util/util.go).                        *)
(*                                                                         *)
(* The scheduler takes the node lock, writes into the pod which devices    *)
(* each of its containers gets, marks it "allocating" and binds it. The    *)
(* kubelet then calls Allocate once for each container that wants vGPUs,   *)
(* without saying for which pod: the plugin answers with the next request  *)
(* of the oldest pod that is marked. The node lock is what makes that the  *)
(* right one. Here the lock is one variable and its calls are one step;    *)
(* NodeLock models what they do.                                           *)
(*                                                                         *)
(* A kubelet that restarts forgets its call and makes it again; the        *)
(* handler of the old one goes on, as it ignores the context it is given.  *)
(*                                                                         *)
(* A request is the number of devices it lists; 0 is one that was erased.  *)
(***************************************************************************)
EXTENDS Integers, Sequences, FiniteSets, SequencesExt

CONSTANTS
  Pod,     \* the pods of the node that want vGPUs
  Need,    \* Need[p]: the number of vGPUs of each container of p that wants any
  Plain,   \* the pods that do not specify the volcano scheduler
  NoPod,   \* no pod: the zero v1.Pod, a free lock
  Call,    \* the goroutines that handle Allocate, as many as may run at a time
  NoCall,  \* the kubelet waits for no call
  Faults,  \* what may go wrong
  MaxFaults \* bound on how many different faults meet in a behaviour

Fault == {"api", "file", "crash", "expiry", "restart"}

\* Besides faults: a plain pod, and a plugin that dies of its own annotation.
Mishap == Fault \cup {"plain", "decode"}

ASSUME VgpuAllocationAssumption ==
  /\ Need \in [Pod -> Seq(Nat \ {0})]
  /\ \A p \in Pod : Need[p] # <<>>
  /\ Plain \subseteq Pod /\ NoPod \notin Pod /\ NoCall \notin Call
  /\ Faults \subseteq Fault /\ MaxFaults \in Nat

VARIABLES
  nodeLock,   \* the pod whose binding took the node lock
  phase,      \* phase[p]: the bind-phase annotation
  bound,      \* the bound pods, by bind-time
  toAllocate, \* toAllocate[p]: the requests in the annotation that are left
  joined,     \* joined[p]: that annotation was written by EncodePodDevices
  admission,  \* admission[p]: what the kubelet made of the pod
  served,     \* served[p]: for how many containers Allocate has succeeded
  awaited,    \* the call whose answer the kubelet waits for
  call,       \* call[h]: where the handler h is, which container the kubelet
              \* asked for, and what GetPendingPod gave it: current, the copy of
              \* its requests, and whether EncodePodDevices wrote that copy
  responses,  \* history: which request has been given to which container
  mishaps     \* history: what has gone wrong so far

clusterVars == <<nodeLock, phase, bound, toAllocate, joined>>
kubeletVars == <<admission, served, awaited, responses>>
vars == <<clusterVars, kubeletVars, call, mishaps>>

Idle == [pc |-> "idle", asked |-> <<>>, current |-> NoPod, requests |-> <<>>, joined |-> FALSE]

TypeOK ==
  /\ nodeLock \in Pod \cup {NoPod}
  /\ phase \in [Pod -> {"none", "allocating", "success", "failed"}]
  /\ bound \in Seq(Pod)
  /\ toAllocate \in [Pod -> Seq(Nat)]
  /\ \A p \in Pod : phase[p] # "none" => Len(toAllocate[p]) = Len(Need[p])
  /\ joined \in [Pod -> BOOLEAN]
  /\ admission \in [Pod -> {"waiting", "admitted", "rejected"}]
  /\ served \in [Pod -> Nat] /\ \A p \in Pod : served[p] <= Len(Need[p])
  /\ awaited \in Call \cup {NoCall}
  /\ call \in [Call ->
       [pc : {"idle", "list", "next", "erase", "write", "try", "success",
              "failed", "release", "releaseFailed"},
        asked : {<<>>} \cup (Pod \X Nat), current : Pod \cup {NoPod},
        requests : Seq(Nat), joined : BOOLEAN]]
  /\ responses \subseteq [to : Pod \X Nat, from : Pod \X Nat]
  /\ mishaps \subseteq Mishap

Init ==
  /\ nodeLock = NoPod
  /\ phase = [p \in Pod |-> "none"]
  /\ bound = <<>>
  /\ toAllocate = [p \in Pod |-> <<>>]
  /\ joined = [p \in Pod |-> FALSE]
  /\ admission = [p \in Pod |-> "waiting"]
  /\ served = [p \in Pod |-> 0]
  /\ awaited = NoCall
  /\ call = [h \in Call |-> Idle]
  /\ responses = {}
  /\ mishaps = {}

Goto(h, l) == call' = [call EXCEPT ![h].pc = l]

Happens(m) ==
  /\ mishaps' = mishaps \cup {m}
  /\ m \in Fault => Cardinality(mishaps' \cap Fault) <= MaxFaults
AllWell == UNCHANGED mishaps

-----------------------------------------------------------------------------
(* The scheduler and the kubelet                                           *)

\* Mutant of Bind: the pod is bound without the lock.
BindUnlocked(p) ==
  /\ p \notin Plain /\ phase[p] = "none"
  /\ nodeLock' = p
  /\ phase' = [phase EXCEPT ![p] = "allocating"]
  /\ bound' = Append(bound, p)
  /\ toAllocate' = [toAllocate EXCEPT ![p] = Need[p]]
  /\ UNCHANGED <<joined, kubeletVars, call, mishaps>>

\* The scheduler binds p: it takes the node lock, which must be free or
\* expired, and writes its decision into the annotations.
Bind(p) ==
  /\ p \notin Plain /\ phase[p] = "none"
  /\ \/ nodeLock = NoPod /\ AllWell
     \/ nodeLock # NoPod /\ "expiry" \in Faults /\ Happens("expiry")
  /\ nodeLock' = p
  /\ phase' = [phase EXCEPT ![p] = "allocating"]
  /\ bound' = Append(bound, p)
  /\ toAllocate' = [toAllocate EXCEPT ![p] = Need[p]]
  /\ UNCHANGED <<joined, kubeletVars, call>>

\* Goroutines are all alike, so it does not matter which one gets the call.
IdleCalls == {h \in Call : call[h].pc = "idle"}

\* The kubelet admits its pods one after the other, and the containers of a
\* pod one after the other; when it has restarted, it begins anew with those
\* that are not served.
Allocate(p) ==
  /\ awaited = NoCall /\ IdleCalls # {} /\ admission[p] = "waiting"
  /\ "restart" \in mishaps \/ \A q \in Pod \ {p} : ~(admission[q] = "waiting" /\ served[q] > 0)
  /\ \/ p \in Plain /\ Happens("plain")
     \/ p \notin Plain /\ phase[p] # "none" /\ AllWell
  /\ awaited' = CHOOSE h \in IdleCalls : TRUE
  /\ call' = [call EXCEPT ![awaited'] = [Idle EXCEPT !.pc = "list", !.asked = <<p, served[p] + 1>>]]
  /\ UNCHANGED <<clusterVars, admission, served, responses>>

\* The kubelet restarts (once, a bound): it will not hear the answer to its call.
KubeletRestarts ==
  /\ awaited # NoCall /\ "restart" \in Faults \ mishaps /\ Happens("restart")
  /\ awaited' = NoCall
  /\ UNCHANGED <<clusterVars, admission, served, responses, call>>

\* What the kubelet asked for: a container of a pod, and how many vGPUs.
Asked(h) == call[h].asked
AskedCount(h) == Need[Asked(h)[1]][Asked(h)[2]]

\* The handlers in hs end with an error or with their process: the pod is not
\* admitted, if the kubelet still waits for one of them.
Reject(hs) ==
  /\ call' = [h \in Call |-> IF h \in hs THEN Idle ELSE call[h]]
  /\ IF awaited \in hs
     THEN /\ admission' = [admission EXCEPT ![Asked(awaited)[1]] = "rejected"]
          /\ awaited' = NoCall
     ELSE UNCHANGED <<admission, awaited>>
  /\ UNCHANGED <<served, responses>>

-----------------------------------------------------------------------------
(* DevicePlugin.Allocate                                                   *)

\* The pods that GetPendingPod looks at.
IsPending(p) == phase[p] = "allocating"

\* The pod marked as allocating with the oldest bind-time. When there is none
\* the result is not nil but the address of a zero Pod.
GetPendingPod ==
  LET pending == {i \in DOMAIN bound : IsPending(bound[i])}
  IN IF pending = {} THEN NoPod ELSE bound[Min(pending)]

ListPods(h) ==
  /\ call[h].pc = "list"
  /\ LET p == GetPendingPod IN
     call' = [call EXCEPT ![h] =
       IF p = NoPod THEN [@ EXCEPT !.pc = "next"]
       ELSE [@ EXCEPT !.pc = "next", !.current = p,
                      !.requests = toAllocate[p], !.joined = joined[p]]]
  /\ UNCHANGED <<clusterVars, kubeletVars, mishaps>>

\* The error path of GetPendingPod: the lock is released, whoever has it.
ListPodsFails(h) ==
  /\ call[h].pc = "list" /\ "api" \in Faults /\ Happens("api")
  /\ Goto(h, "releaseFailed")
  /\ UNCHANGED <<clusterVars, kubeletVars>>

\* Containers are joined with "," by EncodePodDevices, but taken apart at ";" by
\* DecodePodDevices: what was written for several ends in log.Fatalln.
Decodable(h) == ~(Len(call[h].requests) > 1 /\ call[h].joined)

Left(s) == {i \in DOMAIN s : s[i] > 0}
NextIdx(s) == Min(Left(s))

\* Mutant of NextDeviceRequest: the number of devices is not compared.
NextDeviceRequestAnyNumber(h) ==
  /\ call[h].pc = "next" /\ Decodable(h)
  /\ Goto(h, IF Left(call[h].requests) # {} THEN "erase" ELSE "failed")
  /\ UNCHANGED <<clusterVars, kubeletVars, mishaps>>

\* GetNextDeviceRequest finds a request for as many devices as the kubelet wants.
NextDeviceRequest(h) ==
  /\ call[h].pc = "next" /\ Decodable(h)
  /\ LET s == call[h].requests IN
     Goto(h, IF Left(s) # {} /\ s[NextIdx(s)] = AskedCount(h) THEN "erase" ELSE "failed")
  /\ UNCHANGED <<clusterVars, kubeletVars, mishaps>>

\* log.Fatalln: the plugin is gone, and restarted, without having cleaned up.
DecodeDies(h) ==
  /\ call[h].pc = "next" /\ ~Decodable(h) /\ Happens("decode")
  /\ Reject(Call)
  /\ UNCHANGED clusterVars

\* The erased request leaves an empty entry: the place of an entry says for which
\* container it is (getContainerIdxByVxpuIdx). It is the handler's copy that is
\* written back.
Erased(s) == [s EXCEPT ![NextIdx(s)] = 0]

PatchErased(h) ==
  /\ toAllocate' = [toAllocate EXCEPT ![call[h].current] = Erased(call[h].requests)]
  /\ joined' = [joined EXCEPT ![call[h].current] = TRUE]

\* Mutant of Erase: the answer is given before the annotation is patched.
EraseSkipped(h) ==
  /\ call[h].pc = "erase"
  /\ Goto(h, "write")
  /\ UNCHANGED <<clusterVars, kubeletVars, mishaps>>

\* EraseNextDeviceTypeFromAnnotation
Erase(h) ==
  /\ call[h].pc = "erase"
  /\ PatchErased(h)
  /\ Goto(h, "write")
  /\ UNCHANGED <<nodeLock, phase, bound, kubeletVars, mishaps>>

\* It returns an error: the patch was not applied, or its reply was lost.
EraseFails(h) ==
  /\ call[h].pc = "erase" /\ "api" \in Faults /\ Happens("api")
  /\ PatchErased(h) \/ UNCHANGED <<toAllocate, joined>>
  /\ Goto(h, "failed")
  /\ UNCHANGED <<nodeLock, phase, bound, kubeletVars>>

\* createDirAndWriteFile
WriteFiles(h) ==
  /\ call[h].pc = "write"
  /\ Goto(h, "try")
  /\ UNCHANGED <<clusterVars, kubeletVars, mishaps>>

\* Its error path is the one that neither marks the pod nor releases the lock.
WriteFilesFails(h) ==
  /\ call[h].pc = "write" /\ "file" \in Faults /\ Happens("file")
  /\ Reject({h})
  /\ UNCHANGED clusterVars

\* Allocate returns the request that was next, to the container that was asked
\* for if the kubelet still waits.
Respond(h) ==
  /\ call' = [call EXCEPT ![h] = Idle]
  /\ IF awaited # h THEN UNCHANGED kubeletVars
     ELSE LET p == Asked(h)[1] IN
       /\ responses' = responses \cup
            {[to |-> Asked(h), from |-> <<call[h].current, NextIdx(call[h].requests)>>]}
       /\ served' = [served EXCEPT ![p] = @ + 1]
       /\ admission' = [admission EXCEPT ![p] = IF served'[p] = Len(Need[p]) THEN "admitted" ELSE @]
       /\ awaited' = NoCall

\* PodAllocationTrySuccess: other containers of the pod are still to be served.
TrySuccessLeft(h) ==
  /\ call[h].pc = "try" /\ Left(toAllocate[call[h].current]) # {} /\ AllWell
  /\ Respond(h)
  /\ UNCHANGED clusterVars

\* No request is left; nor is there any in the empty Pod of a Get that failed,
\* whose error is dropped.
TrySuccessDone(h) ==
  /\ call[h].pc = "try"
  /\ \/ Left(toAllocate[call[h].current]) = {} /\ AllWell
     \/ "api" \in Faults /\ Happens("api")
  /\ Goto(h, "success")
  /\ UNCHANGED <<clusterVars, kubeletVars>>

\* Mutant of PatchSuccess: the phase is left as it is.
PatchSuccessForgotten(h) ==
  /\ call[h].pc = "success"
  /\ Goto(h, "release")
  /\ UNCHANGED <<clusterVars, kubeletVars, mishaps>>

\* PodAllocationSuccess; a failed patch is logged, and the lock released all the same.
PatchSuccess(h) ==
  /\ call[h].pc = "success"
  /\ \/ phase' = [phase EXCEPT ![call[h].current] = "success"] /\ AllWell
     \/ "api" \in Faults /\ Happens("api") /\ UNCHANGED phase
  /\ Goto(h, "release")
  /\ UNCHANGED <<nodeLock, bound, toAllocate, joined, kubeletVars>>

\* PodAllocationFailed; the patch of the zero Pod fails.
PatchFailed(h) ==
  /\ call[h].pc = "failed"
  /\ LET p == call[h].current IN
       \/ p # NoPod /\ phase' = [phase EXCEPT ![p] = "failed"] /\ AllWell
       \/ p = NoPod /\ UNCHANGED phase /\ AllWell
       \/ "api" \in Faults /\ Happens("api") /\ UNCHANGED phase
  /\ Goto(h, "releaseFailed")
  /\ UNCHANGED <<nodeLock, bound, toAllocate, joined, kubeletVars>>

\* Mutant of ReleaseNodeLock: the error path keeps the lock.
ReleaseNodeLockNever == UNCHANGED <<nodeLock, mishaps>>

\* ReleaseNodeLock takes the lock away from whoever has it. Its error is logged.
ReleaseNodeLock ==
  \/ nodeLock' = NoPod /\ AllWell
  \/ "api" \in Faults /\ Happens("api") /\ UNCHANGED nodeLock

Release(h) ==
  /\ call[h].pc = "release"
  /\ ReleaseNodeLock
  /\ Respond(h)
  /\ UNCHANGED <<phase, bound, toAllocate, joined>>

ReleaseFailed(h) ==
  /\ call[h].pc = "releaseFailed"
  /\ ReleaseNodeLock
  /\ Reject({h})
  /\ UNCHANGED <<phase, bound, toAllocate, joined>>

\* The plugin is killed between two steps.
Crash ==
  /\ \E h \in Call : call[h].pc # "idle"
  /\ "crash" \in Faults /\ Happens("crash")
  /\ Reject(Call)
  /\ UNCHANGED clusterVars

-----------------------------------------------------------------------------
Plugin(h) ==
  \/ ListPods(h) \/ NextDeviceRequest(h) \/ DecodeDies(h) \/ Erase(h) \/ WriteFiles(h)
  \/ TrySuccessLeft(h) \/ TrySuccessDone(h) \/ PatchSuccess(h) \/ PatchFailed(h)
  \/ Release(h) \/ ReleaseFailed(h)

Fails(h) == ListPodsFails(h) \/ EraseFails(h) \/ WriteFilesFails(h)

Next ==
  \/ \E h \in Call : Plugin(h) \/ Fails(h)
  \/ Crash \/ KubeletRestarts
  \/ \E p \in Pod : Bind(p) \/ Allocate(p)

\* The kubelet admits every pod that the scheduler bound, and Allocate runs to
\* its end.
Spec == Init /\ [][Next]_vars
FairSpec ==
  /\ Spec /\ \A h \in Call : WF_vars(Plugin(h))
  /\ \A p \in Pod \ Plain : SF_vars(Allocate(p))

-----------------------------------------------------------------------------
(* Properties                                                              *)

\* The lock does its work: no annotation was written or lock released behind
\* the back of its holder. A crash or a file that cannot be written does not
\* put it out of order.
LockWorks == mishaps \subseteq {"file", "crash", "decode"}

\* What the plugin relies on when it takes the oldest pending pod for the one
\* the kubelet means: only the pod that has the node lock is ever pending.
OnePending == LockWorks => \A p \in Pod : phase[p] = "allocating" => nodeLock = p

\* Every container gets its own request: the devices the scheduler chose for it,
\* and the directory with its own limits.
RightPod == LockWorks => \A r \in responses : r.to = r.from

\* The lock of a pod is only given back by the allocation of that pod.
LockKept ==
  [][LockWorks' /\ nodeLock # NoPod /\ nodeLock' # nodeLock
       => awaited # NoCall /\ Asked(awaited)[1] = nodeLock]_vars

\* A pod that is bound gets its vGPUs and gives the lock back, unless something
\* goes wrong.
AllocationCompletes ==
  \A p \in Pod :
    phase[p] = "allocating" ~>
      \/ phase[p] = "success" /\ admission[p] = "admitted" /\ nodeLock # p
      \/ mishaps # {}

\* Whatever fails or dies, no request is handed out twice: it is erased before,
\* and of two handlers that have read the same request one has nobody to answer.
HandedOutOnce == \A r, s \in responses : r.from = s.from => r = s

\* A container gets as many devices as the kubelet asked for, even when they
\* are those of another pod.
CountsMatch ==
  \A r \in responses : Need[r.to[1]][r.to[2]] = Need[r.from[1]][r.from[2]]

\* plugin.go:339, "user pod doesn't specify volcano scheduler": such a pod is
\* refused. It is only when no other pod is pending.
PlainPodsRefused == \A r \in responses : r.to[1] \notin Plain

\* util.go:323, "get next xpu resource request of container in a pod": the next
\* request can be got from what is left after a container has been served.
NextCanBeDecoded == \A h \in Call : call[h].pc = "next" => Decodable(h)
=============================================================================
