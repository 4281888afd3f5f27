------------------------ MODULE VgpuAllocation_proofs ------------------------
(***************************************************************************)
(* Theorems about VgpuAllocation: for all sets of pods, whatever they      *)
(* need, any number of handlers, and all faults in any number.             *)
(***************************************************************************)
EXTENDS VgpuAllocation, FiniteSetTheorems, SequenceTheorems, TLAPS

-----------------------------------------------------------------------------
(* The inductive invariant                                                 *)

\* Where a handler has a request that it is going to hand out, and where that
\* request is erased from the annotation already.
Chosen == {"erase", "write", "try", "success", "release"}
Erasing == Chosen \ {"erase"}

Asks(h) == call[h].pc # "idle"

\* A handler that runs was asked for a container of a pod; the one that the
\* kubelet waits for, for the next one of a pod that is not yet admitted.
AskedOk ==
  /\ \A h \in Call : Asks(h) =>
       /\ Asked(h) \in Pod \X Nat
       /\ Asked(h)[2] \in DOMAIN Need[Asked(h)[1]]
  /\ awaited # NoCall =>
       LET p == Asked(awaited)[1] IN
       /\ Asks(awaited) /\ admission[p] = "waiting"
       /\ Asked(awaited)[2] = served[p] + 1
  /\ \A p \in Pod : admission[p] = "waiting" => served[p] < Len(Need[p])

\* An annotation is as the scheduler wrote it, or it is the plugin's and the
\* first request is erased: what the plugin has written for a pod of several
\* containers nobody can read again.
Untouched(p, s, j) == s = IF j THEN Erased(Need[p]) ELSE Need[p]
Annotations ==
  \A p \in Pod : IF phase[p] = "none" THEN ~joined[p]
                 ELSE /\ Untouched(p, toAllocate[p], joined[p])
                      /\ \E i \in DOMAIN bound : bound[i] = p

\* So are the copies the handlers have; one that is to be handed out is whole.
CopyOk(h) ==
  LET c == call[h] IN
  /\ c.current # NoPod => phase[c.current] # "none"
  /\ c.pc = "list" => c.current = NoPod /\ c.requests = <<>>
  /\ c.pc = "next" =>
       IF c.current = NoPod THEN c.requests = <<>>
       ELSE /\ Untouched(c.current, c.requests, c.joined)
            /\ c.joined => joined[c.current]
  /\ c.pc \in Chosen =>
       /\ c.current # NoPod /\ c.requests = Need[c.current]
       /\ Need[c.current][1] = AskedCount(h)
  /\ c.pc \in Erasing => joined[c.current]
Copies == \A h \in Call : CopyOk(h)

\* What was handed out was the first request of a pod and had been erased, and
\* the handler whose answer the kubelet waits for is not about to do it again.
About(h, p) ==
  /\ call[h].current = p
  /\ call[h].pc \in Chosen \/ (call[h].pc = "next" /\ ~call[h].joined)
HandedOut ==
  /\ HandedOutOnce
  /\ \A r \in responses :
       /\ r.to \in Pod \X Nat /\ r.from[1] \in Pod /\ r.from[2] = 1
       /\ joined[r.from[1]]
       /\ Need[r.to[1]][r.to[2]] = Need[r.from[1]][1]
       /\ awaited # NoCall => ~About(awaited, r.from[1])

\* As long as nothing happens behind the back of the holder of the lock, all is
\* about one pod: it has the lock, it is the only one that is pending, the
\* kubelet waits for the one handler that runs, and that one has read this pod.
Releasing == {"release", "releaseFailed"}
Alone(h) ==
  LET p == Asked(h)[1] IN
  /\ awaited = h /\ nodeLock = p
  /\ phase[p] = "allocating" <=> call[h].pc \notin Releasing
  /\ phase[p] # "none"
  /\ call[h].pc # "list" /\ call[h].pc \notin Releasing => call[h].current = p
  /\ call[h].pc = "release" => call[h].current = p
  /\ call[h].pc \in {"success", "release"} => Len(Need[p]) = 1
  /\ call[h].pc \in Chosen \/ (call[h].pc = "next" /\ ~call[h].joined) => served[p] = 0
Locked ==
  LockWorks =>
    /\ OnePending /\ RightPod
    /\ \A h \in Call : Asks(h) => Alone(h)
    /\ \A p \in Pod :
         /\ served[p] > 0 => joined[p]
         /\ phase[p] \in {"success", "failed"} /\ admission[p] = "waiting" =>
              awaited # NoCall /\ Asked(awaited)[1] = p

Inv == TypeOK /\ AskedOk /\ Annotations /\ Copies /\ HandedOut /\ Locked
-----------------------------------------------------------------------------
(* The operators                                                           *)

LEMMA SmallestExists ==
  ASSUME NEW S \in SUBSET Nat, S # {}
  PROVE  Min(S) \in S /\ \A i \in S : Min(S) <= i
<1>1. IsWellFoundedOn(OpToRel(<, Nat), Nat)
  BY NatLessThanWellFounded
<1>2. PICK m \in S : \A i \in S : ~(<<i, m>> \in OpToRel(<, Nat))
  BY <1>1, WFMin
<1>3. ASSUME NEW i \in S PROVE m <= i
  <2>1. ~(i < m)
    BY <1>2 DEF OpToRel
  <2> QED
    BY <2>1
<1> QED
  BY <1>3 DEF Min

\* The first request of a pod is the next one, and erasing it leaves the others.
LEMMA NeedFacts ==
  ASSUME NEW p \in Pod
  PROVE  /\ Need[p] \in Seq(Nat) /\ Len(Need[p]) \in Nat \ {0} /\ 1 \in DOMAIN Need[p]
         /\ DOMAIN Need[p] = 1..Len(Need[p])
         /\ NextIdx(Need[p]) = 1
         /\ Erased(Need[p]) \in Seq(Nat) /\ Len(Erased(Need[p])) = Len(Need[p])
         /\ Left(Erased(Need[p])) = {} => Len(Need[p]) = 1
         /\ Len(Need[p]) = 1 => Left(Erased(Need[p])) = {}
<1> DEFINE s == Need[p]
<1>1. s \in Seq(Nat \ {0}) /\ s # <<>>
  BY VgpuAllocationAssumption DEF VgpuAllocationAssumption
<1>2. s \in Seq(Nat) /\ Len(s) \in Nat \ {0} /\ DOMAIN s = 1..Len(s)
  BY <1>1
<1>3. \A i \in 1..Len(s) : s[i] \in Nat /\ s[i] > 0
  BY <1>1
<1>4. Left(s) = 1..Len(s)
  BY <1>2, <1>3 DEF Left
<1>5. NextIdx(s) = 1
  <2>1. 1..Len(s) \in SUBSET Nat /\ 1 \in 1..Len(s)
    BY <1>2
  <2>2. Min(1..Len(s)) \in 1..Len(s) /\ Min(1..Len(s)) <= 1
    BY <2>1, SmallestExists
  <2>3. Min(1..Len(s)) = 1
    BY <1>2, <2>2
  <2> QED
    BY <1>4, <2>3 DEF NextIdx
<1>6. Erased(s) = [s EXCEPT ![1] = 0]
  BY <1>5 DEF Erased
<1>7. Erased(s) \in Seq(Nat) /\ Len(Erased(s)) = Len(s) /\ DOMAIN Erased(s) = 1..Len(s)
  BY <1>2, <1>6
<1>8. Erased(s)[1] = 0 /\ \A i \in 2..Len(s) : Erased(s)[i] = s[i]
  BY <1>2, <1>6
<1>9. Left(Erased(s)) = 2..Len(s)
  <2>1. \A i \in 1..Len(s) : Erased(s)[i] > 0 <=> i # 1
    BY <1>2, <1>3, <1>8
  <2> QED
    BY <1>2, <1>7, <2>1 DEF Left
<1> HIDE DEF s
<1>10. 2..Len(s) = {} <=> Len(s) = 1
  BY <1>2
<1> QED
  BY <1>2, <1>5, <1>7, <1>9, <1>10 DEF s

\* GetPendingPod returns a pod that is marked, if any is bound.
LEMMA PendingFacts ==
  ASSUME TypeOK
  PROVE  /\ GetPendingPod # NoPod => GetPendingPod \in Pod /\ IsPending(GetPendingPod)
         /\ (\E i \in DOMAIN bound : IsPending(bound[i])) => GetPendingPod # NoPod
<1> DEFINE pending == {i \in DOMAIN bound : IsPending(bound[i])}
<1>1. DOMAIN bound \in SUBSET Nat /\ \A i \in DOMAIN bound : bound[i] \in Pod
  BY DEF TypeOK
<1>2. CASE pending = {}
  BY <1>2 DEF GetPendingPod
<1>3. CASE pending # {}
  <2>1. Min(pending) \in pending
    BY <1>1, <1>3, SmallestExists
  <2>2. GetPendingPod = bound[Min(pending)]
    BY <1>3 DEF GetPendingPod
  <2> QED
    BY <1>1, <2>1, <2>2, VgpuAllocationAssumption DEF VgpuAllocationAssumption
<1> QED
  BY <1>2, <1>3

-----------------------------------------------------------------------------
(* What a step does to the handlers and to the kubelet                     *)

\* Handler h goes on with its call.
GoesOn(h) ==
  /\ Asks(h) /\ UNCHANGED kubeletVars
  /\ call' = [call EXCEPT ![h] = call'[h]]
  /\ call'[h].pc # "idle" /\ call'[h].asked = call[h].asked

LEMMA HandlerSteps ==
  ASSUME TypeOK, NEW h \in Call, Plugin(h) \/ Fails(h)
  PROVE  /\ Asks(h)
         /\ \/ GoesOn(h) \/ Reject({h}) \/ Reject(Call)
            \/ Respond(h) /\ call[h].pc \in Erasing
<1> USE DEF Asks, TypeOK
<1>1. ASSUME NEW l, call[h].pc # "idle", l # "idle", Goto(h, l), UNCHANGED kubeletVars
      PROVE  GoesOn(h)
  BY <1>1 DEF GoesOn, Goto
<1>2. CASE ListPods(h)
  BY <1>2 DEF ListPods, GoesOn
<1>3. CASE ListPodsFails(h) \/ WriteFiles(h) \/ TrySuccessDone(h) \/ PatchSuccess(h)
  BY <1>1, <1>3 DEF ListPodsFails, WriteFiles, TrySuccessDone, PatchSuccess
<1>4. CASE Erase(h) \/ EraseFails(h) \/ PatchFailed(h)
  BY <1>1, <1>4 DEF Erase, EraseFails, PatchFailed
<1>5. CASE NextDeviceRequest(h)
  BY <1>1, <1>5 DEF NextDeviceRequest
<1>6. CASE DecodeDies(h) \/ WriteFilesFails(h) \/ ReleaseFailed(h)
  BY <1>6 DEF DecodeDies, WriteFilesFails, ReleaseFailed
<1>7. CASE TrySuccessLeft(h) \/ Release(h)
  BY <1>7 DEF TrySuccessLeft, Release, Chosen, Erasing
<1> QED
  BY <1>2, <1>3, <1>4, <1>5, <1>6, <1>7 DEF Plugin, Fails

\* Every step is one of a handler or one of these five.
LEMMA Steps ==
  ASSUME [Next]_vars
  PROVE  \/ \E h \in Call : Plugin(h) \/ Fails(h)
         \/ Crash \/ KubeletRestarts \/ UNCHANGED vars
         \/ \E p \in Pod : Bind(p) \/ Allocate(p)
BY DEF Next

LEMMA AskedStep ==
  ASSUME TypeOK, AskedOk, Annotations, [Next]_vars
  PROVE  AskedOk'
<1> USE DEF TypeOK, AskedOk, Asks, Asked
<1>1. ASSUME NEW h \in Call, GoesOn(h) PROVE AskedOk'
  BY <1>1 DEF GoesOn, kubeletVars
<1>2. ASSUME NEW hs \in SUBSET Call, Reject(hs) PROVE AskedOk'
  BY <1>2, VgpuAllocationAssumption DEF VgpuAllocationAssumption, Reject, Idle
<1>3. ASSUME NEW h \in Call, Asks(h), Respond(h) PROVE AskedOk'
  <2>1. CASE awaited # h
    BY <1>3, <2>1 DEF Respond, Idle, kubeletVars
  <2>2. CASE awaited = h
    <3> DEFINE p == Asked(h)[1]
    <3>1. p \in Pod /\ admission[p] = "waiting" /\ awaited # NoCall
      BY <1>3, <2>2, VgpuAllocationAssumption DEF VgpuAllocationAssumption
    <3>2. /\ awaited' = NoCall /\ served' = [served EXCEPT ![p] = @ + 1]
          /\ admission' = [admission EXCEPT ![p] = IF served'[p] = Len(Need[p]) THEN "admitted" ELSE @]
          /\ call' = [call EXCEPT ![h] = Idle]
      BY <1>3, <2>2 DEF Respond
    <3>3. ASSUME NEW q \in Pod, admission'[q] = "waiting" PROVE served'[q] < Len(Need[q])
      <4>1. served[q] < Len(Need[q]) /\ served[q] \in Nat /\ Len(Need[q]) \in Nat
        BY <3>1, <3>2, <3>3, NeedFacts
      <4> QED
        BY <3>1, <3>2, <3>3, <4>1
    <3> QED
      BY <3>2, <3>3 DEF Idle
  <2> QED
    BY <2>1, <2>2
<1>4. ASSUME NEW h \in Call, Plugin(h) \/ Fails(h) PROVE AskedOk'
  BY <1>1, <1>2, <1>3, <1>4, HandlerSteps
<1>5. CASE Crash
  BY <1>2, <1>5 DEF Crash
<1>6. CASE KubeletRestarts
  BY <1>6 DEF KubeletRestarts
<1>7. ASSUME NEW p \in Pod, Bind(p) PROVE AskedOk'
  BY <1>7 DEF Bind, kubeletVars
<1>8. ASSUME NEW p \in Pod, Allocate(p) PROVE AskedOk'
  <2>1. awaited' \in IdleCalls /\ IdleCalls \subseteq Call
    BY <1>8 DEF Allocate, IdleCalls
  <2>2. /\ call' = [call EXCEPT ![awaited'] = [Idle EXCEPT !.pc = "list", !.asked = <<p, served[p] + 1>>]]
        /\ admission[p] = "waiting" /\ UNCHANGED <<admission, served>>
    BY <1>8 DEF Allocate
  <2>3. /\ call'[awaited'].pc = "list" /\ call'[awaited'].asked = <<p, served[p] + 1>>
        /\ \A h \in Call : h # awaited' => call'[h] = call[h]
    BY <2>1, <2>2 DEF Idle
  <2>4. served[p] + 1 \in DOMAIN Need[p]
    BY <2>2, NeedFacts
  <2> QED
    BY <2>1, <2>2, <2>3, <2>4
<1>9. CASE UNCHANGED vars
  BY <1>9 DEF vars, kubeletVars
<1> QED
  BY <1>4, <1>5, <1>6, <1>7, <1>8, <1>9, Steps

-----------------------------------------------------------------------------
(* The annotations, the handlers' copies, and what has been handed out     *)

LEMMA AnnotationsStep ==
  ASSUME TypeOK, Annotations, Copies, [Next]_vars
  PROVE  Annotations'
<1> USE DEF TypeOK, Annotations, Untouched
<1>1. ASSUME UNCHANGED <<phase, bound, toAllocate, joined>> PROVE Annotations'
  BY <1>1
<1>2. ASSUME NEW h \in Call, Erase(h) \/ EraseFails(h) PROVE Annotations'
  <2>1. CASE PatchErased(h) /\ UNCHANGED <<phase, bound>>
    <3> DEFINE p == call[h].current
    <3>1. p \in Pod /\ phase[p] # "none" /\ call[h].requests = Need[p]
      BY <1>2 DEF Copies, CopyOk, Chosen, Erase, EraseFails
    <3>2. toAllocate' = [toAllocate EXCEPT ![p] = Erased(Need[p])] /\ joined' = [joined EXCEPT ![p] = TRUE]
      BY <2>1, <3>1 DEF PatchErased
    <3> HIDE DEF p
    <3> QED
      BY <2>1, <3>1, <3>2
  <2> QED
    BY <1>1, <1>2, <2>1 DEF Erase, EraseFails
<1>3. ASSUME NEW h \in Call, PatchSuccess(h) \/ PatchFailed(h) PROVE Annotations'
  <2>1. \A p \in Pod : phase[p] # "none" <=> phase'[p] # "none"
    BY <1>3 DEF PatchSuccess, PatchFailed, Copies, CopyOk, Chosen
  <2> QED
    BY <1>3, <2>1 DEF PatchSuccess, PatchFailed
<1>4. ASSUME NEW h \in Call, Plugin(h) \/ Fails(h) PROVE Annotations'
  BY <1>1, <1>2, <1>3, <1>4 DEF Plugin, Fails, clusterVars, ListPods, ListPodsFails,
     NextDeviceRequest, DecodeDies, WriteFiles, WriteFilesFails, TrySuccessLeft, TrySuccessDone,
     Release, ReleaseFailed
<1>5. CASE Crash \/ KubeletRestarts \/ UNCHANGED vars
  BY <1>1, <1>5 DEF Crash, KubeletRestarts, vars, clusterVars
<1>6. ASSUME NEW p \in Pod, Allocate(p) PROVE Annotations'
  BY <1>1, <1>6 DEF Allocate, clusterVars
<1>7. ASSUME NEW p \in Pod, Bind(p) PROVE Annotations'
  <2>1. /\ phase[p] = "none" /\ phase' = [phase EXCEPT ![p] = "allocating"]
        /\ toAllocate' = [toAllocate EXCEPT ![p] = Need[p]] /\ UNCHANGED joined
        /\ bound' = Append(bound, p)
    BY <1>7 DEF Bind
  <2>2. /\ \A i \in DOMAIN bound : i \in DOMAIN bound' /\ bound'[i] = bound[i]
        /\ \E i \in DOMAIN bound' : bound'[i] = p
    <3>1. /\ DOMAIN bound = 1..Len(bound) /\ DOMAIN bound' = 1..Len(bound) + 1
          /\ Len(bound) \in Nat /\ bound'[Len(bound) + 1] = p
          /\ \A i \in 1..Len(bound) : bound'[i] = bound[i]
      BY <2>1, AppendProperties
    <3>2. Len(bound) + 1 \in DOMAIN bound'
      BY ONLY <3>1
    <3>3. \A i \in DOMAIN bound : i \in DOMAIN bound'
      BY ONLY <3>1
    <3> QED
      BY ONLY <3>1, <3>2, <3>3
  <2>3. ASSUME NEW q \in Pod, phase[q] # "none" PROVE \E i \in DOMAIN bound' : bound'[i] = q
    BY <2>2, <2>3
  <2> QED
    BY <2>1, <2>2, <2>3
<1> QED
  BY <1>4, <1>5, <1>6, <1>7, Steps

\* A pod that is marked stays marked, and what is joined stays so.
LEMMA Monotone ==
  ASSUME TypeOK, Copies, [Next]_vars
  PROVE  /\ \A p \in Pod : phase[p] # "none" => phase'[p] # "none"
         /\ \A p \in Pod : joined[p] => joined'[p]
<1> USE DEF TypeOK
<1>1. ASSUME NEW h \in Call, Erase(h) \/ EraseFails(h) PROVE UNCHANGED phase /\ \A p \in Pod : joined[p] => joined'[p]
  BY <1>1 DEF Erase, EraseFails, PatchErased
<1>2. ASSUME NEW h \in Call, PatchSuccess(h) \/ PatchFailed(h)
      PROVE  UNCHANGED joined /\ \A p \in Pod : phase[p] # "none" => phase'[p] # "none"
  BY <1>2 DEF PatchSuccess, PatchFailed
<1>3. ASSUME NEW p \in Pod, Bind(p)
      PROVE  UNCHANGED joined /\ \A q \in Pod : phase[q] # "none" => phase'[q] # "none"
  BY <1>3 DEF Bind
<1>4. ASSUME NEW h \in Call, Plugin(h) \/ Fails(h)
      PROVE  \/ UNCHANGED <<phase, joined>> \/ Erase(h) \/ EraseFails(h) \/ PatchSuccess(h) \/ PatchFailed(h)
  BY <1>4 DEF Plugin, Fails, clusterVars, ListPods, ListPodsFails,
     NextDeviceRequest, DecodeDies, WriteFiles, WriteFilesFails, TrySuccessLeft, TrySuccessDone,
     Release, ReleaseFailed
<1>5. ASSUME NEW p \in Pod, Allocate(p) PROVE UNCHANGED <<phase, joined>>
  BY <1>5 DEF Allocate, clusterVars
<1>6. CASE Crash \/ KubeletRestarts \/ UNCHANGED vars
  BY <1>6 DEF Crash, KubeletRestarts, vars, clusterVars
<1> QED
  BY <1>1, <1>2, <1>3, <1>4, <1>5, <1>6, Steps

\* A handler chooses a request only from a copy that is whole, and it is the
\* first one; from a copy that the plugin has written, none is left or nothing
\* can be read.
LEMMA ChosenRequest ==
  ASSUME TypeOK, Copies, NEW g \in Call, NextDeviceRequest(g), call'[g].pc = "erase"
  PROVE  /\ call[g].pc = "next" /\ Goto(g, "erase")
         /\ call[g].current \in Pod /\ ~call[g].joined
         /\ call[g].requests = Need[call[g].current]
         /\ Need[call[g].current][1] = AskedCount(g)
<1> DEFINE s == call[g].requests
           p == call[g].current
<1> USE DEF TypeOK
<1>1. call[g].pc = "next" /\ Decodable(g)
  BY DEF NextDeviceRequest
<1>2. Left(s) # {} /\ s[NextIdx(s)] = AskedCount(g) /\ Goto(g, "erase")
  BY DEF NextDeviceRequest, Goto
<1>3. p \in Pod
  BY <1>1, <1>2 DEF Copies, CopyOk, Left
<1>4. s = IF call[g].joined THEN Erased(Need[p]) ELSE Need[p]
  BY <1>1, <1>3, VgpuAllocationAssumption
     DEF VgpuAllocationAssumption, Copies, CopyOk, Untouched
<1>5. ~call[g].joined
  <2>1. SUFFICES ASSUME call[g].joined PROVE FALSE
    OBVIOUS
  <2>2. s = Erased(Need[p]) /\ ~(Len(s) > 1)
    BY <1>1, <1>4, <2>1 DEF Decodable
  <2>3. /\ Len(Need[p]) \in Nat \ {0} /\ Len(Erased(Need[p])) = Len(Need[p])
        /\ Len(Need[p]) = 1 => Left(Erased(Need[p])) = {}
    BY <1>3, NeedFacts
  <2>4. ~(Len(Need[p]) > 1)
    BY ONLY <2>2, <2>3
  <2>5. Len(Need[p]) = 1
    <3>1. \A n \in Nat \ {0} : ~(n > 1) => n = 1
      BY ONLY TRUE
    <3> QED
      BY ONLY <2>3, <2>4, <3>1, Zenon
  <2> QED
    BY ONLY <1>2, <2>2, <2>3, <2>5
<1>6. NextIdx(Need[p]) = 1
  BY <1>3, NeedFacts
<1> QED
  BY <1>1, <1>2, <1>3, <1>4, <1>5, <1>6

LEMMA CopiesStep ==
  ASSUME TypeOK, AskedOk, Annotations, Copies, [Next]_vars
  PROVE  Copies'
<1> USE DEF TypeOK
<1> SUFFICES ASSUME NEW g \in Call PROVE CopyOk(g)'
  BY DEF Copies
<1>1. ASSUME call'[g] = call[g] PROVE CopyOk(g)'
  BY <1>1, Monotone DEF Copies, CopyOk, AskedCount, Asked, Chosen, Erasing
<1>2. ASSUME call'[g] = Idle PROVE CopyOk(g)'
  BY <1>2 DEF CopyOk, Idle, Chosen, Erasing
<1>3. ASSUME NEW hs \in SUBSET Call, Reject(hs) PROVE CopyOk(g)'
  BY <1>1, <1>2, <1>3 DEF Reject
<1>4. ASSUME NEW h \in Call, Respond(h) PROVE CopyOk(g)'
  BY <1>1, <1>2, <1>4 DEF Respond
<1>5. ASSUME NEW h \in Call, GoesOn(h), h # g PROVE CopyOk(g)'
  BY <1>1, <1>5 DEF GoesOn
<1>6. ASSUME NEW l, Goto(g, l), l \notin Chosen \cup {"list", "next"} PROVE CopyOk(g)'
  <2>1. call'[g].pc = l /\ call'[g].current = call[g].current
    BY <1>6 DEF Goto
  <2>2. call[g].current # NoPod => phase'[call[g].current] # "none"
    BY Monotone DEF Copies, CopyOk
  <2> QED
    BY <1>6, <2>1, <2>2 DEF CopyOk, Erasing
<1>7. ASSUME NEW l, Goto(g, l), call[g].pc \in Chosen, l \in Chosen,
             l \in Erasing => joined'[call[g].current]
      PROVE  CopyOk(g)'
  BY <1>7, Monotone DEF Goto, Copies, CopyOk, AskedCount, Asked, Chosen, Erasing
<1>8. CASE ListPods(g)
  <2> DEFINE p == GetPendingPod
  <2>1. CASE p = NoPod
    <3>1. call'[g].pc = "next" /\ call'[g].current = NoPod /\ call'[g].requests = <<>>
      BY <1>8, <2>1 DEF ListPods, Copies, CopyOk
    <3> QED
      BY <3>1 DEF CopyOk, Chosen, Erasing
  <2>2. CASE p # NoPod
    <3>1. p \in Pod /\ phase[p] = "allocating"
      BY <2>2, PendingFacts DEF IsPending
    <3>2. /\ call'[g].pc = "next" /\ call'[g].current = p /\ call'[g].requests = toAllocate[p]
          /\ call'[g].joined = joined[p] /\ UNCHANGED <<phase, joined>>
      BY <1>8, <2>2 DEF ListPods, clusterVars
    <3>3. Untouched(p, toAllocate[p], joined[p])
      BY <3>1 DEF Annotations
    <3> HIDE DEF p
    <3> QED
      BY <3>1, <3>2, <3>3, VgpuAllocationAssumption
         DEF VgpuAllocationAssumption, CopyOk, Chosen, Erasing, Untouched
  <2> QED
    BY <2>1, <2>2
<1>9. CASE NextDeviceRequest(g)
  <2>1. CASE call'[g].pc = "erase"
    <3> DEFINE p == call[g].current
    <3>1. /\ call[g].pc = "next" /\ Goto(g, "erase") /\ p \in Pod /\ ~call[g].joined
          /\ call[g].requests = Need[p] /\ Need[p][1] = AskedCount(g)
      BY <1>9, <2>1, ChosenRequest
    <3>2. /\ call'[g].pc = "erase" /\ call'[g].current = p /\ call'[g].requests = Need[p]
          /\ call'[g].asked = call[g].asked
      BY <3>1 DEF Goto
    <3>3. p # NoPod /\ phase'[p] # "none"
      BY <3>1, Monotone, VgpuAllocationAssumption
         DEF VgpuAllocationAssumption, Copies, CopyOk
    <3>4. AskedCount(g)' = AskedCount(g)
      BY <3>2 DEF AskedCount, Asked
    <3> HIDE DEF p
    <3> QED
      BY <3>1, <3>2, <3>3, <3>4 DEF CopyOk, Chosen, Erasing
  <2>2. CASE call'[g].pc # "erase"
    <3>1. Goto(g, "failed")
      BY <1>9, <2>2 DEF NextDeviceRequest, Goto
    <3> QED
      BY <1>6, <3>1 DEF Chosen
  <2> QED
    BY <2>1, <2>2
<1>10. CASE Erase(g)
  <2>1. call[g].pc \in Chosen /\ call[g].current \in Pod
    BY <1>10 DEF Erase, Chosen, Copies, CopyOk
  <2>2. joined'[call[g].current]
    BY <1>10, <2>1 DEF Erase, PatchErased
  <2> QED
    BY <1>7, <1>10, <2>1, <2>2 DEF Erase, Chosen
<1>11. CASE WriteFiles(g) \/ TrySuccessDone(g) \/ PatchSuccess(g)
  <2>1. call[g].pc \in Erasing /\ UNCHANGED joined
    BY <1>11 DEF WriteFiles, TrySuccessDone, PatchSuccess, Erasing, Chosen, clusterVars
  <2>2. joined'[call[g].current]
    BY <2>1 DEF Copies, CopyOk
  <2> QED
    BY <1>7, <1>11, <2>1, <2>2 DEF WriteFiles, TrySuccessDone, PatchSuccess, Erasing, Chosen
<1>12. CASE ListPodsFails(g) \/ EraseFails(g) \/ PatchFailed(g)
  BY <1>6, <1>12 DEF ListPodsFails, EraseFails, PatchFailed, Chosen
<1>13. CASE DecodeDies(g) \/ WriteFilesFails(g) \/ ReleaseFailed(g)
  BY <1>3, <1>13 DEF DecodeDies, WriteFilesFails, ReleaseFailed
<1>14. CASE TrySuccessLeft(g) \/ Release(g)
  BY <1>4, <1>14 DEF TrySuccessLeft, Release
<1>15. ASSUME NEW h \in Call, Plugin(h) \/ Fails(h) PROVE CopyOk(g)'
  <2>1. CASE h = g
    BY <1>8, <1>9, <1>10, <1>11, <1>12, <1>13, <1>14, <1>15, <2>1 DEF Plugin, Fails
  <2>2. CASE h # g
    BY <1>3, <1>4, <1>5, <1>15, <2>2, HandlerSteps
  <2> QED
    BY <2>1, <2>2
<1>16. CASE Crash
  BY <1>3, <1>16 DEF Crash
<1>17. CASE KubeletRestarts \/ UNCHANGED vars
  BY <1>1, <1>17 DEF KubeletRestarts, vars
<1>18. ASSUME NEW p \in Pod, Bind(p) PROVE CopyOk(g)'
  BY <1>1, <1>18 DEF Bind
<1>19. ASSUME NEW p \in Pod, Allocate(p) PROVE CopyOk(g)'
  <2>1. call'[g] = call[g] \/ call'[g] = [Idle EXCEPT !.pc = "list", !.asked = <<p, served[p] + 1>>]
    BY <1>19 DEF Allocate
  <2>2. CASE call'[g] = [Idle EXCEPT !.pc = "list", !.asked = <<p, served[p] + 1>>]
    <3>1. call'[g].pc = "list" /\ call'[g].current = NoPod /\ call'[g].requests = <<>>
      BY <2>2 DEF Idle
    <3> QED
      BY <3>1 DEF CopyOk, Chosen, Erasing
  <2> QED
    BY <1>1, <2>1, <2>2
<1> QED
  BY <1>15, <1>16, <1>17, <1>18, <1>19, Steps

LEMMA HandedStep ==
  ASSUME TypeOK, AskedOk, Copies, HandedOut, [Next]_vars
  PROVE  HandedOut'
<1> USE DEF TypeOK
<1>1. ASSUME UNCHANGED responses,
             awaited' # NoCall => \A p \in Pod : joined[p] /\ ~About(awaited, p) => ~About(awaited, p)',
             awaited' # NoCall => awaited' = awaited
      PROVE  HandedOut'
  <2>1. ASSUME NEW r \in responses PROVE joined'[r.from[1]] /\ (awaited' # NoCall => ~About(awaited, r.from[1])')
    BY <1>1, <2>1, Monotone DEF HandedOut
  <2>2. HandedOutOnce'
    BY <1>1 DEF HandedOut, HandedOutOnce
  <2> QED
    BY <1>1, <2>1, <2>2 DEF HandedOut
<1>2. ASSUME NEW h \in Call, GoesOn(h), Plugin(h) \/ Fails(h) PROVE HandedOut'
  <2>1. UNCHANGED <<responses, awaited>>
    BY <1>2 DEF GoesOn, kubeletVars
  <2>2. CASE awaited = h
    <3>1. SUFFICES ASSUME NEW p \in Pod, joined[p], ~About(h, p) PROVE ~About(h, p)'
      <4>1. (\A p \in Pod : joined[p] /\ ~About(h, p) => ~About(h, p)') =>
              (\A p \in Pod : joined[p] /\ ~About(awaited, p) => ~About(awaited, p)')
        BY <2>1, <2>2 DEF About
      <4> QED
        BY <1>1, <2>1, <4>1
    <3>2. CASE ListPods(h)
      <4>1. CASE GetPendingPod = NoPod
        <5>1. call'[h].current = NoPod
          BY <3>2, <4>1 DEF ListPods, Copies, CopyOk
        <5> QED
          BY <5>1, VgpuAllocationAssumption DEF VgpuAllocationAssumption, About
      <4>2. CASE GetPendingPod # NoPod
        <5>1. /\ call'[h].current = GetPendingPod /\ call'[h].joined = joined[GetPendingPod]
              /\ call'[h].pc = "next"
          BY <3>2, <4>2, PendingFacts DEF ListPods
        <5> QED
          BY <3>1, <5>1 DEF About, Chosen
      <4> QED
        BY <4>1, <4>2
    <3>3. CASE NextDeviceRequest(h)
      <4>1. CASE call'[h].pc = "erase"
        <5>1. call[h].pc = "next" /\ ~call[h].joined /\ call'[h].current = call[h].current
          BY <3>3, <4>1, ChosenRequest DEF Goto
        <5> QED
          BY <3>1, <5>1 DEF About
      <4>2. CASE call'[h].pc # "erase"
        BY <3>3, <4>2 DEF NextDeviceRequest, Goto, About, Chosen
      <4> QED
        BY <4>1, <4>2
    <3>4. CASE Erase(h) \/ WriteFiles(h) \/ TrySuccessDone(h) \/ PatchSuccess(h)
      BY <3>1, <3>4 DEF Erase, WriteFiles, TrySuccessDone, PatchSuccess, Goto, About, Chosen
    <3>5. CASE ListPodsFails(h) \/ EraseFails(h) \/ PatchFailed(h)
      BY <3>5 DEF ListPodsFails, EraseFails, PatchFailed, Goto, About, Chosen
    <3>6. CASE call'[h].pc = "idle"
      BY <1>2, <3>6 DEF GoesOn
    <3>7. ASSUME NEW hs \in SUBSET Call, h \in hs, Reject(hs) PROVE call'[h].pc = "idle"
      BY <3>7 DEF Reject, Idle
    <3>8. CASE Respond(h)
      BY <3>6, <3>8 DEF Respond, Idle
    <3> QED
      BY <1>2, <3>2, <3>3, <3>4, <3>5, <3>6, <3>7, <3>8 DEF Plugin, Fails, DecodeDies,
         WriteFilesFails, ReleaseFailed, TrySuccessLeft, Release
  <2>3. CASE awaited # h
    <3>1. awaited \in Call => call'[awaited] = call[awaited]
      BY <1>2, <2>3 DEF GoesOn
    <3>2. awaited' # NoCall => \A p \in Pod : ~About(awaited, p) => ~About(awaited, p)'
      BY <2>1, <3>1 DEF About
    <3> QED
      BY <1>1, <2>1, <3>2
  <2> QED
    BY <2>2, <2>3
<1>3. ASSUME NEW hs \in SUBSET Call, Reject(hs) PROVE HandedOut'
  <2>1. CASE awaited \in hs
    BY <1>1, <1>3, <2>1 DEF Reject
  <2>2. CASE awaited \notin hs
    <3>1. UNCHANGED <<responses, awaited>> /\ (awaited \in Call => call'[awaited] = call[awaited])
      BY <1>3, <2>2 DEF Reject
    <3>2. awaited' # NoCall => \A p \in Pod : ~About(awaited, p) => ~About(awaited, p)'
      BY <3>1 DEF About
    <3> QED
      BY <1>1, <3>1, <3>2
  <2> QED
    BY <2>1, <2>2
<1>4. ASSUME NEW h \in Call, Respond(h), call[h].pc \in Erasing PROVE HandedOut'
  <2>1. CASE awaited # h
    <3>1. UNCHANGED <<responses, awaited>> /\ (awaited \in Call => call'[awaited] = call[awaited])
      BY <1>4, <2>1 DEF Respond, kubeletVars
    <3>2. awaited' # NoCall => \A p \in Pod : ~About(awaited, p) => ~About(awaited, p)'
      BY <3>1 DEF About
    <3> QED
      BY <1>1, <3>1, <3>2
  <2>2. CASE awaited = h
    <3> DEFINE p == call[h].current
               new == [to |-> Asked(h), from |-> <<p, NextIdx(call[h].requests)>>]
    <3>1. /\ p \in Pod /\ joined[p] /\ call[h].requests = Need[p]
          /\ Need[p][1] = AskedCount(h)
      BY <1>4 DEF Copies, CopyOk, Chosen, Erasing
    <3>2. Asked(h) \in Pod \X Nat
      BY <1>4 DEF AskedOk, Asks, Chosen, Erasing
    <3>3. responses' = responses \cup {new} /\ awaited' = NoCall
      BY <1>4, <2>2 DEF Respond
    <3>4. new.to = Asked(h) /\ new.from = <<p, 1>>
      BY <3>1, NeedFacts
    <3>5. \A r \in responses' :
            /\ r.to \in Pod \X Nat /\ r.from[1] \in Pod /\ r.from[2] = 1
            /\ joined[r.from[1]]
            /\ Need[r.to[1]][r.to[2]] = Need[r.from[1]][1]
      <4> SUFFICES ASSUME NEW r \in responses'
                   PROVE  /\ r.to \in Pod \X Nat /\ r.from[1] \in Pod /\ r.from[2] = 1
                          /\ joined[r.from[1]]
                          /\ Need[r.to[1]][r.to[2]] = Need[r.from[1]][1]
        OBVIOUS
      <4>1. CASE r \in responses
        BY <4>1 DEF HandedOut
      <4>2. CASE r = new
        BY <3>1, <3>2, <3>4, <4>2 DEF AskedCount, Asked
      <4> QED
        BY <3>3, <4>1, <4>2
    <3>6. HandedOutOnce'
      <4>1. About(h, p) /\ awaited # NoCall
        BY <1>4, <2>2, VgpuAllocationAssumption DEF VgpuAllocationAssumption, About, Erasing
      <4>2. \A r \in responses : r.from[1] # p
        BY <2>2, <4>1 DEF HandedOut
      <4>3. \A r \in responses : r.from # new.from
        BY <3>4, <4>2
      <4> QED
        BY <3>3, <4>3 DEF HandedOut, HandedOutOnce
    <3> QED
      BY <3>3, <3>5, <3>6, Monotone DEF HandedOut
  <2> QED
    BY <2>1, <2>2
<1>5. ASSUME NEW h \in Call, Plugin(h) \/ Fails(h) PROVE HandedOut'
  BY <1>2, <1>3, <1>4, <1>5, HandlerSteps
<1>6. CASE Crash
  BY <1>3, <1>6 DEF Crash
<1>7. CASE KubeletRestarts
  BY <1>1, <1>7 DEF KubeletRestarts
<1>8. CASE UNCHANGED vars
  <2>1. UNCHANGED <<responses, awaited, call>>
    BY <1>8 DEF vars, kubeletVars
  <2> QED
    BY <1>1, <2>1 DEF About
<1>9. ASSUME NEW p \in Pod, Bind(p) PROVE HandedOut'
  <2>1. UNCHANGED <<responses, awaited, call>>
    BY <1>9 DEF Bind, kubeletVars
  <2> QED
    BY <1>1, <2>1 DEF About
<1>10. ASSUME NEW p \in Pod, Allocate(p) PROVE HandedOut'
  <2>1. awaited' \in Call /\ call'[awaited'].pc = "list" /\ UNCHANGED responses
    BY <1>10 DEF Allocate, IdleCalls, Idle
  <2>2. HandedOutOnce'
    BY <2>1 DEF HandedOut, HandedOutOnce
  <2> QED
    BY <2>1, <2>2, Monotone DEF HandedOut, About, Chosen
<1> QED
  BY <1>2, <1>5, <1>6, <1>7, <1>8, <1>9, <1>10, Steps

-----------------------------------------------------------------------------
(* The lock                                                                *)

\* What has gone wrong is not forgotten.
LEMMA MishapsStay == [Next]_vars => mishaps \subseteq mishaps'
<1> SUFFICES ASSUME [Next]_vars PROVE mishaps \subseteq mishaps'
  OBVIOUS
<1>1. UNCHANGED mishaps \/ (\E m : Happens(m)) => mishaps \subseteq mishaps'
  BY DEF Happens
<1>2. ASSUME NEW h \in Call, Plugin(h) \/ Fails(h) PROVE UNCHANGED mishaps \/ \E m : Happens(m)
  BY <1>2 DEF Plugin, Fails, AllWell, ListPods, ListPodsFails, NextDeviceRequest,
     DecodeDies, Erase, EraseFails, WriteFiles, WriteFilesFails, TrySuccessLeft, TrySuccessDone,
     PatchSuccess, PatchFailed, Release, ReleaseFailed, ReleaseNodeLock
<1>3. CASE Crash \/ KubeletRestarts \/ UNCHANGED vars
  BY <1>1, <1>3 DEF Crash, KubeletRestarts, vars
<1>4. ASSUME NEW p \in Pod, Bind(p) \/ Allocate(p) PROVE UNCHANGED mishaps \/ \E m : Happens(m)
  BY <1>4 DEF Bind, Allocate, AllWell
<1> QED
  BY <1>1, <1>2, <1>3, <1>4, Steps

\* While the lock works, none of these happens.
LEMMA NoMishap ==
  ASSUME LockWorks', NEW m, Happens(m)
  PROVE  m \notin {"api", "expiry", "restart", "plain"}
BY DEF LockWorks, Happens

\* The handler that runs is the only one.
LEMMA OnlyHandler ==
  ASSUME Inv, LockWorks, NEW h \in Call, Asks(h)
  PROVE  LET p == Asked(h)[1] IN
         /\ Alone(h) /\ p \in Pod /\ nodeLock = p /\ awaited = h /\ awaited # NoCall
         /\ Asked(h) = <<p, served[p] + 1>> /\ admission[p] = "waiting"
         /\ \A g \in Call \ {h} : call[g].pc = "idle"
         /\ \A q \in Pod : phase[q] = "allocating" => q = p
         /\ \A q \in Pod : phase[q] \in {"success", "failed"} /\ admission[q] = "waiting" => q = p
<1> DEFINE p == Asked(h)[1]
<1>1. Alone(h) /\ awaited = h /\ nodeLock = p /\ \A g \in Call \ {h} : ~Asks(g)
  BY DEF Inv, Locked, Alone
<1>2. p \in Pod /\ awaited # NoCall
  BY <1>1, VgpuAllocationAssumption DEF VgpuAllocationAssumption, Inv, AskedOk
<1>3. Asked(h) = <<p, served[p] + 1>> /\ admission[p] = "waiting"
  BY <1>1, <1>2 DEF Inv, AskedOk
<1>4. \A q \in Pod : phase[q] = "allocating" => q = p
  BY <1>1 DEF Inv, Locked, OnePending
<1>5. \A q \in Pod : phase[q] \in {"success", "failed"} /\ admission[q] = "waiting" => q = p
  BY <1>1 DEF Inv, Locked
<1> QED
  BY <1>1, <1>2, <1>3, <1>4, <1>5 DEF Asks

\* A step in which it goes on keeps the lock in order if it is alone afterwards.
LEMMA LockedGoesOn ==
  ASSUME Inv, LockWorks, [Next]_vars, NEW h \in Call, GoesOn(h), nodeLock' = nodeLock,
         \A q \in Pod : q # Asked(h)[1] => phase'[q] = phase[q],
         Alone(h)'
  PROVE  Locked'
<1> DEFINE p == Asked(h)[1]
<1>1. Asks(h) /\ UNCHANGED <<awaited, admission, served, responses>> /\ Asked(h)' = Asked(h)
  BY DEF GoesOn, kubeletVars, Asked
<1>2. \A g \in Call \ {h} : call'[g] = call[g]
  BY DEF GoesOn, Inv, TypeOK
<1>3. OnePending'
  BY <1>1, OnlyHandler DEF OnePending
<1>4. RightPod'
  BY <1>1 DEF Inv, Locked, RightPod
<1>5. \A g \in Call : Asks(g)' => Alone(g)'
  BY <1>1, <1>2, OnlyHandler DEF Asks
<1>6. ASSUME NEW q \in Pod
      PROVE  /\ served'[q] > 0 => joined'[q]
             /\ phase'[q] \in {"success", "failed"} /\ admission'[q] = "waiting" =>
                  awaited' # NoCall /\ Asked(awaited)'[1] = q
  <2>1. served'[q] > 0 => joined'[q]
    BY <1>1, Monotone DEF Inv, Locked
  <2>2. CASE q = p
    <3>1. awaited' = h /\ awaited' # NoCall /\ Asked(awaited)' = Asked(h)
      BY <1>1, OnlyHandler DEF Asked
    <3> QED
      BY <2>1, <2>2, <3>1
  <2>3. CASE q # p
    BY <1>1, <2>1, <2>3, OnlyHandler
  <2> QED
    BY <2>2, <2>3
<1> QED
  BY <1>3, <1>4, <1>5, <1>6 DEF Locked

\* A step with which it ends does so if the pod is then not pending without the
\* lock, and not done but still waiting.
LEMMA LockedEnds ==
  ASSUME Inv, LockWorks, NEW h \in Call, Asks(h), UNCHANGED <<phase, joined>>,
         RightPod', \A g \in Call : ~Asks(g)',
         \A q \in Pod : q # Asked(h)[1] => admission'[q] = admission[q] /\ served'[q] = served[q],
         \/ nodeLock' = nodeLock
         \/ nodeLock' = NoPod /\ phase[Asked(h)[1]] # "allocating",
         \/ phase[Asked(h)[1]] = "allocating"
         \/ admission'[Asked(h)[1]] # "waiting",
         served'[Asked(h)[1]] > 0 => joined[Asked(h)[1]]
  PROVE  Locked'
<1> DEFINE p == Asked(h)[1]
<1>1. OnePending'
  BY OnlyHandler DEF OnePending
<1>2. ASSUME NEW q \in Pod
      PROVE  /\ served'[q] > 0 => joined'[q]
             /\ ~(phase'[q] \in {"success", "failed"} /\ admission'[q] = "waiting")
  BY OnlyHandler DEF Inv, Locked
<1> QED
  BY <1>1, <1>2 DEF Locked

LEMMA LockedStep ==
  ASSUME Inv, [Next]_vars
  PROVE  Locked'
<1> USE DEF TypeOK
<1> SUFFICES ASSUME LockWorks' PROVE Locked'
  BY DEF Locked
<1>1. LockWorks
  BY MishapsStay DEF LockWorks
<1>2. TypeOK /\ AskedOk /\ Annotations /\ Copies /\ Locked
  BY DEF Inv
<1>3. ASSUME NEW h \in Call, Plugin(h) \/ Fails(h) PROVE Locked'
  <2> DEFINE p == Asked(h)[1]
  <2>1. Asks(h)
    BY <1>2, <1>3, HandlerSteps
  <2>2. /\ Alone(h) /\ p \in Pod /\ nodeLock = p /\ awaited = h
        /\ Asked(h) = <<p, served[p] + 1>> /\ admission[p] = "waiting"
        /\ served[p] \in Nat
    BY <1>1, <1>2, <2>1, OnlyHandler
  <2>3. ASSUME NEW l, Goto(h, l), l # "idle", UNCHANGED <<nodeLock, kubeletVars, phase>>,
               Alone(h)'
        PROVE  Locked'
    <3>1. call'[h].pc = l /\ call'[h].asked = call[h].asked /\ call' = [call EXCEPT ![h] = call'[h]]
      BY <1>2, <2>3 DEF Goto
    <3>2. GoesOn(h)
      BY <2>1, <2>3, <3>1 DEF GoesOn
    <3> QED
      BY <1>1, <2>3, <3>2, LockedGoesOn
  <2> USE DEF Alone, Asked, Releasing
  <2>4. CASE ListPods(h)
    <3>1. call[h].pc = "list" /\ UNCHANGED <<nodeLock, phase, kubeletVars>>
      BY <2>4 DEF ListPods, clusterVars
    <3>2. \E i \in DOMAIN bound : IsPending(bound[i])
      BY <1>2, <2>2, <3>1 DEF Annotations, IsPending
    <3>3. GetPendingPod = p
      BY <1>1, <1>2, <2>1, <3>2, PendingFacts, OnlyHandler DEF IsPending
    <3>4. /\ call' = [call EXCEPT ![h] = call'[h]] /\ call'[h].pc = "next"
          /\ call'[h].asked = call[h].asked /\ call'[h].current = p /\ call'[h].joined = joined[p]
      BY <1>2, <2>2, <2>4, <3>3, VgpuAllocationAssumption DEF VgpuAllocationAssumption, ListPods
    <3>5. ~joined[p] => served[p] = 0
      BY <1>1, <1>2, <2>2 DEF Locked
    <3>6. GoesOn(h)
      BY <2>1, <3>1, <3>4 DEF GoesOn
    <3>7. Alone(h)'
      BY <2>2, <3>1, <3>4, <3>5 DEF kubeletVars, Chosen
    <3> QED
      BY <1>1, <3>1, <3>6, <3>7, LockedGoesOn
  <2>5. CASE NextDeviceRequest(h)
    <3>1. call[h].pc = "next" /\ UNCHANGED <<nodeLock, phase, kubeletVars>>
      BY <2>5 DEF NextDeviceRequest, clusterVars
    <3>2. CASE call'[h].pc = "erase"
      <4>1. Goto(h, "erase") /\ ~call[h].joined
        BY <1>2, <2>5, <3>2, ChosenRequest
      <4>2. Alone(h)'
        BY <1>2, <2>2, <3>1, <4>1 DEF Goto, kubeletVars, Chosen
      <4> QED
        BY <2>3, <3>1, <4>1, <4>2
    <3>3. CASE call'[h].pc # "erase"
      <4>1. Goto(h, "failed")
        BY <1>2, <2>5, <3>3 DEF NextDeviceRequest, Goto
      <4>2. Alone(h)'
        BY <1>2, <2>2, <3>1, <4>1 DEF Goto, kubeletVars, Chosen
      <4> QED
        BY <2>3, <3>1, <4>1, <4>2
    <3> QED
      BY <3>2, <3>3
  <2>6. CASE Erase(h)
    <3>1. call[h].pc = "erase" /\ Goto(h, "write") /\ UNCHANGED <<nodeLock, phase, kubeletVars>>
      BY <2>6 DEF Erase
    <3>2. Alone(h)'
      BY <1>2, <2>2, <3>1 DEF Goto, kubeletVars, Chosen
    <3> QED
      BY <2>3, <3>1, <3>2
  <2>7. CASE WriteFiles(h)
    <3>1. call[h].pc = "write" /\ Goto(h, "try") /\ UNCHANGED <<nodeLock, phase, kubeletVars>>
      BY <2>7 DEF WriteFiles, clusterVars
    <3>2. Alone(h)'
      BY <1>2, <2>2, <3>1 DEF Goto, kubeletVars, Chosen
    <3> QED
      BY <2>3, <3>1, <3>2
  <2>8. CASE TrySuccessDone(h)
    <3>1. call[h].pc = "try" /\ Goto(h, "success") /\ UNCHANGED <<nodeLock, phase, kubeletVars>>
      BY <2>8 DEF TrySuccessDone, clusterVars
    <3>2. Left(toAllocate[p]) = {}
      BY <2>2, <2>8, <3>1, NoMishap DEF TrySuccessDone
    <3>3. toAllocate[p] = Erased(Need[p])
      BY <1>2, <2>2, <3>1 DEF Annotations, Copies, CopyOk, Untouched, Chosen, Erasing
    <3>4. Len(Need[p]) = 1
      BY <2>2, <3>2, <3>3, NeedFacts
    <3>5. Alone(h)'
      BY <1>2, <2>2, <3>1, <3>4 DEF Goto, kubeletVars, Chosen
    <3> QED
      BY <2>3, <3>1, <3>5
  <2>9. CASE PatchSuccess(h)
    <3>1. call[h].pc = "success" /\ call[h].current = p
          /\ Goto(h, "release") /\ UNCHANGED <<nodeLock, kubeletVars>>
      BY <2>2, <2>9 DEF PatchSuccess
    <3>2. phase' = [phase EXCEPT ![p] = "success"]
      BY <2>9, <3>1, NoMishap DEF PatchSuccess
    <3>3. Alone(h)'
      BY <1>2, <2>2, <3>1, <3>2 DEF Goto, kubeletVars, Chosen
    <3>4. GoesOn(h)
      BY <1>2, <3>1 DEF GoesOn, Goto, Asks
    <3>5. \A q \in Pod : q # p => phase'[q] = phase[q]
      BY <1>2, <3>2
    <3> QED
      BY <1>1, <3>1, <3>3, <3>4, <3>5, LockedGoesOn
  <2>10. CASE PatchFailed(h)
    <3>1. call[h].pc = "failed" /\ call[h].current = p
          /\ Goto(h, "releaseFailed") /\ UNCHANGED <<nodeLock, kubeletVars>>
      BY <2>2, <2>10 DEF PatchFailed
    <3>2. phase' = [phase EXCEPT ![p] = "failed"]
      BY <2>2, <2>10, <3>1, NoMishap, VgpuAllocationAssumption
         DEF VgpuAllocationAssumption, PatchFailed
    <3>3. Alone(h)'
      BY <1>2, <2>2, <3>1, <3>2 DEF Goto, kubeletVars, Chosen
    <3>4. GoesOn(h)
      BY <1>2, <3>1 DEF GoesOn, Goto, Asks
    <3>5. \A q \in Pod : q # p => phase'[q] = phase[q]
      BY <1>2, <3>2
    <3> QED
      BY <1>1, <3>1, <3>3, <3>4, <3>5, LockedGoesOn
  <2>11. ASSUME Respond(h), call[h].pc \in Erasing, UNCHANGED <<phase, joined>>,
                \/ nodeLock' = nodeLock /\ phase[p] = "allocating"
                \/ nodeLock' = NoPod /\ call[h].pc = "release"
         PROVE  Locked'
    <3>1. /\ call[h].current = p /\ joined[p] /\ call[h].requests = Need[p] /\ served[p] = 0
      BY <1>2, <2>2, <2>11 DEF Copies, CopyOk, Chosen, Erasing
    <3>2. /\ responses' = responses \cup {[to |-> Asked(h), from |-> <<p, NextIdx(Need[p])>>]}
          /\ served' = [served EXCEPT ![p] = @ + 1]
          /\ admission' = [admission EXCEPT ![p] = IF served'[p] = Len(Need[p]) THEN "admitted" ELSE @]
          /\ call' = [call EXCEPT ![h] = Idle]
      BY <2>2, <2>11, <3>1 DEF Respond
    <3>3. RightPod'
      <4>1. Asked(h) = <<p, NextIdx(Need[p])>>
        BY <2>2, <3>1, NeedFacts
      <4>2. \A r \in responses : r.to = r.from
        BY <1>1, <1>2 DEF Locked, RightPod
      <4>3. \A r \in responses' : r.to = r.from
        BY ONLY <3>2, <4>1, <4>2
      <4> QED
        BY <4>3 DEF RightPod
    <3>4. \A g \in Call : ~Asks(g)'
      BY <1>1, <1>2, <2>1, <3>2, OnlyHandler DEF Asks, Idle
    <3>5. \A q \in Pod : q # p => admission'[q] = admission[q] /\ served'[q] = served[q]
      BY <1>2, <3>2
    <3>6. phase[p] = "allocating" \/ admission'[p] # "waiting"
      <4>1. SUFFICES ASSUME call[h].pc = "release" PROVE admission'[p] # "waiting"
        BY <2>11
      <4>2. Len(Need[p]) = 1 /\ served'[p] = 1
        BY <1>2, <2>2, <3>1, <3>2, <4>1
      <4> QED
        BY <1>2, <2>2, <3>2, <4>2
    <3>7. nodeLock' = nodeLock \/ (nodeLock' = NoPod /\ phase[p] # "allocating")
      BY <2>2, <2>11
    <3> QED
      BY <1>1, <2>1, <2>11, <3>1, <3>3, <3>4, <3>5, <3>6, <3>7, LockedEnds
  <2>12. CASE TrySuccessLeft(h)
    <3>1. Respond(h) /\ call[h].pc = "try" /\ UNCHANGED <<phase, joined, nodeLock>>
      BY <2>12 DEF TrySuccessLeft, clusterVars
    <3> QED
      BY <2>2, <2>11, <3>1 DEF Chosen, Erasing
  <2>13. ASSUME NEW hs \in SUBSET Call, h \in hs, Reject(hs), UNCHANGED <<phase, joined>>,
                \/ nodeLock' = nodeLock
                \/ nodeLock' = NoPod /\ phase[p] # "allocating"
         PROVE  Locked'
    <3>1. /\ admission' = [admission EXCEPT ![p] = "rejected"] /\ UNCHANGED <<served, responses>>
          /\ call' = [g \in Call |-> IF g \in hs THEN Idle ELSE call[g]]
      BY <2>2, <2>13 DEF Reject
    <3>2. \A g \in Call : ~Asks(g)'
      BY <1>1, <1>2, <2>1, <2>13, <3>1, OnlyHandler DEF Asks, Idle
    <3>3. RightPod' /\ (served'[p] > 0 => joined[p])
      BY <1>1, <1>2, <2>2, <3>1 DEF Locked, RightPod
    <3>4. \A q \in Pod : q # p => admission'[q] = admission[q] /\ served'[q] = served[q]
      BY <1>2, <3>1
    <3>5. admission'[p] # "waiting"
      BY <1>2, <2>2, <3>1
    <3> QED
      BY <1>1, <2>1, <2>13, <3>2, <3>3, <3>4, <3>5, LockedEnds
  <2>14. CASE Release(h) \/ ReleaseFailed(h)
    <3>1. nodeLock' = NoPod /\ UNCHANGED <<phase, joined>>
      BY <2>14, NoMishap DEF Release, ReleaseFailed, ReleaseNodeLock
    <3>2. phase[p] # "allocating"
      BY <2>2, <2>14 DEF Release, ReleaseFailed
    <3>3. CASE Release(h)
      BY <2>11, <3>1, <3>3 DEF Release, Chosen, Erasing
    <3>4. CASE ReleaseFailed(h)
      BY <2>13, <3>1, <3>2, <3>4 DEF ReleaseFailed
    <3> QED
      BY <2>14, <3>3, <3>4
  <2>15. CASE DecodeDies(h) \/ WriteFilesFails(h)
    BY <2>13, <2>15 DEF DecodeDies, WriteFilesFails, clusterVars
  <2>16. CASE ListPodsFails(h) \/ EraseFails(h)
    BY <2>16, NoMishap DEF ListPodsFails, EraseFails
  <2> QED
    BY <1>3, <2>4, <2>5, <2>6, <2>7, <2>8, <2>9, <2>10, <2>12, <2>14, <2>15, <2>16
       DEF Plugin, Fails
<1>4. CASE Crash
  <2>1. PICK h \in Call : Asks(h)
    BY <1>4 DEF Crash, Asks
  <2>2. Reject(Call) /\ UNCHANGED <<nodeLock, phase, joined>>
    BY <1>4 DEF Crash, clusterVars
  <2> DEFINE p == Asked(h)[1]
  <2>3. p \in Pod /\ awaited = h
    BY <1>1, <2>1, OnlyHandler
  <2>4. /\ admission' = [admission EXCEPT ![p] = "rejected"] /\ UNCHANGED <<served, responses>>
        /\ \A g \in Call : call'[g] = Idle
    BY <2>2, <2>3 DEF Reject
  <2>5. (\A g \in Call : ~Asks(g)') /\ RightPod' /\ (served'[p] > 0 => joined[p])
    BY <1>1, <1>2, <2>3, <2>4 DEF Asks, Idle, Locked, RightPod
  <2>6. admission'[p] # "waiting" /\ \A q \in Pod : q # p => admission'[q] = admission[q] /\ served'[q] = served[q]
    BY <1>2, <2>3, <2>4
  <2> QED
    BY <1>1, <2>1, <2>2, <2>5, <2>6, LockedEnds
<1>5. CASE KubeletRestarts
  BY <1>5, NoMishap DEF KubeletRestarts
<1>6. CASE UNCHANGED vars
  BY <1>2, <1>6 DEF vars, clusterVars, kubeletVars, Locked, OnePending, RightPod, Asks, Alone, Asked, LockWorks
<1>7. ASSUME NEW p \in Pod, Bind(p) PROVE Locked'
  <2>1. /\ nodeLock = NoPod /\ nodeLock' = p /\ phase[p] = "none"
        /\ phase' = [phase EXCEPT ![p] = "allocating"]
        /\ UNCHANGED <<joined, admission, served, awaited, responses, call>>
    BY <1>7, NoMishap DEF Bind, kubeletVars
  <2>2. \A h \in Call : ~Asks(h)
    BY <1>1, <2>1, OnlyHandler, VgpuAllocationAssumption DEF VgpuAllocationAssumption
  <2>3. \A q \in Pod : phase[q] # "allocating"
    BY <1>1, <1>2, <2>1, VgpuAllocationAssumption DEF VgpuAllocationAssumption, Locked, OnePending
  <2>4. OnePending' /\ RightPod'
    BY <1>1, <1>2, <2>1, <2>3 DEF Locked, OnePending, RightPod
  <2>5. \A h \in Call : ~Asks(h)'
    BY <2>1, <2>2 DEF Asks
  <2>6. ASSUME NEW q \in Pod, phase'[q] \in {"success", "failed"}, admission'[q] = "waiting"
        PROVE  awaited' # NoCall /\ Asked(awaited)'[1] = q
    BY <1>1, <1>2, <2>1, <2>6 DEF Locked, Asked
  <2>7. \A q \in Pod : served'[q] > 0 => joined'[q]
    BY <1>1, <1>2, <2>1 DEF Locked
  <2> QED
    BY <2>4, <2>5, <2>6, <2>7 DEF Locked
<1>8. ASSUME NEW p \in Pod, Allocate(p) PROVE Locked'
  <2>1. /\ awaited = NoCall /\ admission[p] = "waiting" /\ phase[p] # "none"
        /\ UNCHANGED <<nodeLock, phase, joined, admission, served, responses>>
    BY <1>8, NoMishap DEF Allocate, clusterVars
  <2>2. \A h \in Call : ~Asks(h)
    BY <1>1, <2>1, OnlyHandler
  <2>3. \A q \in Pod : ~(phase[q] \in {"success", "failed"} /\ admission[q] = "waiting")
    BY <1>1, <1>2, <2>1 DEF Locked
  <2>4. phase[p] = "allocating" /\ nodeLock = p
    BY <1>1, <1>2, <2>1, <2>3 DEF Locked, OnePending
  <2>5. /\ awaited' \in Call /\ call'[awaited'].pc = "list"
        /\ call'[awaited'].asked = <<p, served[p] + 1>>
        /\ \A h \in Call : h # awaited' => call'[h] = call[h]
    BY <1>2, <1>8 DEF Allocate, IdleCalls, Idle
  <2>6. ASSUME NEW h \in Call, Asks(h)' PROVE Alone(h)'
    <3>1. h = awaited'
      BY <2>2, <2>5, <2>6 DEF Asks
    <3> QED
      BY <2>1, <2>4, <2>5, <3>1 DEF Alone, Asked, Releasing, Chosen
  <2>7. OnePending' /\ RightPod' /\ \A q \in Pod : served'[q] > 0 => joined'[q]
    BY <1>1, <1>2, <2>1 DEF Locked, OnePending, RightPod
  <2> QED
    BY <2>1, <2>3, <2>6, <2>7 DEF Locked
<1> QED
  BY <1>3, <1>4, <1>5, <1>6, <1>7, <1>8, Steps

-----------------------------------------------------------------------------
(* Types and theorems                                                      *)

\* The type of a handler.
CallType ==
  [pc : {"idle", "list", "next", "erase", "write", "try", "success",
         "failed", "release", "releaseFailed"},
   asked : {<<>>} \cup (Pod \X Nat), current : Pod \cup {NoPod},
   requests : Seq(Nat), joined : BOOLEAN]

LEMMA HandlerTypes ==
  ASSUME NEW c \in CallType
  PROVE  /\ \A l \in {"next", "erase", "write", "try", "success", "failed", "release", "releaseFailed"} :
              [c EXCEPT !.pc = l] \in CallType
         /\ \A p \in Pod, s \in Seq(Nat), j \in BOOLEAN :
              [c EXCEPT !.pc = "next", !.current = p, !.requests = s, !.joined = j] \in CallType
         /\ \A a \in {<<>>} \cup (Pod \X Nat) : [c EXCEPT !.pc = "list", !.asked = a] \in CallType
<1>2. ASSUME NEW a \in {<<>>} \cup (Pod \X Nat)
      PROVE  [c EXCEPT !.pc = "list", !.asked = a] \in CallType
  BY DEF CallType
<1>3. ASSUME NEW l \in {"next", "erase", "write", "try", "success", "failed", "release", "releaseFailed"}
      PROVE  [c EXCEPT !.pc = l] \in CallType
  BY DEF CallType
<1>4. ASSUME NEW p \in Pod, NEW s \in Seq(Nat), NEW j \in BOOLEAN
      PROVE  [c EXCEPT !.pc = "next", !.current = p, !.requests = s, !.joined = j] \in CallType
  BY DEF CallType
<1> QED
  BY <1>2, <1>3, <1>4

LEMMA ClusterTypes ==
  ASSUME Inv, [Next]_vars, Annotations'
  PROVE  /\ nodeLock' \in Pod \cup {NoPod}
         /\ phase' \in [Pod -> {"none", "allocating", "success", "failed"}]
         /\ bound' \in Seq(Pod)
         /\ toAllocate' \in [Pod -> Seq(Nat)]
         /\ \A p \in Pod : phase'[p] # "none" => Len(toAllocate'[p]) = Len(Need[p])
         /\ joined' \in [Pod -> BOOLEAN]
<1> DEFINE T == /\ nodeLock' \in Pod \cup {NoPod}
                /\ phase' \in [Pod -> {"none", "allocating", "success", "failed"}]
                /\ bound' \in Seq(Pod)
                /\ toAllocate' \in [Pod -> Seq(Nat)]
                /\ joined' \in [Pod -> BOOLEAN]
<1>1. TypeOK /\ Copies
  BY DEF Inv
<1> USE <1>1 DEF TypeOK
<1>2. CASE UNCHANGED clusterVars
  BY <1>2 DEF clusterVars
<1>3. ASSUME NEW p \in Pod, Bind(p) PROVE T
  <2>1. Need[p] \in Seq(Nat) /\ Append(bound, p) \in Seq(Pod)
    BY NeedFacts, AppendProperties
  <2> QED
    BY <1>3, <2>1 DEF Bind
<1>4. ASSUME NEW h \in Call, Erase(h) \/ EraseFails(h) PROVE T
  <2>1. call[h].requests \in Seq(Nat) /\ call[h].current \in Pod /\ Erased(call[h].requests) \in Seq(Nat)
    <3>1. call[h].current \in Pod /\ call[h].requests = Need[call[h].current]
      BY <1>4 DEF Erase, EraseFails, Copies, CopyOk, Chosen
    <3> QED
      BY <3>1, NeedFacts
  <2>2. CASE PatchErased(h)
    BY <1>4, <2>1, <2>2 DEF PatchErased, Erase, EraseFails
  <2>3. CASE UNCHANGED <<toAllocate, joined>>
    BY <1>4, <2>3 DEF Erase, EraseFails
  <2> QED
    BY <1>4, <2>2, <2>3 DEF Erase, EraseFails
<1>5. ASSUME NEW h \in Call, PatchSuccess(h) \/ PatchFailed(h) PROVE T
  BY <1>5 DEF PatchSuccess, PatchFailed
<1>6. ASSUME NEW h \in Call, Release(h) \/ ReleaseFailed(h) PROVE T
  BY <1>6 DEF Release, ReleaseFailed, ReleaseNodeLock
<1>7. ASSUME NEW h \in Call, Plugin(h) \/ Fails(h) PROVE T
  BY <1>2, <1>4, <1>5, <1>6, <1>7 DEF Plugin, Fails, TrySuccessLeft, TrySuccessDone, ListPods,
     ListPodsFails, NextDeviceRequest, DecodeDies, WriteFiles, WriteFilesFails
<1>8. CASE Crash \/ KubeletRestarts \/ UNCHANGED vars
  BY <1>2, <1>8 DEF Crash, KubeletRestarts, vars
<1>9. ASSUME NEW p \in Pod, Allocate(p) PROVE UNCHANGED clusterVars
  BY <1>9 DEF Allocate
<1>10. T
  BY <1>2, <1>3, <1>7, <1>8, <1>9, Steps
<1>11. ASSUME NEW p \in Pod, phase'[p] # "none" PROVE Len(toAllocate'[p]) = Len(Need[p])
  BY <1>11, NeedFacts DEF Annotations, Untouched
<1> QED
  BY <1>10, <1>11

LEMMA KubeletTypes ==
  ASSUME Inv, [Next]_vars
  PROVE  /\ admission' \in [Pod -> {"waiting", "admitted", "rejected"}]
         /\ served' \in [Pod -> Nat] /\ \A p \in Pod : served'[p] <= Len(Need[p])
         /\ awaited' \in Call \cup {NoCall}
         /\ call' \in [Call -> CallType]
         /\ responses' \subseteq [to : Pod \X Nat, from : Pod \X Nat]
<1> DEFINE T == /\ admission' \in [Pod -> {"waiting", "admitted", "rejected"}]
                /\ served' \in [Pod -> Nat] /\ \A p \in Pod : served'[p] <= Len(Need[p])
                /\ awaited' \in Call \cup {NoCall}
                /\ responses' \subseteq [to : Pod \X Nat, from : Pod \X Nat]
<1>1. TypeOK /\ AskedOk /\ Copies /\ call \in [Call -> CallType]
  BY DEF Inv, TypeOK, CallType
<1> USE <1>1 DEF TypeOK
<1>2. Idle \in CallType
  BY DEF Idle, CallType
<1>3. ASSUME UNCHANGED kubeletVars PROVE T
  BY <1>3 DEF kubeletVars
<1>4. ASSUME NEW hs \in SUBSET Call, Reject(hs) PROVE T /\ call' \in [Call -> CallType]
  <2>1. call' \in [Call -> CallType]
    BY <1>2, <1>4 DEF Reject
  <2>2. T
    BY <1>4 DEF Reject
  <2> QED
    BY <2>1, <2>2
<1>5. ASSUME NEW h \in Call, Respond(h), call[h].pc \in Erasing PROVE T /\ call' \in [Call -> CallType]
  <2>1. call' \in [Call -> CallType]
    BY <1>2, <1>5 DEF Respond
  <2>2. CASE awaited = h
    <3> DEFINE p == Asked(h)[1]
    <3>1. Asked(h) \in Pod \X Nat /\ served[p] < Len(Need[p])
      BY <1>5, <2>2, VgpuAllocationAssumption
         DEF VgpuAllocationAssumption, AskedOk, Asks, Chosen, Erasing
    <3>2. Len(Need[p]) \in Nat /\ served[p] \in Nat /\ p \in Pod
      BY <3>1, NeedFacts
    <3>3. /\ served' = [served EXCEPT ![p] = @ + 1] /\ awaited' = NoCall
          /\ admission' = [admission EXCEPT ![p] = IF served'[p] = Len(Need[p]) THEN "admitted" ELSE @]
          /\ responses' = responses \cup
               {[to |-> Asked(h), from |-> <<call[h].current, NextIdx(call[h].requests)>>]}
      BY <1>5, <2>2 DEF Respond
    <3>4. served' \in [Pod -> Nat] /\ \A q \in Pod : served'[q] <= Len(Need[q])
      BY <3>1, <3>2, <3>3
    <3>5. call[h].current \in Pod /\ NextIdx(call[h].requests) = 1
      <4>1. call[h].current # NoPod /\ call[h].requests = Need[call[h].current]
        BY <1>5 DEF Copies, CopyOk, Chosen, Erasing
      <4>2. call[h].current \in Pod
        BY <4>1
      <4> QED
        BY <4>1, <4>2, NeedFacts
    <3> QED
      BY <2>1, <3>1, <3>2, <3>3, <3>4, <3>5
  <2> QED
    BY <1>3, <1>5, <2>1, <2>2 DEF Respond
<1>6. ASSUME NEW h \in Call, Plugin(h) \/ Fails(h), GoesOn(h) PROVE T /\ call' \in [Call -> CallType]
  <2>1. call'[h] \in CallType
    <3>1. ASSUME NEW l \in {"next", "erase", "write", "try", "success", "failed", "release", "releaseFailed"},
                 Goto(h, l)
          PROVE  call'[h] \in CallType
      <4>1. call[h] \in CallType /\ call'[h] = [call[h] EXCEPT !.pc = l]
        BY <1>1, <3>1 DEF Goto
      <4> QED
        <5> DEFINE c == call[h]
        <5>1. c \in CallType /\ call'[h] = [c EXCEPT !.pc = l]
          BY <4>1
        <5> HIDE DEF c
        <5> QED
          BY ONLY <5>1, <3>1, HandlerTypes
    <3>2. CASE ListPods(h)
      <4> DEFINE q == GetPendingPod
      <4>1. CASE q = NoPod
        <5>1. call'[h] = [call[h] EXCEPT !.pc = "next"]
          BY <1>1, <3>2, <4>1 DEF ListPods
        <5> DEFINE c == call[h]
        <5>2. c \in CallType /\ call'[h] = [c EXCEPT !.pc = "next"]
          BY <1>1, <5>1
        <5> HIDE DEF c
        <5> QED
          BY ONLY <5>2, HandlerTypes
      <4>2. CASE q # NoPod
        <5> DEFINE c == call[h]
                   s == toAllocate[q]
                   j == joined[q]
        <5>1. q \in Pod /\ s \in Seq(Nat) /\ j \in BOOLEAN /\ c \in CallType
          BY <1>1, <4>2, PendingFacts
        <5>2. call'[h] = [c EXCEPT !.pc = "next", !.current = q, !.requests = s, !.joined = j]
          BY <1>1, <3>2, <4>2 DEF ListPods
        <5> HIDE DEF c, q, s, j
        <5>3. [c EXCEPT !.pc = "next", !.current = q, !.requests = s, !.joined = j] \in CallType
          BY ONLY <5>1, HandlerTypes
        <5> QED
          BY <5>2, <5>3
      <4> QED
        BY <4>1, <4>2
    <3>3. CASE Reject({h}) \/ Reject(Call) \/ Respond(h)
      BY <1>6, <1>2, <3>3 DEF Reject, Respond
    <3> QED
      BY <1>6, <3>1, <3>2, <3>3 DEF Plugin, Fails, ListPodsFails, NextDeviceRequest, DecodeDies, Erase,
         EraseFails, WriteFiles, WriteFilesFails, TrySuccessLeft, TrySuccessDone, PatchSuccess,
         PatchFailed, Release, ReleaseFailed
  <2>2. call' \in [Call -> CallType]
    BY <1>6, <2>1 DEF GoesOn
  <2> QED
    BY <1>3, <1>6, <2>2 DEF GoesOn
<1>7. ASSUME NEW h \in Call, Plugin(h) \/ Fails(h) PROVE T /\ call' \in [Call -> CallType]
  BY <1>4, <1>5, <1>6, <1>7, HandlerSteps
<1>8. CASE Crash
  BY <1>4, <1>8 DEF Crash
<1>9. CASE KubeletRestarts
  BY <1>9 DEF KubeletRestarts
<1>10. CASE UNCHANGED vars
  BY <1>10 DEF vars, kubeletVars
<1>11. ASSUME NEW p \in Pod, Bind(p) PROVE T /\ call' \in [Call -> CallType]
  BY <1>3, <1>11 DEF Bind
<1>12. ASSUME NEW p \in Pod, Allocate(p) PROVE T /\ call' \in [Call -> CallType]
  <2>1. awaited' \in Call /\ UNCHANGED <<admission, served, responses>>
    BY <1>12 DEF Allocate, IdleCalls
  <2>2. [Idle EXCEPT !.pc = "list", !.asked = <<p, served[p] + 1>>] \in CallType
    <3> DEFINE c == Idle
               a == <<p, served[p] + 1>>
    <3>1. c \in CallType /\ a \in {<<>>} \cup (Pod \X Nat)
      BY <1>1, <1>2
    <3> HIDE DEF c, a
    <3>2. [c EXCEPT !.pc = "list", !.asked = a] \in CallType
      BY ONLY <3>1, HandlerTypes
    <3> QED
      BY <3>2 DEF c, a
  <2>3. call' \in [Call -> CallType]
    BY <1>12, <2>1, <2>2 DEF Allocate
  <2> QED
    BY <2>1, <2>3
<1> QED
  BY <1>7, <1>8, <1>9, <1>10, <1>11, <1>12, Steps

LEMMA MishapTypes == TypeOK /\ [Next]_vars => mishaps' \subseteq Mishap
<1> SUFFICES ASSUME TypeOK, [Next]_vars PROVE mishaps' \subseteq Mishap
  OBVIOUS
<1>1. UNCHANGED mishaps \/ (\E m \in Mishap : Happens(m)) => mishaps' \subseteq Mishap
  BY DEF Happens, TypeOK
<1> USE DEF Mishap, Fault, AllWell
<1>2. ASSUME NEW h \in Call, Plugin(h) \/ Fails(h) PROVE UNCHANGED mishaps \/ \E m \in Mishap : Happens(m)
  BY <1>2 DEF Plugin, Fails, ListPods, ListPodsFails, NextDeviceRequest,
     DecodeDies, Erase, EraseFails, WriteFiles, WriteFilesFails, TrySuccessLeft, TrySuccessDone,
     PatchSuccess, PatchFailed, Release, ReleaseFailed, ReleaseNodeLock
<1>3. CASE Crash \/ KubeletRestarts \/ UNCHANGED vars
  BY <1>1, <1>3 DEF Crash, KubeletRestarts, vars, TypeOK
<1>4. ASSUME NEW p \in Pod, Bind(p) \/ Allocate(p) PROVE UNCHANGED mishaps \/ \E m \in Mishap : Happens(m)
  BY <1>4 DEF Bind, Allocate
<1> QED
  BY <1>1, <1>2, <1>3, <1>4, Steps

\* The invariant holds initially and is kept by every step.
LEMMA InvInit == Init => Inv
<1> SUFFICES ASSUME Init PROVE Inv
  OBVIOUS
<1> USE VgpuAllocationAssumption DEF VgpuAllocationAssumption, Init
<1>1. TypeOK
  <2>1. Idle \in CallType
    BY DEF Idle, CallType
  <2>2. call \in [Call -> CallType]
    BY <2>1
  <2>3. \A p \in Pod : 0 <= Len(Need[p])
    BY NeedFacts
  <2> QED
    BY <2>2, <2>3 DEF TypeOK, CallType
<1>2. \A p \in Pod : 0 < Len(Need[p])
  BY NeedFacts
<1>3. AskedOk /\ Annotations /\ Copies /\ HandedOut
  BY <1>2 DEF AskedOk, Annotations, Copies, CopyOk, HandedOut, HandedOutOnce, Asks, Idle, Chosen, Erasing
<1>4. Locked
  BY DEF Locked, OnePending, RightPod, Asks, Idle
<1> QED
  BY <1>1, <1>3, <1>4 DEF Inv

LEMMA InvStep == Inv /\ [Next]_vars => Inv'
<1> SUFFICES ASSUME Inv, [Next]_vars PROVE Inv'
  OBVIOUS
<1>1. TypeOK /\ AskedOk /\ Annotations /\ Copies /\ HandedOut
  BY DEF Inv
<1>2. AskedOk' /\ Annotations' /\ Copies' /\ HandedOut'
  BY <1>1, AskedStep, AnnotationsStep, CopiesStep, HandedStep
<1>3. Locked'
  BY LockedStep
<1>4. TypeOK'
  BY <1>1, <1>2, ClusterTypes, KubeletTypes, MishapTypes DEF TypeOK, CallType
<1> QED
  BY <1>2, <1>3, <1>4 DEF Inv

LEMMA AlwaysInv == Spec => []Inv
BY InvInit, InvStep, PTL DEF Spec

\* The variables keep their types: the annotation of a bound pod has an entry
\* for each of its containers, and no pod is served more often than it has
\* containers, whatever fails.
THEOREM TypeCorrect == Spec => []TypeOK
BY AlwaysInv, PTL DEF Inv

\* OnePending: while nothing happens behind the back of its holder, only the pod
\* that has the node lock is pending, whatever dies or cannot be written.
THEOREM OnlyHolderPending == Spec => []OnePending
<1>1. Inv => OnePending
  BY DEF Inv, Locked, OnePending
<1> QED
  BY <1>1, AlwaysInv, PTL

\* RightPod: so every container gets the request that the scheduler wrote for it.
THEOREM OwnRequest == Spec => []RightPod
<1>1. Inv => RightPod
  BY DEF Inv, Locked, RightPod
<1> QED
  BY <1>1, AlwaysInv, PTL

\* HandedOutOnce, with any number of restarts of the kubelet and any number of
\* handlers that nobody waits for: no request is given to two containers. What
\* keeps an abandoned handler from bringing a request back is that no handler
\* chooses from an annotation that was written before (Copies).
THEOREM NoRequestTwice == Spec => []HandedOutOnce
<1>1. Inv => HandedOutOnce
  BY DEF Inv, HandedOut
<1> QED
  BY <1>1, AlwaysInv, PTL

\* CountsMatch: whatever goes wrong, and even when a container gets the devices of
\* another pod, they are as many as the kubelet asked for.
THEOREM AsManyAsAsked == Spec => []CountsMatch
<1>1. Inv => CountsMatch
  BY DEF Inv, HandedOut, CountsMatch
<1> QED
  BY <1>1, AlwaysInv, PTL

\* LockKept: as long as nothing happens behind its back, the lock is taken from a
\* pod only while the kubelet waits for an allocation of that pod.
THEOREM LockOnlyReturned == Spec => LockKept
<1>1. ASSUME Inv, [Next]_vars, LockWorks', nodeLock # NoPod, nodeLock' # nodeLock
      PROVE  awaited # NoCall /\ Asked(awaited)[1] = nodeLock
  <2>1. LockWorks /\ TypeOK
    BY <1>1, MishapsStay DEF LockWorks, Inv
  <2>2. ASSUME NEW h \in Call, Plugin(h) \/ Fails(h)
        PROVE  awaited # NoCall /\ Asked(awaited)[1] = nodeLock
    <3>1. Asks(h)
      BY <2>1, <2>2, HandlerSteps
    <3> QED
      BY <1>1, <2>1, <3>1, OnlyHandler
  <2>3. CASE Crash \/ KubeletRestarts \/ UNCHANGED vars
    BY <1>1, <2>3 DEF Crash, KubeletRestarts, vars, clusterVars
  <2>4. ASSUME NEW p \in Pod, Bind(p) \/ Allocate(p) PROVE FALSE
    BY <1>1, <2>4, NoMishap DEF Bind, Allocate, clusterVars
  <2> QED
    BY <1>1, <2>2, <2>3, <2>4, Steps
<1>2. Inv /\ [Next]_vars =>
        [LockWorks' /\ nodeLock # NoPod /\ nodeLock' # nodeLock
           => awaited # NoCall /\ Asked(awaited)[1] = nodeLock]_vars
  BY <1>1
<1> QED
  BY <1>2, AlwaysInv, PTL DEF Spec, LockKept
=============================================================================
