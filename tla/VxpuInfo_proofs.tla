---------------------------- MODULE VxpuInfo_proofs ----------------------------
(***************************************************************************)
(* Theorems about VxpuInfo, for any pods, containers, devices, pids and    *)
(* assignments that satisfy VxpuInfoAssumption.                            *)
(***************************************************************************)
EXTENDS VxpuInfo, FiniteSetTheorems, WellFoundedInduction, TLAPS

-----------------------------------------------------------------------------
(* The inductive invariant                                                 *)

\* The call of GetAllVxpuInfo in full, of which TypeOK says a part.
CallOk ==
  call \in [pc : {"idle", "files"}, vxpus : SUBSET [ctr : Ctr, gpu : Gpu], unread : SUBSET Ctr,
            pSet : [Ctr -> SUBSET Pid], unsampled : SUBSET Gpu, sampling : SUBSET Gpu,
            processMap : [Gpu -> SUBSET (Pid \X (Ctr \cup {Nobody}))]]

\* A directory is made only for a pod that has been bound, so what the cleaner
\* has listed and then does not find at the API server is gone.
DirsBound ==
  \A c \in Ctr : conf[c] # NoDir \/ c \in allocating => phase[c[1]] # "none"
CleanerOk ==
  \A p \in cleaner.dirs : IF cleaner.pc = "remove" THEN phase[p] = "deleted" ELSE phase[p] # "none"

\* A pid of which nothing was left when it was given out is listed for one
\* container at most, or has samples of it: the one it runs in if it runs.
In(i, c) == i \in conf[c].pids \cup getPids[c].pids \cup call.pSet[c] \/ <<i, c>> \in samples
Owners ==
  \A i \in Pid \ reused : \A c \in Ctr : In(i, c) =>
    owner[i] \in {c, Nobody} /\ \A d \in Ctr : In(i, d) => d = c

\* The devices are asked when all files are read.
Sampled ==
  /\ call.sampling # {} => call.unread = {}
  /\ \A g \in Gpu : \A x \in call.processMap[g] :
       /\ call.unread = {}
       /\ \A c \in Ctr : x[1] \in call.pSet[c] => x[2] = c \/ x[1] \in reused

\* How far the call is with a process that was there all the time.
SteadyOk ==
  \A i \in steady :
    /\ call.pc = "files" /\ i \in Listed
    /\ \A g \in GpusOf(owner[i]) :
         /\ [ctr |-> owner[i], gpu |-> g] \in call.vxpus
         /\ owner[i] \in torn \cup call.unread \/ i \in call.pSet[owner[i]]
         /\ g \in call.unsampled \/ <<i, owner[i]>> \in call.processMap[g]

Inv == TypeOK /\ CallOk /\ DirsBound /\ CleanerOk /\ Owners /\ Sampled /\ SteadyOk

-----------------------------------------------------------------------------
(* GetVxpus for one pod                                                    *)

LEMMA CtrFacts ==
  ASSUME NEW c \in Ctr
  PROVE  /\ c[1] \in Pod /\ c[2] \in 1..Len(Number[c[1]]) /\ Number[c[1]][c[2]] # 0
         /\ c = <<c[1], c[2]>> /\ c # Nobody
<1>1. c \in UNION {{p} \X DOMAIN Number[p] : p \in Pod} /\ Number[c[1]][c[2]] # 0
  BY DEF Ctr
<1>2. PICK p \in Pod : c \in {p} \X DOMAIN Number[p]
  BY <1>1
<1>3. Number[p] \in Seq(Nat)
  BY VxpuInfoAssumption DEF VxpuInfoAssumption
<1>4. c[1] = p /\ c[2] \in DOMAIN Number[p] /\ c = <<c[1], c[2]>>
  BY <1>2
<1>5. c # Nobody
  <2>1. Len(<<c[1], c[2]>>) = 2 /\ Len(<<>>) = 0
    OBVIOUS
  <2> QED
    BY <1>4, <2>1 DEF Nobody
<1>6. c[2] \in 1..Len(Number[c[1]])
  BY <1>3, <1>4
<1> QED
  BY <1>1, <1>4, <1>5, <1>6

LEMMA OrdinalFacts ==
  ASSUME NEW p \in Pod, NEW i \in 1..Len(Number[p])
  PROVE  /\ Ordinal(p, 0) = 0 /\ Ordinal(p, i - 1) \in Nat
         /\ Ordinal(p, i) = IF Number[p][i] # 0 THEN Ordinal(p, i - 1) + 1 ELSE Ordinal(p, i - 1)
<1> DEFINE S(n) == {j \in 1..n : Number[p][j] # 0}
<1>1. i \in Nat /\ i >= 1
  BY VxpuInfoAssumption DEF VxpuInfoAssumption
<1>2. S(0) = {}
  OBVIOUS
<1>3. IsFiniteSet(S(i - 1)) /\ Cardinality(S(i - 1)) \in Nat
  <2>1. IsFiniteSet(1..i - 1)
    BY <1>1, FS_Interval
  <2>2. S(i - 1) \in SUBSET (1..i - 1)
    OBVIOUS
  <2> QED
    BY <2>1, <2>2, FS_Subset, FS_CardinalityType
<1>4. S(i) = IF Number[p][i] # 0 THEN S(i - 1) \cup {i} ELSE S(i - 1)
  <2>1. \A j \in 1..i : j = i \/ j \in 1..i - 1
    BY <1>1
  <2>2. \A j \in 1..i - 1 : j \in 1..i
    BY <1>1
  <2> QED
    BY <1>1, <2>1, <2>2
<1>5. i \notin S(i - 1)
  BY <1>1
<1>6. Cardinality(S(i - 1) \cup {i}) = Cardinality(S(i - 1)) + 1
  BY <1>3, <1>5, FS_AddElement
<1> HIDE DEF S
<1>7. Cardinality(S(i)) = IF Number[p][i] # 0 THEN Cardinality(S(i - 1)) + 1 ELSE Cardinality(S(i - 1))
  BY <1>4, <1>6
<1> QED
  BY <1>2, <1>3, <1>7, FS_EmptySet DEF Ordinal, S

\* Every container with vGPUs takes the entry that GpusOf has for it.
LEMMA PiFacts ==
  ASSUME NEW p \in Pod
  PROVE  \A i \in 0..Len(Number[p]) : Pi(p)[i] = Ordinal(p, i) + 1
<1> DEFINE D == 0..Len(Number[p])
           F(f) == [i \in D |-> IF i = 0 THEN 1
                                ELSE IF Takes(p, i, f[i - 1]) THEN f[i - 1] + 1 ELSE f[i - 1]]
           closed == [i \in D |-> Ordinal(p, i) + 1]
<1>1. Len(Number[p]) \in Nat /\ DOMAIN Number[p] = 1..Len(Number[p])
  BY VxpuInfoAssumption DEF VxpuInfoAssumption
<1>2. ASSUME NEW i \in D, i # 0
      PROVE  /\ i \in 1..Len(Number[p]) /\ i - 1 \in D
             /\ Takes(p, i, Ordinal(p, i - 1) + 1) <=> Number[p][i] # 0
  <2>1. i \in 1..Len(Number[p]) /\ i - 1 \in D
    BY <1>1, <1>2
  <2>2. CASE Number[p][i] # 0
    <3>1. Ordinal(p, i - 1) + 1 = Ordinal(p, i)
      BY <2>1, <2>2, OrdinalFacts
    <3>2. Ordinal(p, i) \in DOMAIN Assigned[p] /\ Len(Assigned[p][Ordinal(p, i)]) = Number[p][i]
      BY <1>1, <2>1, <2>2, VxpuInfoAssumption DEF VxpuInfoAssumption
    <3> QED
      BY <2>1, <2>2, <3>1, <3>2 DEF Takes
  <2> QED
    BY <2>1, <2>2 DEF Takes
<1>3. closed = F(closed)
  <2>1. ASSUME NEW i \in D PROVE closed[i] = F(closed)[i]
    <3>1. CASE i = 0
      <4>1. Cardinality({j \in 1..0 : Number[p][j] # 0}) = 0
        <5>1. {j \in 1..0 : Number[p][j] # 0} = {}
          OBVIOUS
        <5> QED
          BY <5>1, FS_EmptySet
      <4> QED
        BY <3>1, <4>1 DEF Ordinal
    <3>2. CASE i # 0
      <4>1. closed[i - 1] = Ordinal(p, i - 1) + 1 /\ closed[i] = Ordinal(p, i) + 1
        BY <1>2, <3>2
      <4>2. F(closed)[i] = IF Takes(p, i, closed[i - 1]) THEN closed[i - 1] + 1 ELSE closed[i - 1]
        BY <3>2
      <4> HIDE DEF closed, F
      <4>3. F(closed)[i] = IF Number[p][i] # 0 THEN closed[i - 1] + 1 ELSE closed[i - 1]
        BY <1>2, <3>2, <4>1, <4>2
      <4> QED
        BY <1>2, <3>2, <4>1, <4>3, OrdinalFacts
    <3> QED
      BY <3>1, <3>2
  <2> QED
    BY <2>1
<1>4. Pi(p) = CHOOSE f : f = F(f)
  BY DEF Pi
<1> HIDE DEF F, closed
<1>5. Pi(p) = F(Pi(p))
  BY <1>3, <1>4
<1> DEFINE S == {i \in D : Pi(p)[i] # closed[i]}
<1>6. CASE S # {}
  <2>1. IsWellFoundedOn(OpToRel(<, Nat), Nat)
    BY NatLessThanWellFounded
  <2>2. S \in SUBSET Nat
    BY <1>1
  <2>3. PICK i \in S : \A j \in S : ~(<<j, i>> \in OpToRel(<, Nat))
    BY <1>6, <2>1, <2>2, WFMin
  <2>4. i \in D /\ i \in Nat /\ \A j \in S : ~(j < i)
    BY <2>2, <2>3 DEF OpToRel
  <2>5. i # 0 => i - 1 \in D /\ i - 1 \notin S
    BY <1>1, <2>2, <2>4
  <2>6. i # 0 => Pi(p)[i - 1] = closed[i - 1]
    BY <2>5
  <2>7. F(Pi(p))[i] = F(closed)[i]
    BY <2>4, <2>6 DEF F
  <2> QED
    BY <1>3, <1>5, <2>3, <2>7
<1>7. CASE S = {}
  BY <1>7 DEF closed
<1> QED
  BY <1>6, <1>7

LEMMA VxpusFacts ==
  ASSUME NEW p \in Pod
  PROVE  /\ Vxpus(p) \subseteq [ctr : CtrsOf(p), gpu : Gpu]
         /\ \A c \in CtrsOf(p) : \A g \in GpusOf(c) : [ctr |-> c, gpu |-> g] \in Vxpus(p)
<1>1. /\ Number[p] \in Seq(Nat) /\ Assigned[p] \in Seq(Seq(Gpu))
      /\ DOMAIN Number[p] = 1..Len(Number[p]) /\ Len(Number[p]) \in Nat
  BY VxpuInfoAssumption DEF VxpuInfoAssumption
<1>2. ASSUME NEW v \in Vxpus(p) PROVE v \in [ctr : CtrsOf(p), gpu : Gpu]
  <2>1. PICK i \in DOMAIN Number[p] :
          /\ Takes(p, i, Pi(p)[i - 1])
          /\ v \in {[ctr |-> <<p, i>>, gpu |-> g] : g \in ToSet(Assigned[p][Pi(p)[i - 1]])}
    BY <1>2 DEF Vxpus
  <2>2. <<p, i>> \in CtrsOf(p)
    BY <2>1 DEF Takes, CtrsOf, Ctr
  <2> DEFINE a == Assigned[p][Pi(p)[i - 1]]
  <2>3. a \in Seq(Gpu)
    BY <1>1, <2>1 DEF Takes
  <2>4. ToSet(a) \subseteq Gpu
    BY <2>3 DEF ToSet
  <2> QED
    BY <2>1, <2>2, <2>4
<1>3. ASSUME NEW c \in CtrsOf(p), NEW g \in GpusOf(c) PROVE [ctr |-> c, gpu |-> g] \in Vxpus(p)
  <2> DEFINE i == c[2]
  <2>1. c \in Ctr /\ c[1] = p
    BY DEF CtrsOf
  <2>2. c = <<p, i>> /\ i \in 1..Len(Number[p]) /\ Number[p][i] # 0
    BY <2>1, CtrFacts
  <2> HIDE DEF i
  <2>3. i - 1 \in 0..Len(Number[p])
    BY <1>1, <2>2
  <2>4. Pi(p)[i - 1] = Ordinal(p, i)
    BY <2>2, <2>3, PiFacts, OrdinalFacts
  <2>5. Takes(p, i, Ordinal(p, i))
    BY <1>1, <2>2, VxpuInfoAssumption DEF VxpuInfoAssumption, Takes
  <2>6. GpusOf(c) = ToSet(Assigned[p][Ordinal(p, i)])
    BY <2>1 DEF GpusOf, i
  <2>7. i \in {j \in DOMAIN Number[p] : Takes(p, j, Pi(p)[j - 1])}
    BY <1>1, <2>2, <2>4, <2>5
  <2>8. [ctr |-> c, gpu |-> g] \in {[ctr |-> <<p, i>>, gpu |-> h] : h \in ToSet(Assigned[p][Pi(p)[i - 1]])}
    BY <2>2, <2>4, <2>6
  <2> QED
    BY <2>7, <2>8 DEF Vxpus
<1> QED
  BY <1>2, <1>3

LEMMA GpusOfType ==
  ASSUME NEW c \in Ctr
  PROVE  GpusOf(c) \subseteq Gpu
<1>1. c \in CtrsOf(c[1]) /\ c[1] \in Pod
  BY CtrFacts DEF CtrsOf
<1>2. \A g \in GpusOf(c) : [ctr |-> c, gpu |-> g] \in [ctr : CtrsOf(c[1]), gpu : Gpu]
  BY <1>1, VxpusFacts
<1> QED
  BY <1>2

-----------------------------------------------------------------------------
(* Types                                                                   *)

LEMMA CallOfFields ==
  ASSUME NEW x \in {"idle", "files"}, NEW a \in SUBSET [ctr : Ctr, gpu : Gpu], NEW b \in SUBSET Ctr,
         NEW d \in [Ctr -> SUBSET Pid], NEW e \in SUBSET Gpu, NEW h \in SUBSET Gpu,
         NEW f \in [Gpu -> SUBSET (Pid \X (Ctr \cup {Nobody}))],
         call' = [pc |-> x, vxpus |-> a, unread |-> b, pSet |-> d, unsampled |-> e, sampling |-> h,
                  processMap |-> f]
  PROVE  CallOk'
BY DEF CallOk

\* What each step of the call leaves of it, field by field.
LEMMA ReadStep ==
  ASSUME CallOk, NEW c \in Ctr, ReadPidsConfig(c)
  PROVE  /\ call.pc = "files" /\ c \in call.unread
         /\ call' = [pc |-> "files", vxpus |-> call.vxpus, unread |-> call.unread \ {c},
                     pSet |-> [call.pSet EXCEPT ![c] = conf[c].pids],
                     unsampled |-> call.unsampled, sampling |-> call.sampling,
                     processMap |-> call.processMap]
         /\ call'.pc = "files" /\ call'.vxpus = call.vxpus /\ call'.unread = call.unread \ {c}
         /\ call'.pSet = [call.pSet EXCEPT ![c] = conf[c].pids]
         /\ call'.unsampled = call.unsampled /\ call'.sampling = call.sampling
         /\ call'.processMap = call.processMap
<1> DEFINE a == call.vxpus
           b == call.unread
           d == call.pSet
           e == call.unsampled
           h == call.sampling
           f == call.processMap
           x == call.pc
           u == b \ {c}
           s == [d EXCEPT ![c] = conf[c].pids]
<1>1. call = [pc |-> x, vxpus |-> a, unread |-> b, pSet |-> d, unsampled |-> e, sampling |-> h,
                processMap |-> f]
  BY DEF CallOk
<1>2. call' = [call EXCEPT !.unread = u, !.pSet = s] /\ x = "files" /\ c \in b
  BY DEF ReadPidsConfig
<1> HIDE DEF a, b, d, e, f, h, x, u, s
<1>3. call' = [pc |-> "files", vxpus |-> a, unread |-> u, pSet |-> s, unsampled |-> e, sampling |-> h,
                processMap |-> f]
  BY ONLY <1>1, <1>2
<1>4. call'.pc = "files" /\ call'.vxpus = a /\ call'.unread = u /\ call'.pSet = s
      /\ call'.unsampled = e /\ call'.sampling = h /\ call'.processMap = f
  BY ONLY <1>3
<1> QED
  BY ONLY <1>2, <1>3, <1>4 DEF a, b, d, e, f, h, x, u, s

LEMMA ProcessesStep ==
  ASSUME CallOk, NEW g \in Gpu, GetComputeRunningProcesses(g)
  PROVE  /\ call.pc = "files" /\ call.unread = {}
         /\ call' = [pc |-> "files", vxpus |-> call.vxpus, unread |-> call.unread,
                     pSet |-> call.pSet, unsampled |-> call.unsampled \ {g}, sampling |-> {g},
                     processMap |-> [call.processMap EXCEPT ![g] = RunningOn(g)]]
         /\ call'.pc = "files" /\ call'.vxpus = call.vxpus /\ call'.unread = call.unread
         /\ call'.pSet = call.pSet /\ call'.unsampled = call.unsampled \ {g}
         /\ call'.processMap = [call.processMap EXCEPT ![g] = RunningOn(g)]
<1> DEFINE a == call.vxpus
           b == call.unread
           d == call.pSet
           e == call.unsampled
           f == call.processMap
           h == call.sampling
           x == call.pc
           u == e \ {g}
           n == {g}
           s == [f EXCEPT ![g] = RunningOn(g)]
<1>1. call = [pc |-> x, vxpus |-> a, unread |-> b, pSet |-> d, unsampled |-> e, sampling |-> h,
              processMap |-> f]
  BY DEF CallOk
<1>2. call' = [call EXCEPT !.unsampled = u, !.sampling = n, !.processMap = s] /\ x = "files" /\ b = {}
  BY DEF GetComputeRunningProcesses
<1> HIDE DEF a, b, d, e, f, h, x, u, n, s
<1>3. call' = [pc |-> "files", vxpus |-> a, unread |-> b, pSet |-> d, unsampled |-> u, sampling |-> n,
               processMap |-> s]
  BY ONLY <1>1, <1>2
<1>4. call'.pc = "files" /\ call'.vxpus = a /\ call'.unread = b /\ call'.pSet = d
      /\ call'.unsampled = u /\ call'.processMap = s
  BY ONLY <1>3
<1> QED
  BY ONLY <1>2, <1>3, <1>4 DEF a, b, d, e, f, h, x, u, n, s

LEMMA SamplesStep ==
  ASSUME CallOk, NEW g \in Gpu, DeviceGetProcessUtilization(g)
  PROVE  /\ call.pc = "files" /\ g \in call.sampling
         /\ \E sampled \in SUBSET (EndedOn(g) \cup RunningOn(g)) :
              /\ call' = [pc |-> "files", vxpus |-> call.vxpus, unread |-> call.unread,
                          pSet |-> call.pSet, unsampled |-> call.unsampled, sampling |-> {},
                          processMap |-> [call.processMap EXCEPT ![g] = call.processMap[g] \cup sampled]]
              /\ call'.pc = "files" /\ call'.vxpus = call.vxpus /\ call'.unread = call.unread
              /\ call'.pSet = call.pSet /\ call'.unsampled = call.unsampled
              /\ call'.processMap = [call.processMap EXCEPT ![g] = call.processMap[g] \cup sampled]
<1>1. PICK sampled \in SUBSET (EndedOn(g) \cup RunningOn(g)) :
        call' = [call EXCEPT !.sampling = {}, !.processMap[g] = @ \cup sampled]
  BY DEF DeviceGetProcessUtilization
<1> DEFINE a == call.vxpus
           b == call.unread
           d == call.pSet
           e == call.unsampled
           f == call.processMap
           h == call.sampling
           x == call.pc
           n == {}
           s == [f EXCEPT ![g] = f[g] \cup sampled]
<1>2. call = [pc |-> x, vxpus |-> a, unread |-> b, pSet |-> d, unsampled |-> e, sampling |-> h,
              processMap |-> f]
  BY DEF CallOk
<1>3. call' = [call EXCEPT !.sampling = n, !.processMap = s]
  BY <1>1
<1>4. x = "files" /\ g \in h
  BY DEF DeviceGetProcessUtilization
<1> HIDE DEF a, b, d, e, f, h, x, n, s
<1>5. call' = [pc |-> "files", vxpus |-> a, unread |-> b, pSet |-> d, unsampled |-> e, sampling |-> n,
               processMap |-> s]
  BY ONLY <1>2, <1>3, <1>4
<1>6. call'.pc = "files" /\ call'.vxpus = a /\ call'.unread = b /\ call'.pSet = d
      /\ call'.unsampled = e /\ call'.processMap = s
  BY ONLY <1>5
<1> QED
  BY ONLY <1>4, <1>5, <1>6, sampled \in SUBSET (EndedOn(g) \cup RunningOn(g)) DEF a, b, d, e, f, h, x, n, s

\* The devices of the pods that are Running.
Found == UNION {Vxpus(p) : p \in {q \in Pod : phase[q] = "running"}}

LEMMA BeginStep ==
  ASSUME GetVxpus
  PROVE  /\ call' = [pc |-> "files", vxpus |-> Found, unread |-> {v.ctr : v \in Found},
                     pSet |-> [c \in Ctr |-> {}], unsampled |-> Gpu, sampling |-> {},
                     processMap |-> [g \in Gpu |-> {}]]
         /\ call'.pc = "files" /\ call'.vxpus = Found /\ call'.unread = {v.ctr : v \in Found}
         /\ call'.pSet = [c \in Ctr |-> {}] /\ call'.unsampled = Gpu
         /\ call'.sampling = {} /\ call'.processMap = [g \in Gpu |-> {}]
<1> DEFINE V == Found
           U == {v.ctr : v \in V}
           n == [c \in Ctr |-> {}]
           m == [g \in Gpu |-> {}]
<1>1. call' = [NoCall EXCEPT !.pc = "files", !.vxpus = V, !.unread = U, !.unsampled = Gpu]
  BY DEF GetVxpus, Found
<1>2. NoCall = [pc |-> "idle", vxpus |-> {}, unread |-> {}, pSet |-> n, unsampled |-> {}, sampling |-> {},
                processMap |-> m]
  BY DEF NoCall
<1> HIDE DEF V, U, n, m
<1>3. call' = [pc |-> "files", vxpus |-> V, unread |-> U, pSet |-> n, unsampled |-> Gpu, sampling |-> {},
               processMap |-> m]
  BY ONLY <1>1, <1>2
<1>4. call'.pc = "files" /\ call'.vxpus = V /\ call'.unread = U /\ call'.pSet = n
      /\ call'.unsampled = Gpu /\ call'.sampling = {} /\ call'.processMap = m
  BY ONLY <1>3
<1> QED
  BY ONLY <1>3, <1>4 DEF V, U, n, m

LEMMA CallStep == TypeOK /\ CallOk /\ [Next]_vars => CallOk'
<1> SUFFICES ASSUME TypeOK, CallOk, [Next]_vars PROVE CallOk'
  OBVIOUS
<1>1. CASE UNCHANGED call
  BY <1>1 DEF CallOk
<1>2. ASSUME NEW c \in Ctr, ReadPidsConfig(c) PROVE CallOk'
  <2> DEFINE s == [call.pSet EXCEPT ![c] = conf[c].pids]
  <2>1. conf[c].pids \in SUBSET Pid
    BY DEF TypeOK
  <2>2. call.pSet \in [Ctr -> SUBSET Pid]
    BY DEF CallOk
  <2>3. s \in [Ctr -> SUBSET Pid]
    BY <2>1, <2>2
  <2>4. /\ call.vxpus \in SUBSET [ctr : Ctr, gpu : Gpu] /\ call.unread \ {c} \in SUBSET Ctr
        /\ call.unsampled \in SUBSET Gpu /\ call.sampling \in SUBSET Gpu
        /\ call.processMap \in [Gpu -> SUBSET (Pid \X (Ctr \cup {Nobody}))]
    BY DEF CallOk
  <2>5. call' = [pc |-> "files", vxpus |-> call.vxpus, unread |-> call.unread \ {c}, pSet |-> s,
                 unsampled |-> call.unsampled, sampling |-> call.sampling, processMap |-> call.processMap]
    BY <1>2, ReadStep
  <2> HIDE DEF s
  <2> QED
    BY <2>3, <2>4, <2>5, CallOfFields
<1>3. ASSUME NEW g \in Gpu, GetComputeRunningProcesses(g) PROVE CallOk'
  <2> DEFINE s == [call.processMap EXCEPT ![g] = RunningOn(g)]
             n == {g}
  <2>1. RunningOn(g) \in SUBSET (Pid \X (Ctr \cup {Nobody})) /\ n \in SUBSET Gpu
    BY DEF TypeOK, RunningOn
  <2>2. call.processMap \in [Gpu -> SUBSET (Pid \X (Ctr \cup {Nobody}))]
    BY DEF CallOk
  <2>3. s \in [Gpu -> SUBSET (Pid \X (Ctr \cup {Nobody}))]
    BY <2>1, <2>2
  <2>4. /\ call.vxpus \in SUBSET [ctr : Ctr, gpu : Gpu] /\ call.unread \in SUBSET Ctr
        /\ call.unsampled \ {g} \in SUBSET Gpu /\ call.pSet \in [Ctr -> SUBSET Pid]
    BY DEF CallOk
  <2>5. call' = [pc |-> "files", vxpus |-> call.vxpus, unread |-> call.unread, pSet |-> call.pSet,
                 unsampled |-> call.unsampled \ {g}, sampling |-> n, processMap |-> s]
    BY <1>3, ProcessesStep
  <2> HIDE DEF s, n
  <2> QED
    BY <2>1, <2>3, <2>4, <2>5, CallOfFields
<1>4. ASSUME NEW g \in Gpu, DeviceGetProcessUtilization(g) PROVE CallOk'
  <2>1. PICK sampled \in SUBSET (EndedOn(g) \cup RunningOn(g)) :
          call' = [pc |-> "files", vxpus |-> call.vxpus, unread |-> call.unread,
                   pSet |-> call.pSet, unsampled |-> call.unsampled, sampling |-> {},
                   processMap |-> [call.processMap EXCEPT ![g] = call.processMap[g] \cup sampled]]
    BY <1>4, SamplesStep
  <2> DEFINE s == [call.processMap EXCEPT ![g] = call.processMap[g] \cup sampled]
             n == {}
  <2>2. sampled \in SUBSET (Pid \X (Ctr \cup {Nobody})) /\ n \in SUBSET Gpu
    BY DEF TypeOK, RunningOn, EndedOn
  <2>3. call.processMap \in [Gpu -> SUBSET (Pid \X (Ctr \cup {Nobody}))]
    BY DEF CallOk
  <2>4. s \in [Gpu -> SUBSET (Pid \X (Ctr \cup {Nobody}))]
    BY <2>2, <2>3
  <2>5. /\ call.vxpus \in SUBSET [ctr : Ctr, gpu : Gpu] /\ call.unread \in SUBSET Ctr
        /\ call.unsampled \in SUBSET Gpu /\ call.pSet \in [Ctr -> SUBSET Pid]
    BY DEF CallOk
  <2>6. call' = [pc |-> "files", vxpus |-> call.vxpus, unread |-> call.unread, pSet |-> call.pSet,
                 unsampled |-> call.unsampled, sampling |-> n, processMap |-> s]
    BY <2>1
  <2> HIDE DEF s, n
  <2> QED
    BY <2>2, <2>4, <2>5, <2>6, CallOfFields
<1>5. CASE GetVxpus
  <2>1. ASSUME NEW v \in Found PROVE v \in [ctr : Ctr, gpu : Gpu]
    <3>1. PICK p \in Pod : v \in Vxpus(p)
      BY DEF Found
    <3>2. v \in [ctr : CtrsOf(p), gpu : Gpu]
      BY <3>1, VxpusFacts
    <3> QED
      BY <3>2 DEF CtrsOf
  <2> DEFINE U == {v.ctr : v \in Found}
             n == [c \in Ctr |-> {}]
             m == [g \in Gpu |-> {}]
  <2>2. Found \in SUBSET [ctr : Ctr, gpu : Gpu] /\ U \in SUBSET Ctr
    BY <2>1
  <2>3. n \in [Ctr -> SUBSET Pid] /\ m \in [Gpu -> SUBSET (Pid \X (Ctr \cup {Nobody}))]
    OBVIOUS
  <2>4. call' = [pc |-> "files", vxpus |-> Found, unread |-> U, pSet |-> n, unsampled |-> Gpu,
                 sampling |-> {}, processMap |-> m]
    BY <1>5, BeginStep
  <2> HIDE DEF U, n, m
  <2> QED
    BY <2>2, <2>3, <2>4, CallOfFields
<1>6. CASE ReturnInfo
  BY <1>6 DEF ReturnInfo, NoCall, CallOk
<1>7. Next => \/ GetVxpus \/ ReturnInfo \/ UNCHANGED call
              \/ \E c \in Ctr : ReadPidsConfig(c)
              \/ \E g \in Gpu : GetComputeRunningProcesses(g) \/ DeviceGetProcessUtilization(g)
  BY DEF Next, Pods, Bind, Run, Succeed, Delete, Move, Processes, EndProcess, StartProcess, LoseSamples,
         Files, AllocateRead, AllocateWrite, GetPidsRead, GetPidsTruncate, GetPidsWrite, Cleaner, ListDirs,
         ListPods, RemoveDir, RemoveFails, GetAllVxpuInfo
<1> QED
  BY <1>1, <1>2, <1>3, <1>4, <1>5, <1>6, <1>7 DEF vars

\* What the two steps of writePidsConfig do to the files and the calls.
LEMMA FileSteps ==
  ASSUME TypeOK, NEW c \in Ctr, GetPidsTruncate(c) \/ GetPidsWrite(c)
  PROVE  /\ DOMAIN conf' = Ctr /\ DOMAIN getPids' = Ctr
         /\ \A d \in Ctr :
              /\ \/ conf'[d] = conf[d]
                 \/ conf[d] # NoDir /\ (conf'[d] = File({}) \/ conf'[d] = File(getPids[d].pids))
              /\ \/ getPids'[d] = getPids[d] \/ getPids'[d] = NoGetPids
                 \/ getPids'[d] = [pc |-> "write", pids |-> getPids[d].pids]
<1>1. DOMAIN conf = Ctr /\ DOMAIN getPids = Ctr
  BY DEF TypeOK
<1>2. CASE GetPidsWrite(c)
  <2>1. Rewritten(c) => conf[c] # NoDir
    BY DEF Rewritten, NoDir
  <2> QED
    BY <1>1, <1>2, <2>1 DEF GetPidsWrite
<1>3. CASE GetPidsTruncate(c)
  <2>1. getPids[c] = [pc |-> getPids[c].pc, pids |-> getPids[c].pids]
    BY DEF TypeOK
  <2> DEFINE e == [getPids[c] EXCEPT !.pc = "write"]
             a == getPids[c].pc
             b == getPids[c].pids
             g == getPids[c]
  <2>2. e = [pc |-> "write", pids |-> b]
    <3>1. g = [pc |-> a, pids |-> b] /\ e = [g EXCEPT !.pc = "write"]
      BY <2>1
    <3> HIDE DEF a, b, e, g
    <3> QED
      BY ONLY <3>1
  <2>3. CASE conf[c] = NoDir
    BY <1>1, <1>3, <2>3 DEF GetPidsTruncate
  <2>4. CASE conf[c] # NoDir
    <3>1. getPids' = [getPids EXCEPT ![c] = e] /\ conf' = [conf EXCEPT ![c] = File({})]
      BY <1>3, <2>4 DEF GetPidsTruncate
    <3> HIDE DEF e
    <3>2. \A d \in Ctr : getPids'[d] = IF d = c THEN e ELSE getPids[d]
      BY <1>1, <3>1
    <3>3. \A d \in Ctr : conf'[d] = IF d = c THEN File({}) ELSE conf[d]
      BY <1>1, <3>1
    <3> QED
      BY <1>1, <2>2, <2>4, <3>1, <3>2, <3>3
  <2> QED
    BY <2>3, <2>4
<1> QED
  BY <1>2, <1>3

LEMMA FileTypes ==
  ASSUME TypeOK, NEW c \in Ctr, GetPidsTruncate(c) \/ GetPidsWrite(c)
  PROVE  /\ conf' \in [Ctr -> [state : {"none", "dir", "file"}, pids : SUBSET Pid]]
         /\ \A d \in Ctr : conf'[d].state # "file" => conf'[d].pids = {}
         /\ getPids' \in [Ctr -> [pc : {"idle", "read", "write"}, pids : SUBSET Pid]]
<1> DEFINE C == [state : {"none", "dir", "file"}, pids : SUBSET Pid]
           G == [pc : {"idle", "read", "write"}, pids : SUBSET Pid]
<1>1. ASSUME NEW d \in Ctr
      PROVE  conf'[d] \in C /\ (conf'[d].state # "file" => conf'[d].pids = {}) /\ getPids'[d] \in G
  <2>1. conf[d] \in C /\ (conf[d].state # "file" => conf[d].pids = {}) /\ getPids[d] \in G
    BY DEF TypeOK
  <2>2. File({}) \in C /\ File(getPids[d].pids) \in C
        /\ File({}).state = "file" /\ File(getPids[d].pids).state = "file"
    BY <2>1 DEF File
  <2>3. NoGetPids \in G /\ [pc |-> "write", pids |-> getPids[d].pids] \in G
    BY <2>1 DEF NoGetPids
  <2> HIDE DEF C, G
  <2> QED
    BY <2>1, <2>2, <2>3, FileSteps
<1>2. DOMAIN conf' = Ctr /\ DOMAIN getPids' = Ctr
  BY FileSteps
<1>3. conf' = [d \in Ctr |-> conf'[d]] /\ getPids' = [d \in Ctr |-> getPids'[d]]
  BY <1>2 DEF GetPidsTruncate, GetPidsWrite, TypeOK
<1> HIDE DEF C, G
<1>4. conf' \in [Ctr -> C] /\ getPids' \in [Ctr -> G]
  BY <1>1, <1>3
<1> QED
  BY <1>1, <1>4 DEF C, G

LEMMA TypeStep == TypeOK /\ CallOk /\ [Next]_vars => TypeOK' /\ CallOk'
<1> SUFFICES ASSUME TypeOK, CallOk, [Next]_vars PROVE TypeOK' /\ CallOk'
  OBVIOUS
<1>1. CallOk'
  BY CallStep
<1>2. call'.pc \in {"idle", "files"} /\ call'.pSet \in [Ctr -> SUBSET Pid]
  BY <1>1 DEF CallOk
<1> DEFINE Rest == /\ phase' \in [Pod -> {"none", "bound", "running", "succeeded", "deleted"}]
                   /\ owner' \in [Pid -> Ctr \cup {Nobody}]
                   /\ allocating' \subseteq Ctr /\ torn' \subseteq Ctr /\ samples' \subseteq Pid \X Ctr
                   /\ conf' \in [Ctr -> [state : {"none", "dir", "file"}, pids : SUBSET Pid]]
                   /\ \A c \in Ctr : conf'[c].state # "file" => conf'[c].pids = {}
                   /\ getPids' \in [Ctr -> [pc : {"idle", "read", "write"}, pids : SUBSET Pid]]
                   /\ cleaner' \in [pc : {"dirs", "remove", "ended"}, dirs : SUBSET Pod]
                   /\ starts' \in 0..MaxStarts /\ reused' \cup steady' \subseteq Pid /\ unlisted' \in BOOLEAN
                   /\ unlisted' <=> cleaner'.pc = "ended"
<1>3. ASSUME NEW p \in Pod, Bind(p) \/ Run(p) \/ Succeed(p) \/ Delete(p) PROVE Rest
  BY <1>3 DEF Bind, Run, Succeed, Delete, Move, StillSteady, TypeOK
<1>4. ASSUME NEW i \in Pid, NEW c \in Ctr, StartProcess(i, c) PROVE Rest
  <2>1. starts' \in 0..MaxStarts
    BY <1>4, VxpuInfoAssumption DEF StartProcess, TypeOK, VxpuInfoAssumption
  <2>2. reused' \subseteq Pid /\ steady' \subseteq Pid /\ owner' \in [Pid -> Ctr \cup {Nobody}]
    BY <1>4 DEF StartProcess, StillSteady, TypeOK
  <2>3. UNCHANGED <<phase, samples, allocating, conf, getPids, cleaner, call, torn, unlisted>>
    BY <1>4 DEF StartProcess
  <2> QED
    BY <2>1, <2>2, <2>3 DEF TypeOK
<1>5. ASSUME NEW i \in Pid, EndProcess(i) PROVE Rest
  BY <1>5 DEF EndProcess, StillSteady, TypeOK
<1>6. ASSUME NEW x \in samples, LoseSamples(x) PROVE Rest
  BY <1>6 DEF LoseSamples, TypeOK
<1>7. ASSUME NEW c \in Ctr, AllocateRead(c) PROVE Rest
  BY <1>7 DEF AllocateRead, podVars, TypeOK
<1>8. ASSUME NEW c \in Ctr, AllocateWrite(c) PROVE Rest
  BY <1>8 DEF AllocateWrite, podVars, Dir, TypeOK
<1>9. ASSUME NEW c \in Ctr, GetPidsRead(c) PROVE Rest
  BY <1>9 DEF GetPidsRead, Running, podVars, TypeOK
<1>10. ASSUME NEW c \in Ctr, GetPidsTruncate(c) \/ GetPidsWrite(c) PROVE Rest
  <2>1. /\ UNCHANGED <<phase, owner, samples, starts, reused, allocating, cleaner, torn, unlisted>>
        /\ steady' \subseteq steady
    BY <1>10 DEF GetPidsTruncate, GetPidsWrite, StillSteady, podVars
  <2> QED
    BY <1>10, <2>1, FileTypes DEF TypeOK
<1>11. ASSUME NEW c \in Ctr, ReadPidsConfig(c) PROVE Rest
  BY <1>11 DEF ReadPidsConfig, podVars, TypeOK
<1>12. ASSUME ListDirs PROVE Rest
  <2>1. UNCHANGED <<phase, owner, allocating, conf, getPids, samples, starts, reused, steady, torn>>
    BY <1>12 DEF ListDirs, podVars
  <2>2. /\ cleaner' \in [pc : {"dirs", "remove", "ended"}, dirs : SUBSET Pod]
        /\ unlisted' \in BOOLEAN /\ (unlisted' <=> cleaner'.pc = "ended")
    <3>1. CASE cleaner' = [pc |-> "dirs", dirs |-> DirNames] /\ unlisted' = unlisted
      <4>1. cleaner' \in [pc : {"dirs", "remove", "ended"}, dirs : SUBSET Pod] /\ cleaner'.pc # "ended"
        BY <3>1 DEF DirNames, TypeOK
      <4>2. unlisted \in BOOLEAN /\ (unlisted <=> cleaner.pc = "ended") /\ cleaner.pc # "ended"
        BY <1>12 DEF ListDirs, TypeOK
      <4> QED
        BY <3>1, <4>1, <4>2, Zenon
    <3>2. CASE cleaner' = [pc |-> "ended", dirs |-> {}] /\ unlisted' = TRUE
      BY <3>2
    <3> QED
      BY <1>12, <3>1, <3>2 DEF ListDirs, Clean
  <2> QED
    BY <2>1, <2>2 DEF TypeOK
<1>13. ASSUME ListPods PROVE Rest
  <2>1. UNCHANGED <<phase, owner, allocating, conf, getPids, samples, starts, reused, steady, torn>>
    BY <1>13 DEF ListPods, podVars
  <2>2. /\ cleaner' \in [pc : {"dirs", "remove", "ended"}, dirs : SUBSET Pod]
        /\ unlisted' \in BOOLEAN /\ (unlisted' <=> cleaner'.pc = "ended")
    <3>1. CASE cleaner' = [pc |-> "remove", dirs |-> cleaner.dirs \ Known] /\ unlisted' = unlisted
      <4>1. cleaner' \in [pc : {"dirs", "remove", "ended"}, dirs : SUBSET Pod] /\ cleaner'.pc # "ended"
        BY <3>1 DEF DirNames, TypeOK
      <4>2. unlisted \in BOOLEAN /\ (unlisted <=> cleaner.pc = "ended") /\ cleaner.pc # "ended"
        BY <1>13 DEF ListPods, TypeOK
      <4> QED
        BY <3>1, <4>1, <4>2, Zenon
    <3>2. CASE cleaner' = [pc |-> "ended", dirs |-> {}] /\ unlisted' = TRUE
      BY <3>2
    <3> QED
      BY <1>13, <3>1, <3>2 DEF ListPods, Clean
  <2> QED
    BY <2>1, <2>2 DEF TypeOK
<1>14. ASSUME NEW p \in Pod, RemoveDir(p) PROVE Rest
  BY <1>14 DEF RemoveDir, Clean, NoDir, StillSteady, podVars, TypeOK
<1>15. ASSUME NEW p \in Pod, RemoveFails(p) PROVE Rest
  BY <1>15 DEF RemoveFails, Clean, podVars, TypeOK
<1>16. ASSUME GetVxpus PROVE Rest
  BY <1>16 DEF GetVxpus, Listed, podVars, TypeOK
<1>17. ASSUME \/ ReturnInfo \/ UNCHANGED vars
              \/ \E g \in Gpu : GetComputeRunningProcesses(g) \/ DeviceGetProcessUtilization(g)
       PROVE  Rest
  <2>1. /\ UNCHANGED <<phase, owner, samples, allocating, conf, getPids, cleaner, starts, reused, unlisted>>
        /\ steady' \in {steady, {}} /\ torn' \in {torn, {}}
    BY <1>17 DEF ReturnInfo, vars, GetComputeRunningProcesses, DeviceGetProcessUtilization, podVars
  <2> QED
    BY <2>1 DEF TypeOK
<1>18. Rest
  BY <1>3, <1>4, <1>5, <1>7, <1>8, <1>9, <1>10, <1>12, <1>13, <1>14, <1>15, <1>16, <1>17,
     <1>6, <1>11
     DEF Next, Pods, Processes, Files, Cleaner, GetAllVxpuInfo
<1> QED
  BY <1>1, <1>2, <1>18 DEF TypeOK
-----------------------------------------------------------------------------
(* Directories and the cleaner                                             *)

\* What the steps of cleanDestroyedPodDir and of the pods leave.
LEMMA DirsBoundStep ==
  ASSUME TypeOK, DirsBound, [Next]_vars
  PROVE  DirsBound'
<1>1. ASSUME NEW p \in Pod, Bind(p) \/ Run(p) \/ Succeed(p) \/ Delete(p) PROVE DirsBound'
  <2>1. ASSUME NEW q \in Pod, phase[q] # "none" PROVE phase'[q] # "none"
    BY <1>1, <2>1 DEF Bind, Run, Succeed, Delete, Move, TypeOK
  <2>2. UNCHANGED <<conf, allocating>>
    BY <1>1 DEF Bind, Run, Succeed, Delete, Move
  <2> QED
    BY <2>1, <2>2, CtrFacts DEF DirsBound
<1>2. ASSUME NEW c \in Ctr, AllocateRead(c) PROVE DirsBound'
  BY <1>2 DEF AllocateRead, podVars, DirsBound
<1>3. ASSUME NEW c \in Ctr, AllocateWrite(c) PROVE DirsBound'
  BY <1>3 DEF AllocateWrite, podVars, DirsBound, TypeOK
<1>4. ASSUME NEW c \in Ctr, GetPidsTruncate(c) \/ GetPidsWrite(c) PROVE DirsBound'
  <2>1. UNCHANGED <<phase, allocating>>
    BY <1>4 DEF GetPidsTruncate, GetPidsWrite, podVars
  <2>2. \A d \in Ctr : conf'[d] # NoDir => conf[d] # NoDir
    BY <1>4, FileSteps
  <2> QED
    BY <2>1, <2>2 DEF DirsBound
<1>5. ASSUME NEW p \in Pod, RemoveDir(p) PROVE DirsBound'
  BY <1>5 DEF RemoveDir, podVars, DirsBound, TypeOK
<1>6. ASSUME UNCHANGED <<phase, conf, allocating>> PROVE DirsBound'
  BY <1>6 DEF DirsBound
<1>7. \/ UNCHANGED <<phase, conf, allocating>>
      \/ \E p \in Pod : Bind(p) \/ Run(p) \/ Succeed(p) \/ Delete(p) \/ RemoveDir(p)
      \/ \E c \in Ctr : AllocateRead(c) \/ AllocateWrite(c) \/ GetPidsTruncate(c) \/ GetPidsWrite(c)
  BY DEF Next, Pods, Processes, EndProcess, StartProcess, LoseSamples, Files, GetPidsRead, Cleaner,
         ListDirs, ListPods, RemoveFails, GetAllVxpuInfo, GetVxpus, ReturnInfo, ReadPidsConfig,
         GetComputeRunningProcesses, DeviceGetProcessUtilization, podVars, vars
<1> QED
  BY <1>1, <1>2, <1>3, <1>4, <1>5, <1>6, <1>7

LEMMA CleanerStep ==
  ASSUME TypeOK, DirsBound, CleanerOk, [Next]_vars
  PROVE  CleanerOk'
<1>1. ASSUME NEW p \in Pod, Bind(p) \/ Run(p) \/ Succeed(p) \/ Delete(p) PROVE CleanerOk'
  <2>1. ASSUME NEW q \in Pod
        PROVE  /\ phase[q] # "none" => phase'[q] # "none"
               /\ phase[q] = "deleted" => phase'[q] = "deleted"
    BY <1>1 DEF Bind, Run, Succeed, Delete, Move, TypeOK
  <2>2. cleaner' = cleaner /\ cleaner.dirs \subseteq Pod
    BY <1>1 DEF Bind, Run, Succeed, Delete, Move, TypeOK
  <2> QED
    BY <2>1, <2>2 DEF CleanerOk
<1>2. ASSUME ListDirs PROVE CleanerOk'
  <2>1. \A p \in DirNames : phase[p] # "none"
    BY DEF DirNames, CtrsOf, DirsBound
  <2> QED
    BY <1>2, <2>1 DEF ListDirs, Clean, CleanerOk, podVars
<1>3. ASSUME ListPods PROVE CleanerOk'
  BY <1>3 DEF ListPods, Clean, Known, CleanerOk, podVars, TypeOK
<1>4. ASSUME NEW p \in Pod, RemoveDir(p) \/ RemoveFails(p) PROVE CleanerOk'
  BY <1>4 DEF RemoveDir, RemoveFails, Clean, CleanerOk, podVars
<1>5. ASSUME UNCHANGED <<phase, cleaner>> PROVE CleanerOk'
  BY <1>5 DEF CleanerOk
<1>6. \/ UNCHANGED <<phase, cleaner>> \/ ListDirs \/ ListPods
      \/ \E p \in Pod : Bind(p) \/ Run(p) \/ Succeed(p) \/ Delete(p) \/ RemoveDir(p) \/ RemoveFails(p)
  BY DEF Next, Pods, Processes, EndProcess, StartProcess, LoseSamples, Files, AllocateRead,
         AllocateWrite, GetPidsRead, GetPidsTruncate, GetPidsWrite, Cleaner, GetAllVxpuInfo, GetVxpus,
         ReturnInfo, ReadPidsConfig, GetComputeRunningProcesses, DeviceGetProcessUtilization, podVars, vars
<1> QED
  BY <1>1, <1>2, <1>3, <1>4, <1>5, <1>6

-----------------------------------------------------------------------------
(* Pids                                                                    *)

\* Allocate writes a directory without pids.
LEMMA WriteKeepsPids ==
  ASSUME TypeOK, NEW c \in Ctr, AllocateWrite(c)
  PROVE  \A d \in Ctr : conf'[d].pids = conf[d].pids
<1>1. conf[c] = NoDir => conf[c].pids = {}
  BY DEF NoDir
<1>2. Dir.pids = {}
  BY DEF Dir
<1>3. conf' = [conf EXCEPT ![c] = IF conf[c] = NoDir THEN Dir ELSE conf[c]] /\ DOMAIN conf = Ctr
  BY DEF AllocateWrite, TypeOK
<1> QED
  BY <1>1, <1>2, <1>3

\* A pid moves from the cgroup to the answer of GetPids, from there to
\* pids.config and to pSet; only GetPidsRead finds one anew.
LEMMA OwnersStep ==
  ASSUME TypeOK, CallOk, Owners, [Next]_vars
  PROVE  Owners'
<1>1. ASSUME NEW i \in Pid, NEW c \in Ctr, StartProcess(i, c) PROVE Owners'
  <2>1. UNCHANGED <<conf, getPids, call, samples>> /\ \A j \in Pid \ {i} : owner'[j] = owner[j]
    BY <1>1 DEF StartProcess, TypeOK
  <2>2. \A j \in Pid, d \in Ctr : In(j, d)' <=> In(j, d)
    BY <2>1 DEF In
  <2>3. i \in reused' \/ \A d \in Ctr : ~In(i, d)
    BY <1>1 DEF StartProcess, In
  <2>4. reused \subseteq reused'
    BY <1>1 DEF StartProcess
  <2> QED
    BY <2>1, <2>2, <2>3, <2>4 DEF Owners
<1>2. ASSUME NEW i \in Pid, EndProcess(i) PROVE Owners'
  <2>1. /\ UNCHANGED <<conf, getPids, call, reused>> /\ owner'[i] = Nobody /\ owner[i] # Nobody
        /\ \A j \in Pid : owner'[j] \in {owner[j], Nobody}
        /\ samples' = samples \cup {<<i, owner[i]>>}
    BY <1>2 DEF EndProcess, TypeOK
  <2>2. ASSUME NEW j \in Pid, NEW d \in Ctr, In(j, d)' PROVE In(j, d) \/ (j = i /\ d = owner[i])
    BY <2>1, <2>2 DEF In
  <2>3. ASSUME NEW j \in Pid \ reused', NEW c \in Ctr, In(j, c)'
        PROVE  owner'[j] \in {c, Nobody} /\ \A d \in Ctr : In(j, d)' => d = c
    <3>1. j \in Pid \ reused
      BY <2>1
    <3>2. \A d \in Ctr : In(j, d) => owner[j] \in {d, Nobody} /\ \A e \in Ctr : In(j, e) => e = d
      BY <3>1 DEF Owners
    <3> QED
      BY <2>1, <2>2, <2>3, <3>2
  <2> QED
    BY <2>3 DEF Owners
<1>3. ASSUME NEW c \in Ctr, GetPidsRead(c) PROVE Owners'
  <2>1. UNCHANGED <<conf, call, owner, reused, samples>>
        /\ \A d \in Ctr : getPids'[d].pids \in {getPids[d].pids, IF d = c THEN Running(c) ELSE {}}
    BY <1>3 DEF GetPidsRead, podVars, TypeOK
  <2>2. \A j \in Pid, d \in Ctr : In(j, d)' => In(j, d) \/ (d = c /\ owner[j] = c)
    BY <2>1 DEF In, Running
  <2>3. c # Nobody
    BY CtrFacts
  <2> QED
    BY <2>1, <2>2, <2>3 DEF Owners
<1>4. ASSUME UNCHANGED <<owner, reused>>, \A j \in Pid, d \in Ctr : In(j, d)' => In(j, d)
      PROVE  Owners'
  BY <1>4 DEF Owners
<1>5. ASSUME NEW c \in Ctr, AllocateWrite(c) PROVE Owners'
  <2>1. UNCHANGED <<owner, reused, getPids, call, samples>>
    BY <1>5 DEF AllocateWrite, podVars
  <2>2. \A d \in Ctr : conf'[d].pids = conf[d].pids
    BY <1>5, WriteKeepsPids
  <2> QED
    BY <1>4, <2>1, <2>2 DEF In
<1>6. ASSUME NEW c \in Ctr, GetPidsTruncate(c) \/ GetPidsWrite(c) PROVE Owners'
  <2>1. /\ UNCHANGED <<owner, reused, call, samples>>
        /\ \A d \in Ctr : /\ conf'[d].pids \subseteq conf[d].pids \cup getPids[d].pids
                          /\ getPids'[d].pids \subseteq getPids[d].pids
    <3>1. UNCHANGED <<owner, reused, call, samples>>
      BY <1>6 DEF GetPidsTruncate, GetPidsWrite, podVars
    <3>2. ASSUME NEW d \in Ctr
          PROVE  /\ conf'[d].pids \subseteq conf[d].pids \cup getPids[d].pids
                 /\ getPids'[d].pids \subseteq getPids[d].pids
      <4>1. File({}).pids = {} /\ File(getPids[d].pids).pids = getPids[d].pids /\ NoGetPids.pids = {}
            /\ [pc |-> "write", pids |-> getPids[d].pids].pids = getPids[d].pids
        BY DEF File, NoGetPids
      <4>2. conf'[d] = conf[d] \/ conf'[d] = File({}) \/ conf'[d] = File(getPids[d].pids)
        BY <1>6, FileSteps
      <4>3. \/ getPids'[d] = getPids[d] \/ getPids'[d] = NoGetPids
            \/ getPids'[d] = [pc |-> "write", pids |-> getPids[d].pids]
        BY <1>6, FileSteps
      <4>4. conf'[d].pids \subseteq conf[d].pids \cup getPids[d].pids
        BY <4>1, <4>2
      <4>5. getPids'[d].pids \subseteq getPids[d].pids
        BY <4>1, <4>3
      <4> QED
        BY <4>4, <4>5
    <3> QED
      BY <3>1, <3>2
  <2> QED
    BY <1>4, <2>1 DEF In
<1>7. ASSUME NEW p \in Pod, RemoveDir(p) PROVE Owners'
  <2>1. /\ UNCHANGED <<owner, reused, getPids, call, samples>>
        /\ \A d \in Ctr : conf'[d].pids \subseteq conf[d].pids
    BY <1>7 DEF RemoveDir, podVars, NoDir, TypeOK
  <2> QED
    BY <1>4, <2>1 DEF In
<1>8. ASSUME NEW c \in Ctr, ReadPidsConfig(c) PROVE Owners'
  <2>1. call'.pSet = [call.pSet EXCEPT ![c] = conf[c].pids]
    BY <1>8, ReadStep
  <2>2. call.pSet \in [Ctr -> SUBSET Pid]
    BY DEF CallOk
  <2>3. \A d \in Ctr : call'.pSet[d] \subseteq call.pSet[d] \cup conf[d].pids
    BY <2>1, <2>2
  <2>4. UNCHANGED <<owner, reused, conf, getPids, samples>>
    BY <1>8 DEF ReadPidsConfig, podVars
  <2> QED
    BY <1>4, <2>3, <2>4 DEF In
<1>9. ASSUME NEW g \in Gpu, GetComputeRunningProcesses(g) \/ DeviceGetProcessUtilization(g) PROVE Owners'
  <2>1. call'.pSet = call.pSet
    BY <1>9, ProcessesStep, SamplesStep
  <2>2. UNCHANGED <<owner, reused, conf, getPids, samples>>
    BY <1>9 DEF GetComputeRunningProcesses, DeviceGetProcessUtilization, podVars
  <2> QED
    BY <1>4, <2>1, <2>2 DEF In
<1>10. ASSUME GetVxpus \/ ReturnInfo PROVE Owners'
  <2>1. call'.pSet = [c \in Ctr |-> {}]
    BY <1>10, BeginStep DEF ReturnInfo, NoCall
  <2>2. UNCHANGED <<owner, reused, conf, getPids, samples>>
    BY <1>10 DEF GetVxpus, ReturnInfo, podVars
  <2> QED
    BY <1>4, <2>1, <2>2 DEF In
<1>11. ASSUME UNCHANGED <<owner, reused, conf, getPids, call>>, samples' \subseteq samples PROVE Owners'
  BY <1>4, <1>11 DEF In
<1>12. \/ UNCHANGED <<owner, reused, conf, getPids, call>> /\ samples' \subseteq samples
       \/ GetVxpus \/ ReturnInfo
       \/ \E i \in Pid : EndProcess(i) \/ \E c \in Ctr : StartProcess(i, c)
       \/ \E c \in Ctr : \/ AllocateWrite(c) \/ GetPidsRead(c) \/ GetPidsTruncate(c) \/ GetPidsWrite(c)
                         \/ ReadPidsConfig(c)
       \/ \E p \in Pod : RemoveDir(p)
       \/ \E g \in Gpu : GetComputeRunningProcesses(g) \/ DeviceGetProcessUtilization(g)
  BY DEF Next, Pods, Bind, Run, Succeed, Delete, Move, Processes, LoseSamples, Files, AllocateRead, Cleaner,
         ListDirs, ListPods, RemoveFails, GetAllVxpuInfo, podVars, vars
<1> QED
  BY <1>1, <1>2, <1>3, <1>5, <1>6, <1>7, <1>8, <1>9, <1>10, <1>11, <1>12

\* A container that GetXPUUsage keeps with a pid is the one whose file had it.
LEMMA SampledStep ==
  ASSUME TypeOK, CallOk, Owners, Sampled, [Next]_vars
  PROVE  Sampled'
<1>1. ASSUME UNCHANGED call, reused \subseteq reused' PROVE Sampled'
  BY <1>1 DEF Sampled
<1>2. ASSUME NEW c \in Ctr, ReadPidsConfig(c) PROVE Sampled'
  <2>1. call'.processMap = call.processMap /\ call'.sampling = call.sampling /\ call.unread # {}
    BY <1>2, ReadStep
  <2> QED
    BY <2>1 DEF Sampled
<1>3. ASSUME NEW g \in Gpu, NEW new,
             new \subseteq EndedOn(g) \cup RunningOn(g), call.unread = {}, call'.unread = call.unread,
             call'.pSet = call.pSet, reused' = reused,
             \/ call'.processMap = [call.processMap EXCEPT ![g] = new]
             \/ call'.processMap = [call.processMap EXCEPT ![g] = call.processMap[g] \cup new]
      PROVE  Sampled'
  <2>1. DOMAIN call.processMap = Gpu
    BY DEF CallOk
  <2>2. ASSUME NEW h \in Gpu, NEW x \in call'.processMap[h]
        PROVE  x \in call.processMap[h] \/ x \in new
    BY <1>3, <2>1
  <2>3. ASSUME NEW x \in new, NEW c \in Ctr, x[1] \in call.pSet[c]
        PROVE  x[2] = c \/ x[1] \in reused
    <3>1. CASE x \in RunningOn(g)
      <4>1. PICK j \in Pid : x = <<j, owner[j]>> /\ owner[j] # Nobody
        BY <3>1 DEF RunningOn
      <4>2. In(j, c)
        BY <2>3, <4>1 DEF In
      <4> QED
        BY <4>1, <4>2 DEF Owners
    <3>2. CASE x \in EndedOn(g)
      <4>1. x \in samples /\ x \in Pid \X Ctr
        BY <3>2 DEF EndedOn, TypeOK
      <4>2. x = <<x[1], x[2]>> /\ x[1] \in Pid /\ x[2] \in Ctr
        BY <4>1
      <4>3. In(x[1], c) /\ In(x[1], x[2])
        BY <2>3, <4>1, <4>2 DEF In
      <4> QED
        BY <4>2, <4>3 DEF Owners
    <3> QED
      BY <1>3, <3>1, <3>2
  <2> QED
    BY <1>3, <2>2, <2>3 DEF Sampled
<1>4. ASSUME NEW g \in Gpu, GetComputeRunningProcesses(g) PROVE Sampled'
  <2>1. /\ call.unread = {} /\ call'.unread = call.unread /\ call'.pSet = call.pSet
        /\ call'.processMap = [call.processMap EXCEPT ![g] = RunningOn(g)]
    BY <1>4, ProcessesStep
  <2>2. reused' = reused
    BY <1>4 DEF GetComputeRunningProcesses, podVars
  <2> QED
    BY <1>3, <2>1, <2>2
<1>5. ASSUME NEW g \in Gpu, DeviceGetProcessUtilization(g), call.unread = {} PROVE Sampled'
  <2>1. PICK sampled \in SUBSET (EndedOn(g) \cup RunningOn(g)) :
          /\ call'.unread = call.unread /\ call'.pSet = call.pSet
          /\ call'.processMap = [call.processMap EXCEPT ![g] = call.processMap[g] \cup sampled]
    BY <1>5, SamplesStep
  <2>2. reused' = reused
    BY <1>5 DEF DeviceGetProcessUtilization, podVars
  <2> QED
    BY <1>3, <1>5, <2>1, <2>2
<1>6. ASSUME GetVxpus \/ ReturnInfo PROVE Sampled'
  <2>1. call'.processMap = [g \in Gpu |-> {}] /\ call'.sampling = {}
    BY <1>6, BeginStep DEF ReturnInfo, NoCall
  <2> QED
    BY <2>1 DEF Sampled
<1>7. \/ (UNCHANGED call /\ reused \subseteq reused') \/ GetVxpus \/ ReturnInfo
      \/ \E c \in Ctr : ReadPidsConfig(c)
      \/ \E g \in Gpu : GetComputeRunningProcesses(g) \/ DeviceGetProcessUtilization(g)
  BY DEF Next, Pods, Bind, Run, Succeed, Delete, Move, Processes, StartProcess, EndProcess, LoseSamples,
         Files, AllocateRead, AllocateWrite, GetPidsRead, GetPidsTruncate, GetPidsWrite, Cleaner,
         ListDirs, ListPods, RemoveDir, RemoveFails, GetAllVxpuInfo, podVars, vars
<1>8. call.sampling # {} => call.unread = {}
  BY DEF Sampled
<1>9. ASSUME NEW g \in Gpu, DeviceGetProcessUtilization(g) PROVE Sampled'
  BY <1>5, <1>8, <1>9, SamplesStep
<1> QED
  BY <1>1, <1>2, <1>4, <1>6, <1>7, <1>9
-----------------------------------------------------------------------------
(* A process that was there all the time                                   *)

LEMMA ListedFacts ==
  ASSUME TypeOK, NEW i \in Listed
  PROVE  i \in Pid /\ owner[i] \in Ctr /\ phase[owner[i][1]] = "running" /\ i \in Content(owner[i])
BY DEF TypeOK, Listed

\* What is listed depends on owners, phases and what the files have.
LEMMA SameListed ==
  ASSUME TypeOK, UNCHANGED <<owner, phase>>, \A c \in Ctr : Content(c)' = Content(c)
  PROVE  Listed' = Listed
<1>1. \A i \in Pid : owner[i] # Nobody => Content(owner[i])' = Content(owner[i])
  BY DEF TypeOK
<1> QED
  BY <1>1 DEF Listed

\* Whatever happens to files and processes, the call goes on from what it has.
LEMMA SteadyStays ==
  ASSUME SteadyOk, UNCHANGED <<call, torn>>, steady' \subseteq steady, steady' \subseteq Listed',
         \A i \in steady' : owner'[i] = owner[i]
  PROVE  SteadyOk'
BY DEF SteadyOk, GpusOf

LEMMA SteadyStep ==
  ASSUME TypeOK, CallOk, SteadyOk, [Next]_vars
  PROVE  SteadyOk'
<1>1. ASSUME UNCHANGED <<call, owner, torn>>, StillSteady PROVE SteadyOk'
  BY <1>1, SteadyStays DEF StillSteady
<1>2. ASSUME NEW i \in Pid, NEW c \in Ctr, StartProcess(i, c) PROVE SteadyOk'
  <2>1. owner[i] = Nobody /\ \A j \in Pid \ {i} : owner'[j] = owner[j]
    BY <1>2 DEF StartProcess, TypeOK
  <2>2. UNCHANGED <<call, torn>> /\ steady' = steady \cap Listed'
    BY <1>2 DEF StartProcess, StillSteady
  <2>3. \A j \in steady : j \in Listed
    BY DEF SteadyOk
  <2>4. \A j \in steady : j \in Pid /\ j # i
    BY <2>1, <2>3 DEF Listed
  <2> QED
    BY <2>1, <2>2, <2>4, SteadyStays
<1>3. ASSUME NEW i \in Pid, EndProcess(i) PROVE SteadyOk'
  <2>1. owner'[i] = Nobody /\ \A j \in Pid \ {i} : owner'[j] = owner[j]
    BY <1>3 DEF EndProcess, TypeOK
  <2>2. UNCHANGED <<call, torn>> /\ steady' = steady \cap Listed'
    BY <1>3 DEF EndProcess, StillSteady
  <2>3. \A j \in Listed' : j \in Pid /\ j # i
    BY <2>1 DEF Listed
  <2> QED
    BY <2>1, <2>2, <2>3, SteadyStays
<1>4. ASSUME UNCHANGED <<call, owner, phase, steady, torn>>, \A c \in Ctr : Content(c)' = Content(c)
      PROVE  SteadyOk'
  <2>1. Listed' = Listed
    BY <1>4, SameListed
  <2>2. \A i \in steady : i \in Listed
    BY DEF SteadyOk
  <2> QED
    BY <1>4, <2>1, <2>2, SteadyStays
<1>5. ASSUME NEW c \in Ctr, AllocateWrite(c) PROVE SteadyOk'
  <2>1. UNCHANGED <<call, owner, phase, steady, torn, getPids>>
    BY <1>5 DEF AllocateWrite, podVars
  <2>2. \A d \in Ctr : conf'[d].pids = conf[d].pids /\ (conf'[d].state = "file" <=> conf[d].state = "file")
    <3>1. \A d \in Ctr : conf'[d].pids = conf[d].pids
      BY <1>5, WriteKeepsPids
    <3>2. \A d \in Ctr : conf'[d] = conf[d] \/ (conf'[d] = Dir /\ conf[d] = NoDir)
      BY <1>5 DEF AllocateWrite, TypeOK
    <3>3. Dir.state # "file" /\ NoDir.state # "file"
      BY DEF Dir, NoDir
    <3> QED
      BY <3>1, <3>2, <3>3
  <2>3. \A d \in Ctr : Content(d)' = Content(d)
    BY <2>1, <2>2 DEF Content, Rewritten
  <2> QED
    BY <1>4, <2>1, <2>3
<1>6. ASSUME UNCHANGED <<call, owner, phase, steady, torn, conf>>,
             \/ UNCHANGED getPids
             \/ \E c \in Ctr : GetPidsRead(c)
      PROVE  SteadyOk'
  <2>1. \A d \in Ctr : \/ getPids'[d] = getPids[d]
                       \/ getPids'[d].pc # "write" /\ getPids[d].pc # "write"
    <3>1. CASE UNCHANGED getPids
      BY <3>1
    <3>2. ASSUME NEW c \in Ctr, GetPidsRead(c)
          PROVE  \A d \in Ctr : (getPids'[d] = getPids[d]
                                \/ (getPids'[d].pc # "write" /\ getPids[d].pc # "write"))
      <4> DEFINE r == Running(c)
      <4>1. getPids' = [getPids EXCEPT ![c] = [pc |-> "read", pids |-> r]] /\ getPids[c].pc = "idle"
        BY <3>2 DEF GetPidsRead
      <4>2. DOMAIN getPids = Ctr
        BY DEF TypeOK
      <4> HIDE DEF r
      <4> QED
        BY <4>1, <4>2
    <3> QED
      BY <1>6, <3>1, <3>2
  <2>2. \A d \in Ctr : Content(d)' = Content(d)
    BY <1>6, <2>1 DEF Content, Rewritten
  <2> QED
    BY <1>4, <1>6, <2>2
<1>7. ASSUME GetVxpus PROVE SteadyOk'
  <2>1. UNCHANGED <<owner, phase, conf, getPids>> /\ steady' = Listed
    BY <1>7 DEF GetVxpus, podVars
  <2>2. Listed' = Listed
    BY <2>1, SameListed DEF Content, Rewritten
  <2>3. /\ call'.pc = "files" /\ call'.vxpus = Found /\ call'.unread = {v.ctr : v \in Found}
        /\ call'.unsampled = Gpu
    BY <1>7, BeginStep
  <2>4. ASSUME NEW i \in Listed, NEW g \in GpusOf(owner[i])
        PROVE  /\ [ctr |-> owner[i], gpu |-> g] \in Found
               /\ owner[i] \in {v.ctr : v \in Found} /\ g \in Gpu
    <3> DEFINE c == owner[i]
    <3>1. c \in Ctr /\ phase[c[1]] = "running" /\ c[1] \in Pod
      BY ListedFacts, CtrFacts
    <3>2. c \in CtrsOf(c[1])
      BY <3>1 DEF CtrsOf
    <3>3. [ctr |-> c, gpu |-> g] \in Vxpus(c[1])
      BY <3>1, <3>2, VxpusFacts
    <3>4. [ctr |-> c, gpu |-> g] \in Found
      BY <3>1, <3>3 DEF Found
    <3>5. [ctr |-> c, gpu |-> g].ctr = c
      OBVIOUS
    <3>6. g \in Gpu
      BY <3>1, GpusOfType
    <3> QED
      BY <3>4, <3>5, <3>6
  <2>5. \A i \in Listed : GpusOf(owner[i])' = GpusOf(owner[i])
    BY <2>1 DEF GpusOf
  <2> QED
    BY <2>1, <2>2, <2>3, <2>4, <2>5 DEF SteadyOk
<1>8. ASSUME NEW c \in Ctr, ReadPidsConfig(c) PROVE SteadyOk'
  <2>1. UNCHANGED <<owner, phase, conf, getPids, steady>>
    BY <1>8 DEF ReadPidsConfig, podVars
  <2>2. /\ call'.pc = "files" /\ call'.vxpus = call.vxpus /\ call'.unread = call.unread \ {c}
        /\ call'.pSet = [call.pSet EXCEPT ![c] = conf[c].pids]
        /\ call'.unsampled = call.unsampled /\ call'.processMap = call.processMap
    BY <1>8, ReadStep
  <2>3. DOMAIN call.pSet = Ctr
    BY DEF CallOk
  <2>4. ASSUME NEW i \in steady, owner[i] \in torn \cup call.unread \/ i \in call.pSet[owner[i]]
        PROVE  owner[i] \in torn' \cup call'.unread \/ i \in call'.pSet[owner[i]]
    <3>1. owner[i] \in Ctr /\ i \in Content(owner[i])
      BY ListedFacts DEF SteadyOk
    <3>2. torn' = IF Rewritten(c) THEN torn \cup {c} ELSE torn
      BY <1>8 DEF ReadPidsConfig
    <3>3. Rewritten(owner[i]) \/ i \in conf[owner[i]].pids
      BY <3>1 DEF Content
    <3> QED
      BY <2>2, <2>3, <2>4, <3>1, <3>2, <3>3
  <2>5. Listed' = Listed /\ \A i \in steady : GpusOf(owner[i])' = GpusOf(owner[i])
    BY <2>1, SameListed DEF Content, Rewritten, GpusOf
  <2> QED
    BY <2>1, <2>2, <2>4, <2>5 DEF SteadyOk
<1>9. ASSUME NEW h \in Gpu, NEW new,
             UNCHANGED <<owner, phase, conf, getPids, steady, torn>>,
             call'.pc = "files", UNCHANGED <<call.vxpus, call.unread, call.pSet>>,
             \/ /\ call'.unsampled = call.unsampled \ {h} /\ new = RunningOn(h)
                /\ call'.processMap = [call.processMap EXCEPT ![h] = new]
             \/ /\ call'.unsampled = call.unsampled
                /\ call'.processMap = [call.processMap EXCEPT ![h] = call.processMap[h] \cup new]
      PROVE  SteadyOk'
  <2>1. DOMAIN call.processMap = Gpu
    BY DEF CallOk
  <2>2. ASSUME NEW i \in steady, NEW g \in GpusOf(owner[i]),
               g \in call.unsampled \/ <<i, owner[i]>> \in call.processMap[g]
        PROVE  g \in call'.unsampled \/ <<i, owner[i]>> \in call'.processMap[g]
    <3>1. i \in Pid /\ owner[i] \in Ctr
      BY ListedFacts DEF SteadyOk
    <3>2. g \in Gpu /\ owner[i] # Nobody
      BY <3>1, GpusOfType, CtrFacts
    <3>3. g = h => <<i, owner[i]>> \in RunningOn(h)
      BY <3>1, <3>2 DEF RunningOn
    <3> QED
      BY <1>9, <2>1, <2>2, <3>2, <3>3
  <2>3. Listed' = Listed /\ \A i \in steady : GpusOf(owner[i])' = GpusOf(owner[i])
    BY <1>9, SameListed DEF Content, Rewritten, GpusOf
  <2> QED
    BY <1>9, <2>2, <2>3 DEF SteadyOk
<1>10. ASSUME NEW h \in Gpu, GetComputeRunningProcesses(h) PROVE SteadyOk'
  <2>1. UNCHANGED <<owner, phase, conf, getPids, steady, torn>>
    BY <1>10 DEF GetComputeRunningProcesses, podVars
  <2> QED
    BY <1>9, <1>10, <2>1, ProcessesStep
<1>11. ASSUME NEW h \in Gpu, DeviceGetProcessUtilization(h) PROVE SteadyOk'
  <2>1. UNCHANGED <<owner, phase, conf, getPids, steady, torn>>
    BY <1>11 DEF DeviceGetProcessUtilization, podVars
  <2>2. PICK sampled \in SUBSET (EndedOn(h) \cup RunningOn(h)) :
          /\ call'.pc = "files" /\ call'.vxpus = call.vxpus /\ call'.unread = call.unread
          /\ call'.pSet = call.pSet /\ call'.unsampled = call.unsampled
          /\ call'.processMap = [call.processMap EXCEPT ![h] = call.processMap[h] \cup sampled]
    BY <1>11, SamplesStep
  <2> QED
    BY <1>9, <2>1, <2>2
<1>12. ASSUME ReturnInfo PROVE SteadyOk'
  BY <1>12 DEF ReturnInfo, SteadyOk
<1>13. \/ (UNCHANGED <<call, owner, torn>> /\ StillSteady)
       \/ (UNCHANGED <<call, owner, phase, steady, torn, conf>>
             /\ (UNCHANGED getPids \/ \E c \in Ctr : GetPidsRead(c)))
       \/ \E i \in Pid : EndProcess(i) \/ \E c \in Ctr : StartProcess(i, c)
       \/ \E c \in Ctr : AllocateWrite(c) \/ ReadPidsConfig(c)
       \/ GetVxpus \/ ReturnInfo
       \/ \E g \in Gpu : GetComputeRunningProcesses(g) \/ DeviceGetProcessUtilization(g)
  BY DEF Next, Pods, Bind, Run, Succeed, Delete, Move, Processes, LoseSamples, Files, AllocateRead,
         GetPidsRead, GetPidsTruncate, GetPidsWrite, Cleaner, ListDirs, ListPods, RemoveDir, RemoveFails,
         GetAllVxpuInfo, podVars, vars
<1> QED
  BY <1>1, <1>2, <1>3, <1>5, <1>6, <1>7, <1>8, <1>10, <1>11, <1>12, <1>13

-----------------------------------------------------------------------------
(* Theorems                                                                *)

LEMMA InvInit == Init => Inv
<1> SUFFICES ASSUME Init PROVE Inv
  OBVIOUS
<1> DEFINE n == [c \in Ctr |-> {}]
           m == [g \in Gpu |-> {}]
<1>1. call = [pc |-> "idle", vxpus |-> {}, unread |-> {}, pSet |-> n, unsampled |-> {}, sampling |-> {},
             processMap |-> m]
  BY DEF Init, NoCall
<1>2. n \in [Ctr -> SUBSET Pid] /\ m \in [Gpu -> SUBSET (Pid \X (Ctr \cup {Nobody}))]
  OBVIOUS
<1>3. CallOk /\ call.pc = "idle" /\ call.pSet = n /\ call.sampling = {} /\ call.processMap = m
  <2> HIDE DEF n, m
  <2> QED
    BY <1>1, <1>2 DEF CallOk
<1>4. TypeOK
  <2>1. call.pc \in {"idle", "files"} /\ call.pSet \in [Ctr -> SUBSET Pid]
    BY <1>2, <1>3
  <2>2. /\ conf \in [Ctr -> [state : {"none", "dir", "file"}, pids : SUBSET Pid]]
        /\ \A c \in Ctr : conf[c].state # "file" => conf[c].pids = {}
        /\ getPids \in [Ctr -> [pc : {"idle", "read", "write"}, pids : SUBSET Pid]]
    BY DEF Init, NoDir, NoGetPids
  <2>3. 0 \in 0..MaxStarts
    BY VxpuInfoAssumption DEF VxpuInfoAssumption
  <2>4. cleaner = [pc |-> "remove", dirs |-> {}] /\ unlisted = FALSE
    BY DEF Init
  <2>5. cleaner \in [pc : {"dirs", "remove", "ended"}, dirs : SUBSET Pod] /\ cleaner.pc # "ended"
    BY <2>4
  <2>6. unlisted \in BOOLEAN /\ (unlisted <=> cleaner.pc = "ended")
    BY <2>4, <2>5, Zenon
  <2>7. /\ phase \in [Pod -> {"none", "bound", "running", "succeeded", "deleted"}]
        /\ owner \in [Pid -> Ctr \cup {Nobody}]
        /\ allocating \subseteq Ctr /\ torn \subseteq Ctr /\ samples \subseteq Pid \X Ctr
        /\ reused \cup steady \subseteq Pid /\ starts = 0
    BY DEF Init
  <2> QED
    BY <2>1, <2>2, <2>3, <2>5, <2>6, <2>7 DEF TypeOK
<1>5. DirsBound /\ CleanerOk
  BY DEF Init, DirsBound, CleanerOk
<1>6. Owners
  BY <1>3 DEF Init, Owners, In, NoDir, NoGetPids
<1>7. Sampled /\ SteadyOk
  BY <1>3 DEF Init, Sampled, SteadyOk
<1> QED
  BY <1>3, <1>4, <1>5, <1>6, <1>7 DEF Inv

LEMMA AlwaysInv == Spec => []Inv
<1>1. Inv /\ [Next]_vars => Inv'
  BY TypeStep, DirsBoundStep, CleanerStep, OwnersStep, SampledStep, SteadyStep DEF Inv
<1> QED
  BY InvInit, <1>1, PTL DEF Spec

\* Types, and what the cleaner's end means: a listing has failed.
THEOREM TypeCorrect == Spec => []TypeOK
<1>1. Inv => TypeOK
  BY DEF Inv
<1> QED
  BY <1>1, AlwaysInv, PTL

\* cleanDestroyedPodDir removes the directory of a container only when its pod
\* is gone from the API server: the directories are listed before the pods.
THEOREM GoneOnly == Spec => OnlyGonePodsCleaned
<1> DEFINE Step == \A c \in Ctr : conf[c] # NoDir /\ conf'[c] = NoDir => phase[c[1]] = "deleted"
<1>1. ASSUME Inv, [Next]_vars PROVE Step
  <2> USE <1>1
  <2>1. ASSUME UNCHANGED conf PROVE Step
    BY <2>1
  <2>2. ASSUME NEW c \in Ctr, AllocateWrite(c) PROVE Step
    <3>1. \A d \in Ctr : conf'[d] \in {conf[d], Dir}
      BY <2>2 DEF AllocateWrite, Inv, TypeOK
    <3>2. Dir.state # NoDir.state
      BY DEF Dir, NoDir
    <3> QED
      BY <3>1, <3>2
  <2>3. ASSUME NEW c \in Ctr, GetPidsTruncate(c) \/ GetPidsWrite(c) PROVE Step
    <3>1. \A d \in Ctr : conf'[d] \in {conf[d], File({}), File(getPids[d].pids)}
      BY <2>3, FileSteps DEF Inv
    <3>2. \A d \in Ctr : File({}).state # NoDir.state /\ File(getPids[d].pids).state # NoDir.state
      BY DEF File, NoDir
    <3> QED
      BY <3>1, <3>2
  <2>4. ASSUME NEW p \in Pod, RemoveDir(p) PROVE Step
    <3>1. phase[p] = "deleted"
      BY <2>4 DEF RemoveDir, Inv, CleanerOk
    <3>2. \A d \in Ctr : d[1] # p => conf'[d] = conf[d]
      BY <2>4 DEF RemoveDir
    <3> QED
      BY <3>1, <3>2
  <2>5. \/ UNCHANGED conf \/ \E p \in Pod : RemoveDir(p)
        \/ \E c \in Ctr : AllocateWrite(c) \/ GetPidsTruncate(c) \/ GetPidsWrite(c)
    BY DEF Next, Pods, Bind, Run, Succeed, Delete, Move, Processes, StartProcess, EndProcess, LoseSamples,
           Files, AllocateRead, GetPidsRead, Cleaner, ListDirs, ListPods, RemoveFails, GetAllVxpuInfo,
           GetVxpus, ReturnInfo, ReadPidsConfig, GetComputeRunningProcesses, DeviceGetProcessUtilization,
           podVars, vars
  <2> QED
    BY <2>1, <2>2, <2>3, <2>4, <2>5
<1>2. Step => [Step]_vars
  OBVIOUS
<1>3. Inv /\ [Next]_vars => [Step]_vars
  BY <1>1
<1>4. Spec => [][Step]_vars
  BY <1>3, AlwaysInv, PTL DEF Spec
<1> QED
  BY <1>4 DEF OnlyGonePodsCleaned

\* GetAllVxpuInfo counts a process that was listed and ran during the whole
\* call, for every vGPU of its container, unless it read the file while GetPids
\* had it truncated.
THEOREM NobodyMissed == Spec => []SteadyCounted
<1>1. ASSUME Inv PROVE SteadyCounted
  <2> SUFFICES ASSUME Complete, NEW i \in steady, owner[i] \notin torn, NEW g \in GpusOf(owner[i])
               PROVE  <<[ctr |-> owner[i], gpu |-> g], <<i, owner[i]>>>> \in Counted
    BY DEF SteadyCounted
  <2> DEFINE v == [ctr |-> owner[i], gpu |-> g]
             x == <<i, owner[i]>>
  <2>1. v \in call.vxpus /\ i \in call.pSet[owner[i]] /\ x \in call.processMap[g] /\ i \in Listed
    BY <1>1 DEF Inv, SteadyOk, Complete
  <2>2. g \in Gpu
    BY <1>1, <2>1, ListedFacts, GpusOfType DEF Inv
  <2>3. v.ctr = owner[i] /\ v.gpu = g /\ x[1] = i
    OBVIOUS
  <2> HIDE DEF v, x
  <2>4. <<v, x>> \in call.vxpus \X (UNION {call.processMap[h] : h \in Gpu})
    BY <2>1, <2>2
  <2>5. <<v, x>> \in Counted
    BY <2>1, <2>3, <2>4 DEF Counted
  <2> QED
    BY <2>5 DEF v, x
<1> QED
  BY <1>1, AlwaysInv, PTL

\* A process is counted for a container that is not its own only if its pid was
\* given out while something was left of an earlier process with that pid.
THEOREM OwnProcesses == Spec => []OwnUsage
<1>1. ASSUME Inv PROVE OwnUsage
  <2> SUFFICES ASSUME NEW u \in Counted PROVE u[1].ctr = u[2][2] \/ u[2][1] \in reused
    BY DEF OwnUsage
  <2>1. u[1] \in call.vxpus /\ u[2] \in call.processMap[u[1].gpu] /\ u[2][1] \in call.pSet[u[1].ctr]
    BY DEF Counted
  <2>2. u[1].ctr \in Ctr /\ u[1].gpu \in Gpu
    BY <1>1, <2>1 DEF Inv, CallOk
  <2> QED
    BY <1>1, <2>1, <2>2 DEF Inv, Sampled
<1> QED
  BY <1>1, AlwaysInv, PTL
=============================================================================
