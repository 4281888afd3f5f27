--------------------------- MODULE NodeLock_proofs ---------------------------
(***************************************************************************)
(* Theorems about NodeLock, for every set of clients, every retry limit,   *)
(* every expiry interval and every bound on the clock.                     *)
(***************************************************************************)
EXTENDS NodeLock, TLAPS

\* A turn of a retry loop keeps the loop variable in its range.
LEMMA NextTryType ==
  ASSUME TypeOK, NEW c \in Client, NEW retry \in Label, NEW giveUp \in Label,
         NextTry(c, retry, giveUp)
  PROVE  /\ tries' \in [Client -> 0..MaxLockRetry]
         /\ pc' \in [Client -> Label]
<1> USE NodeLockAssumption
<1>1. CASE tries[c] < MaxLockRetry
  <2>1. tries[c] + 1 \in 0..MaxLockRetry
    BY <1>1 DEF TypeOK
  <2>2. tries' = [tries EXCEPT ![c] = tries[c] + 1] /\ pc' = [pc EXCEPT ![c] = retry]
    BY <1>1 DEF NextTry, TypeOK, Goto
  <2> QED
    BY <2>1, <2>2 DEF TypeOK
<1>2. CASE ~(tries[c] < MaxLockRetry)
  <2>1. tries' = tries /\ pc' = [pc EXCEPT ![c] = giveUp]
    BY <1>2 DEF NextTry, TypeOK, Goto
  <2> QED
    BY <2>1 DEF TypeOK
<1> QED
  BY <1>1, <1>2

\* The two callers of ReleaseNodeLock jump to labels only.
Callers == {ReleaseLabels.plugin, ReleaseLabels.expired}

LEMMA CallersGoToLabels ==
  ASSUME NEW l \in Callers
  PROVE  l.get \in Label /\ l.update \in Label /\ l.retry \in Label /\ l.ok \in Label
BY DEF Callers, ReleaseLabels, Label, Obtaining, Releasing

\* Every variable keeps its type (the state of nodelock.go's calls and of the
\* Node object they read and write).
THEOREM TypeCorrect == Spec => []TypeOK
<1> USE NodeLockAssumption
<1>1. Init => TypeOK
  BY DEF Init, TypeOK, Label
<1>2. TypeOK /\ [Next]_vars => TypeOK'
  <2> SUFFICES ASSUME TypeOK, [Next]_vars PROVE TypeOK'
    OBVIOUS
  <2> /\ {"idle", "held", "expiryCheck", "expiredGet", "setGet", "setUpdate",
          "setRetry", "relGet"} \subseteq Label
      /\ {"setRetry", "lostReply", "expiry"} \subseteq Hazard
      /\ 0 \in 0..MaxLockRetry
    BY DEF Label, Obtaining, Releasing, Hazard
  <2> USE DEF Goto, Read, Written, SetWrites, ReleaseWrites, Locked
  <2>1. CASE Tick
    BY <2>1 DEF Tick, TypeOK
  <2>2. CASE Reboot
    BY <2>2 DEF Reboot, TypeOK
  <2>3. CASE RegisterPatch
    BY <2>3 DEF RegisterPatch, TypeOK
  <2>4. ASSUME NEW c \in Client, ObtainGet(c) PROVE TypeOK'
    BY <2>4 DEF ObtainGet, TypeOK
  <2>5. ASSUME NEW c \in Client, StartRelease(c) PROVE TypeOK'
    BY <2>5 DEF StartRelease, TypeOK
  <2>6. ASSUME NEW c \in Client, ClientStep(c) PROVE TypeOK'
    <3>1. CASE Refuse(c)
      BY <3>1 DEF Refuse, TypeOK
    <3>2. CASE Expire(c)
      BY <3>2 DEF Expire, TypeOK
    <3>3. CASE SetGet(c)
      BY <3>3 DEF SetGet, TypeOK
    <3>4. CASE SetUpdateOK(c)
      BY <3>4 DEF SetUpdateOK, TypeOK
    <3>5. CASE SetUpdateErr(c)
      <4>1. NextTry(c, "setRetry", "idle")
        BY <3>5 DEF SetUpdateErr
      <4>2. tries' \in [Client -> 0..MaxLockRetry] /\ pc' \in [Client -> Label]
        BY <4>1, NextTryType
      <4>3. CASE UNCHANGED <<annotation, age, fresh, hazards>>
        BY <3>5, <4>2, <4>3 DEF SetUpdateErr, TypeOK
      <4>4. CASE SetWrites(c) /\ hazards' = hazards \cup {"lostReply"}
        BY <3>5, <4>2, <4>4 DEF SetUpdateErr, TypeOK
      <4> QED
        BY <3>5, <4>3, <4>4 DEF SetUpdateErr
    <3>6. CASE SetRetry(c)
      <4>1. CASE NextTry(c, "setRetry", "idle") /\ UNCHANGED <<fresh, stamp>>
        <5>1. tries' \in [Client -> 0..MaxLockRetry] /\ pc' \in [Client -> Label]
          BY <4>1, NextTryType
        <5> QED
          BY <3>6, <4>1, <5>1 DEF SetRetry, TypeOK
      <4>2. CASE /\ Read(c)
                 /\ stamp' = [stamp EXCEPT ![c] = uptime]
                 /\ Goto(c, "setUpdate")
                 /\ UNCHANGED tries
        BY <3>6, <4>2 DEF SetRetry, TypeOK
      <4> QED
        BY <3>6, <4>1, <4>2 DEF SetRetry
    <3>7. ASSUME NEW l \in Callers, ReleaseNodeLock(c, l)
          PROVE  TypeOK'
      <4> l.get \in Label /\ l.update \in Label /\ l.retry \in Label /\ l.ok \in Label
        BY CallersGoToLabels
      <4>1. CASE ReleaseGet(c, l)
        BY <4>1 DEF ReleaseGet, TypeOK
      <4>2. CASE ReleaseUpdateOK(c, l)
        BY <4>2 DEF ReleaseUpdateOK, TypeOK
      <4>3. CASE ReleaseUpdateErr(c, l)
        <5>1. NextTry(c, l.retry, "idle")
          BY <4>3 DEF ReleaseUpdateErr
        <5>2. tries' \in [Client -> 0..MaxLockRetry] /\ pc' \in [Client -> Label]
          BY <5>1, NextTryType
        <5>3. CASE UNCHANGED <<annotation, age, fresh, hazards>>
          BY <4>3, <5>2, <5>3 DEF ReleaseUpdateErr, TypeOK
        <5>4. CASE ReleaseWrites(c) /\ hazards' = hazards \cup {"lostReply"}
          BY <4>3, <5>2, <5>4 DEF ReleaseUpdateErr, TypeOK
        <5> QED
          BY <4>3, <5>3, <5>4 DEF ReleaseUpdateErr
      <4>4. CASE ReleaseRetry(c, l)
        <5>1. CASE NextTry(c, l.retry, "idle") /\ UNCHANGED fresh
          <6>1. tries' \in [Client -> 0..MaxLockRetry] /\ pc' \in [Client -> Label]
            BY <5>1, NextTryType
          <6> QED
            BY <4>4, <5>1, <6>1 DEF ReleaseRetry, TypeOK
        <5>2. CASE Read(c) /\ Goto(c, l.update) /\ UNCHANGED tries
          BY <4>4, <5>2 DEF ReleaseRetry, TypeOK
        <5> QED
          BY <4>4, <5>1, <5>2 DEF ReleaseRetry
      <4> QED
        BY <3>7, <4>1, <4>2, <4>3, <4>4 DEF ReleaseNodeLock
    <3> QED
      BY <2>6, <3>1, <3>2, <3>3, <3>4, <3>5, <3>6, <3>7 DEF ClientStep, Callers
  <2>7. CASE UNCHANGED vars
    BY <2>7 DEF vars, TypeOK
  <2> QED
    BY <2>1, <2>2, <2>3, <2>4, <2>5, <2>6, <2>7 DEF Next
<1> QED
  BY <1>1, <1>2, PTL DEF Spec

\* Whoever is in the retry loop of setNodeLock has been round it.
LEMMA RetryCountedStep == TypeOK /\ RetryCounted /\ [Next]_vars => RetryCounted'
<1> SUFFICES ASSUME TypeOK, RetryCounted, [Next]_vars PROVE RetryCounted'
  OBVIOUS
<1> USE NodeLockAssumption DEF Goto, RetryCounted, NextTry
<1>1. CASE Tick
  BY <1>1 DEF Tick
<1>2. CASE Reboot
  BY <1>2 DEF Reboot
<1>3. CASE RegisterPatch
  BY <1>3 DEF RegisterPatch
<1>4. ASSUME NEW c \in Client, ObtainGet(c) \/ StartRelease(c) PROVE RetryCounted'
  BY <1>4 DEF ObtainGet, StartRelease, TypeOK
<1>5. ASSUME NEW c \in Client, ClientStep(c) PROVE RetryCounted'
  <2>1. CASE Refuse(c) \/ Expire(c) \/ SetGet(c) \/ SetUpdateOK(c)
    BY <2>1 DEF Refuse, Expire, SetGet, SetUpdateOK, TypeOK
  <2>2. CASE SetUpdateErr(c)
    BY <2>2 DEF SetUpdateErr, TypeOK
  <2>3. CASE SetRetry(c)
    BY <2>3 DEF SetRetry, TypeOK
  <2>4. ASSUME NEW l \in Callers, ReleaseNodeLock(c, l) PROVE RetryCounted'
    <3>1. {l.get, l.update, l.retry, l.ok} \cap {"setRetry"} = {}
      BY DEF Callers, ReleaseLabels
    <3>2. CASE ReleaseGet(c, l)
      BY <3>1, <3>2 DEF ReleaseGet, TypeOK
    <3>3. CASE ReleaseUpdateOK(c, l)
      BY <3>1, <3>3 DEF ReleaseUpdateOK, TypeOK
    <3>4. CASE ReleaseUpdateErr(c, l)
      BY <3>1, <3>4 DEF ReleaseUpdateErr, TypeOK
    <3>5. CASE ReleaseRetry(c, l)
      BY <3>1, <3>5 DEF ReleaseRetry, TypeOK
    <3> QED
      BY <2>4, <3>2, <3>3, <3>4, <3>5 DEF ReleaseNodeLock
  <2> QED
    BY <1>5, <2>1, <2>2, <2>3, <2>4 DEF ClientStep, Callers
<1>6. CASE UNCHANGED vars
  BY <1>6 DEF vars
<1> QED
  BY <1>1, <1>2, <1>3, <1>4, <1>5, <1>6 DEF Next

\* LockInv is preserved by every step. The case that carries the argument is
\* SetUpdateOK: hazards' = {} leaves only a first Update (tries[c] = 0), which
\* is accepted only with a current copy, so FirstUpdateSafe says that there is
\* no annotation and UsersLocked that there is no other user.
LEMMA LockInvStep == TypeOK /\ LockInv /\ [Next]_vars => LockInv'
<1> SUFFICES ASSUME TypeOK, LockInv, [Next]_vars, hazards' = {}
             PROVE  (SoleUser /\ UsersLocked /\ FirstUpdateSafe /\ NoTakeOver)'
  BY RetryCountedStep DEF LockInv
<1> DEFINE I == SoleUser /\ UsersLocked /\ FirstUpdateSafe /\ NoTakeOver
<1> USE NodeLockAssumption
<1> USE DEF Goto, Read, Written, SetWrites, ReleaseWrites, Locked,
            SoleUser, UsersLocked, FirstUpdateSafe, NoTakeOver, Users, Releasing
<1>1. CASE Tick
  BY <1>1 DEF Tick, TypeOK, LockInv
<1>2. CASE Reboot
  BY <1>2 DEF Reboot, TypeOK, LockInv
<1>3. CASE RegisterPatch
  BY <1>3 DEF RegisterPatch, TypeOK, LockInv
<1>4. ASSUME NEW c \in Client, ObtainGet(c) PROVE I'
  BY <1>4 DEF ObtainGet, TypeOK, LockInv
<1>5. ASSUME NEW c \in Client, StartRelease(c) PROVE I'
  BY <1>5 DEF StartRelease, TypeOK, LockInv
<1>6. ASSUME NEW c \in Client, ClientStep(c) PROVE I'
  <2>1. CASE Refuse(c)
    BY <2>1 DEF Refuse, TypeOK, LockInv
  <2>2. CASE Expire(c)
    BY <2>2 DEF Expire
  <2>3. CASE SetGet(c)
    BY <2>3 DEF SetGet, TypeOK, LockInv
  <2>4. CASE SetUpdateOK(c)
    <3>1. hazards = {} /\ ~(tries[c] > 0)
      BY <2>4 DEF SetUpdateOK
    <3>2. tries[c] = 0
      BY <3>1 DEF TypeOK
    <3>3. ~Locked
      BY <2>4, <3>1, <3>2 DEF SetUpdateOK, LockInv
    <3>4. Users = {}
      BY <3>1, <3>3 DEF LockInv
    <3>5. Users' = {c}
      BY <2>4, <3>4 DEF SetUpdateOK, TypeOK
    <3>6. annotation' \in Nat
      BY <2>4 DEF SetUpdateOK, TypeOK
    <3>7. SoleUser' /\ UsersLocked'
      BY <3>5, <3>6
    <3>8. FirstUpdateSafe' /\ NoTakeOver'
      BY <2>4, <3>1 DEF SetUpdateOK, TypeOK, LockInv
    <3> QED
      BY <3>7, <3>8
  <2>5. CASE SetUpdateErr(c)
    <3>1. hazards = {} /\ UNCHANGED <<annotation, fresh>>
      BY <2>5 DEF SetUpdateErr
    <3>2. \/ pc' = [pc EXCEPT ![c] = "idle"] /\ UNCHANGED tries
          \/ pc' = [pc EXCEPT ![c] = "setRetry"] /\ tries' = [tries EXCEPT ![c] = @ + 1]
      BY <2>5 DEF SetUpdateErr, NextTry
    <3> QED
      BY <2>5, <3>1, <3>2 DEF SetUpdateErr, TypeOK, LockInv
  <2>6. CASE SetRetry(c)
    <3>1. CASE /\ Read(c)
               /\ Goto(c, "setUpdate")
               /\ UNCHANGED tries
      BY <2>6, <3>1 DEF SetRetry, TypeOK, LockInv, RetryCounted
    <3>2. CASE NextTry(c, "setRetry", "idle") /\ UNCHANGED <<fresh, stamp>>
      BY <2>6, <3>2 DEF SetRetry, NextTry, TypeOK, LockInv
    <3> QED
      BY <2>6, <3>1, <3>2 DEF SetRetry
  <2>7. ASSUME NEW l \in Callers, ReleaseNodeLock(c, l) PROVE I'
    <3>1. l = ReleaseLabels.plugin
      <4>1. hazards = {}
        BY <2>7 DEF ReleaseNodeLock, ReleaseGet, ReleaseUpdateOK, ReleaseUpdateErr,
                    ReleaseRetry
      <4>2. pc[c] \in {l.get, l.update, l.retry}
        BY <2>7 DEF ReleaseNodeLock, ReleaseGet, ReleaseUpdateOK, ReleaseUpdateErr,
                    ReleaseRetry
      <4> QED
        BY <4>1, <4>2 DEF Callers, ReleaseLabels, LockInv
    <3>2. /\ l.get = "relGet" /\ l.update = "relUpdate"
          /\ l.retry = "relRetry" /\ l.ok = "idle"
      BY <3>1 DEF ReleaseLabels
    <3>3. CASE ReleaseGet(c, l)
      BY <3>2, <3>3 DEF ReleaseGet, TypeOK, LockInv
    <3>4. CASE ReleaseUpdateOK(c, l)
      BY <3>2, <3>4 DEF ReleaseUpdateOK, TypeOK, LockInv
    <3>5. CASE ReleaseUpdateErr(c, l)
      <4>1. hazards = {} /\ UNCHANGED <<annotation, fresh>>
        BY <3>5 DEF ReleaseUpdateErr
      <4> QED
        BY <3>2, <3>5, <4>1 DEF ReleaseUpdateErr, NextTry, TypeOK, LockInv
    <3>6. CASE ReleaseRetry(c, l)
      BY <3>2, <3>6 DEF ReleaseRetry, NextTry, TypeOK, LockInv
    <3> QED
      BY <2>7, <3>3, <3>4, <3>5, <3>6 DEF ReleaseNodeLock
  <2> QED
    BY <1>6, <2>1, <2>2, <2>3, <2>4, <2>5, <2>6, <2>7 DEF ClientStep, Callers
<1>7. CASE UNCHANGED vars
  BY <1>7 DEF vars, LockInv
<1> QED
  BY <1>1, <1>2, <1>3, <1>4, <1>5, <1>6, <1>7 DEF Next

\* LockInv holds in every reachable state.
THEOREM LockInvariant == Spec => []LockInv
<1>1. Init => LockInv
  BY DEF Init, LockInv, RetryCounted, SoleUser, UsersLocked, FirstUpdateSafe,
         NoTakeOver, Users, Releasing, Locked
<1> QED
  BY <1>1, LockInvStep, TypeCorrect, PTL DEF Spec

\* The lock is exclusive as long as none of the three unguarded paths of
\* nodelock.go is taken: two calls of ObtainLockNode never both succeed.
THEOREM Exclusive == Spec => []ExclusiveUnlessUnguarded
<1>1. LockInv => ExclusiveUnlessUnguarded
  BY DEF LockInv, ExclusiveUnlessUnguarded, MutualExclusion, SoleUser, Users, Holders
<1> QED
  BY <1>1, LockInvariant, PTL

\* Under the same condition the annotation stays on the Node until its holder
\* has given the lock back.
THEOREM HolderCovered == Spec => []HeldIsAnnotated
<1>1. LockInv => HeldIsAnnotated
  BY DEF LockInv, HeldIsAnnotated, UsersLocked, Users
<1> QED
  BY <1>1, LockInvariant, PTL

-----------------------------------------------------------------------------
\* A step of client c takes the lock, gives it back, loses it or does neither.
LEMMA MutexStep ==
  ASSUME TypeOK, LockInv, [Next]_vars, hazards' = {} PROVE [M!Next]_(M!vars)
<1> USE DEF Locked, Releasing
<1> SUFFICES \/ UNCHANGED <<Users, Locked>>
             \/ \E c \in Client : Users = {c} /\ Users' = {} /\ (~Locked' \/ Locked' = Locked)
             \/ \E c \in Client : ~Locked /\ Locked' /\ Users' = {c}
  BY DEF M!Next, M!vars, M!Acquire, M!Release, M!Lose
<1>1. hazards = {}
  BY DEF Next, Tick, Reboot, RegisterPatch, ObtainGet, StartRelease, ClientStep, Refuse, Expire, SetGet,
         SetUpdateOK, SetUpdateErr, SetRetry, ReleaseNodeLock, ReleaseGet, ReleaseUpdateOK,
         ReleaseUpdateErr, ReleaseRetry, vars
<1>2. SoleUser /\ UsersLocked /\ FirstUpdateSafe /\ NoTakeOver
  BY <1>1 DEF LockInv
<1>3. \A c \in Client : c \in Users => Users = {c} /\ Locked
  BY <1>2 DEF SoleUser, UsersLocked, Users
<1>4. ASSUME annotation' = annotation, NEW c \in Client, NEW l, pc' = [pc EXCEPT ![c] = l],
             l \in {"held", "relGet", "relUpdate", "relRetry"} <=>
               pc[c] \in {"held", "relGet", "relUpdate", "relRetry"}
      PROVE  UNCHANGED <<Users, Locked>>
  BY <1>4 DEF Users, TypeOK
<1>5. ASSUME NEW c \in Client, c \in Users, pc' = [pc EXCEPT ![c] = "idle"]
      PROVE  Users = {c} /\ Users' = {}
  BY <1>3, <1>5 DEF Users, TypeOK
<1>6. CASE Tick \/ RegisterPatch \/ UNCHANGED vars
  BY <1>6 DEF Tick, RegisterPatch, vars, Users
<1>7. CASE Reboot
  <2>1. Users' = {} /\ Locked' = Locked
    BY <1>7 DEF Reboot, Users
  <2>2. Users = {} \/ \E c \in Client : Users = {c}
    BY <1>3 DEF Users
  <2> QED
    BY <2>1, <2>2
<1>8. ASSUME NEW c \in Client, ObtainGet(c) PROVE UNCHANGED <<Users, Locked>>
  BY <1>4, <1>8 DEF ObtainGet, Goto
<1>9. ASSUME NEW c \in Client, StartRelease(c) PROVE UNCHANGED <<Users, Locked>>
  BY <1>4, <1>9 DEF StartRelease, Goto
<1>10. ASSUME NEW c \in Client, Refuse(c) \/ Expire(c) \/ SetGet(c) PROVE UNCHANGED <<Users, Locked>>
  BY <1>4, <1>10 DEF Refuse, Expire, SetGet, Goto
<1>11. ASSUME NEW c \in Client, SetUpdateErr(c) \/ SetRetry(c) PROVE UNCHANGED <<Users, Locked>>
  <2>1. annotation' = annotation /\ pc[c] \in {"setUpdate", "setRetry"}
    BY <1>11 DEF SetUpdateErr, SetRetry
  <2>2. \E l \in {"setUpdate", "setRetry", "idle"} : pc' = [pc EXCEPT ![c] = l]
    BY <1>11 DEF SetUpdateErr, SetRetry, NextTry, Goto
  <2> QED
    BY <1>4, <2>1, <2>2
<1>12. ASSUME NEW c \in Client, SetUpdateOK(c) PROVE ~Locked /\ Locked' /\ Users' = {c}
  <2>1. tries[c] = 0
    BY <1>1, <1>12 DEF SetUpdateOK, TypeOK
  <2>2. ~Locked
    BY <1>2, <1>12, <2>1 DEF SetUpdateOK, SetWrites, FirstUpdateSafe
  <2>3. Users = {}
    BY <1>3, <2>2 DEF Users
  <2>4. stamp[c] # NoLock
    BY NodeLockAssumption DEF NodeLockAssumption, TypeOK
  <2>5. annotation' = stamp[c] /\ pc' = [pc EXCEPT ![c] = "held"]
    BY <1>12 DEF SetUpdateOK, SetWrites, Goto
  <2>6. Users' = {c}
    BY <2>3, <2>5 DEF Users, TypeOK
  <2> QED
    BY <2>2, <2>4, <2>5, <2>6
<1>13. ASSUME NEW c \in Client, ReleaseNodeLock(c, ReleaseLabels.expired) PROVE FALSE
  BY <1>2, <1>13 DEF ReleaseNodeLock, ReleaseLabels, ReleaseGet, ReleaseUpdateOK, ReleaseUpdateErr,
                     ReleaseRetry, NoTakeOver
<1>14. ASSUME NEW c \in Client, ReleaseNodeLock(c, ReleaseLabels.plugin)
       PROVE  \/ UNCHANGED <<Users, Locked>>
              \/ Users = {c} /\ Users' = {} /\ (~Locked' \/ Locked' = Locked)
  <2>1. pc[c] \in {"relGet", "relUpdate", "relRetry"}
    BY <1>14 DEF ReleaseNodeLock, ReleaseLabels, ReleaseGet, ReleaseUpdateOK, ReleaseUpdateErr, ReleaseRetry
  <2>2. c \in Users /\ Locked
    BY <1>3, <2>1 DEF Users
  <2>3. CASE ReleaseUpdateOK(c, ReleaseLabels.plugin)
    <3>1. ~Locked' /\ pc' = [pc EXCEPT ![c] = "idle"]
      BY <2>3 DEF ReleaseUpdateOK, ReleaseWrites, ReleaseLabels, Goto
    <3> QED
      BY <1>5, <2>2, <3>1
  <2>4. CASE ~ReleaseUpdateOK(c, ReleaseLabels.plugin)
    <3>1. annotation' = annotation /\ \E l \in {"relUpdate", "relRetry", "idle"} : pc' = [pc EXCEPT ![c] = l]
      BY <1>1, <1>14, <2>2, <2>4 DEF ReleaseNodeLock, ReleaseLabels, ReleaseGet, ReleaseUpdateErr,
                                     ReleaseRetry, NextTry, Goto
    <3> QED
      BY <1>4, <1>5, <2>1, <2>2, <3>1
  <2> QED
    BY <2>3, <2>4
<1> QED
  BY <1>6, <1>7, <1>8, <1>9, <1>10, <1>11, <1>12, <1>13, <1>14 DEF Next, ClientStep

\* Refinement: as long as none of the three unguarded paths is taken, the
\* annotation and the calls of nodelock.go are the lock of Mutex.
THEOREM IsMutex == Spec => ImplementsMutex
<1>1. Init => M!Init
  BY DEF Init, M!Init, Users, Releasing, Locked
<1>2. TypeOK /\ LockInv /\ [Next]_vars => (hazards' = {} => [M!Next]_(M!vars))
  BY MutexStep
<1> QED
  BY <1>1, <1>2, TypeCorrect, LockInvariant, PTL DEF Spec, ImplementsMutex

-----------------------------------------------------------------------------
\* Until the host reboots the age of the lock never exceeds what the annotation
\* tells.
LEMMA AgeInvStep == TypeOK /\ AgeInv /\ [Next]_vars => AgeInv'
<1> SUFFICES ASSUME TypeOK, AgeInv, [Next]_vars PROVE AgeInv'
  OBVIOUS
<1> USE NodeLockAssumption
<1> USE DEF Goto, Read, Written, SetWrites, ReleaseWrites, Locked, AgeInv
<1>1. CASE Tick
  BY <1>1 DEF Tick, TypeOK
<1>2. CASE Reboot
  BY <1>2 DEF Reboot, TypeOK
<1>3. CASE RegisterPatch
  BY <1>3 DEF RegisterPatch
<1>4. ASSUME NEW c \in Client, ObtainGet(c) \/ StartRelease(c) PROVE AgeInv'
  BY <1>4 DEF ObtainGet, StartRelease, TypeOK
<1>5. ASSUME NEW c \in Client, ClientStep(c) PROVE AgeInv'
  <2>1. CASE Refuse(c) \/ Expire(c)
    BY <2>1 DEF Refuse, Expire, TypeOK
  <2>2. CASE SetGet(c)
    BY <2>2 DEF SetGet, TypeOK
  <2>3. CASE SetUpdateOK(c)
    BY <2>3 DEF SetUpdateOK, TypeOK
  <2>4. CASE SetUpdateErr(c)
    BY <2>4 DEF SetUpdateErr, NextTry, TypeOK
  <2>5. CASE SetRetry(c)
    BY <2>5 DEF SetRetry, NextTry, TypeOK
  <2>6. ASSUME NEW l \in Callers, ReleaseNodeLock(c, l) PROVE AgeInv'
    <3>1. \A x \in {l.get, l.update, l.retry, l.ok} : x \notin {"setUpdate", "expiryCheck"}
      BY DEF Callers, ReleaseLabels
    <3>2. CASE ReleaseGet(c, l)
      BY <3>1, <3>2 DEF ReleaseGet, TypeOK
    <3>3. CASE ReleaseUpdateOK(c, l)
      BY <3>1, <3>3 DEF ReleaseUpdateOK, TypeOK
    <3>4. ASSUME NextTry(c, l.retry, "idle")
          PROVE  \A d \in Client : pc'[d] \in {"setUpdate", "expiryCheck"} => pc'[d] = pc[d]
      <4>1. PICK x \in {l.retry, "idle"} : pc' = [pc EXCEPT ![c] = x]
        BY <3>4 DEF NextTry
      <4> QED
        BY <3>1, <4>1 DEF TypeOK
    <3>5. CASE ReleaseUpdateErr(c, l)
      <4>1. NextTry(c, l.retry, "idle")
        BY <3>5 DEF ReleaseUpdateErr
      <4> QED
        BY <3>4, <3>5, <4>1 DEF ReleaseUpdateErr, TypeOK
    <3>6. CASE ReleaseRetry(c, l)
      <4>1. CASE Read(c) /\ Goto(c, l.update) /\ UNCHANGED tries
        BY <3>1, <3>6, <4>1 DEF ReleaseRetry, TypeOK
      <4>2. CASE NextTry(c, l.retry, "idle")
        BY <3>4, <3>6, <4>2 DEF ReleaseRetry, TypeOK
      <4> QED
        BY <3>6, <4>1, <4>2 DEF ReleaseRetry
    <3> QED
      BY <2>6, <3>2, <3>3, <3>5, <3>6 DEF ReleaseNodeLock
  <2> QED
    BY <1>5, <2>1, <2>2, <2>3, <2>4, <2>5, <2>6 DEF ClientStep, Callers
<1>6. CASE UNCHANGED vars
  BY <1>6 DEF vars
<1> QED
  BY <1>1, <1>2, <1>3, <1>4, <1>5, <1>6 DEF Next

\* What TLC checks in one go: the types, why the lock is exclusive, and its age.
THEOREM Invariant == Spec => []Inv
<1>1. Init => AgeInv
  BY DEF Init, AgeInv, Locked
<1> QED
  BY <1>1, AgeInvStep, TypeCorrect, LockInvariant, PTL DEF Spec, Inv

\* Until the host reboots, ObtainLockNode refuses with "has been locked within
\* 300 seconds" only when the lock is at most that old.
THEOREM RefusalIsRecent == Spec => RefusedOnlyIfRecent
<1>1. Inv => [\A c \in Client : Refuse(c) /\ reboots = 0 => age <= LockExpiredInterval]_vars
  BY NodeLockAssumption DEF Inv, TypeOK, AgeInv, Refuse
<1> QED
  BY <1>1, Invariant, PTL DEF Spec, RefusedOnlyIfRecent

=============================================================================
