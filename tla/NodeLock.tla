------------------------------ MODULE NodeLock ------------------------------
(***************************************************************************)
(* The per-node allocation lock of GPU-device-plugin/pkg/lock/nodelock.go. *)
(*                                                                         *)
(* The lock is an annotation of the Kubernetes Node object whose value is  *)
(* the host uptime at which it was written. A caller never holds anything  *)
(* but this annotation: ObtainLockNode and ReleaseNodeLock are sequences   *)
(* of Get and Update requests, and the API server accepts an Update only   *)
(* when it carries the resourceVersion of the current object.              *)
(*                                                                         *)
(* A client is one bind-and-allocate cycle of a pod: it obtains the lock   *)
(* (the scheduler's side of the protocol), is "held" while the plugin      *)
(* allocates, and releases it (the plugin's side).                         *)
(*                                                                         *)
(* The resourceVersion is abstracted to what the server does with it:      *)
(* fresh[c] says that the object c read last is still the current one, and *)
(* every write of the Node by anyone makes all the copies stale.           *)
(***************************************************************************)
EXTENDS Integers

CONSTANTS
  Client,               \* the bind-and-allocate cycles that compete for the node
  NoLock,               \* the annotation is absent
  MaxLockRetry,         \* maxLockRetry
  LockExpiredInterval,  \* lockExpiredInterval, in ticks of the clock
  MaxUptime,            \* bound on the modelled uptime
  MaxReboots            \* bound on host reboots

ASSUME NodeLockAssumption ==
  /\ MaxLockRetry \in Nat /\ LockExpiredInterval \in Nat
  /\ MaxUptime \in Nat /\ MaxReboots \in Nat
  /\ NoLock \notin Int

VARIABLES
  annotation,  \* value of the lock annotation: NoLock or the uptime written
  uptime,      \* /proc/uptime of the host
  fresh,       \* fresh[c]: the Node object c read last is still current
  pc,          \* where each client is
  tries,       \* tries[c]: the loop variable i of the retry loops
  stamp,       \* stamp[c]: the annotation value c read, or the uptime it writes
  age,         \* history: ticks since the annotation was written
  reboots,     \* number of reboots so far
  hazards      \* history: which of the three unguarded paths have been taken

vars == <<annotation, uptime, fresh, pc, tries, stamp, age, reboots, hazards>>

Obtaining  == {"expiryCheck", "expiredGet", "expiredUpdate", "expiredRetry",
               "setGet", "setUpdate", "setRetry"}
Releasing  == {"relGet", "relUpdate", "relRetry"}
Label      == {"idle", "held"} \cup Obtaining \cup Releasing
Hazard     == {"setRetry", "lostReply", "expiry"}

TypeOK ==
  /\ annotation \in Nat \cup {NoLock}
  /\ uptime \in Nat
  /\ fresh \in [Client -> BOOLEAN]
  /\ pc \in [Client -> Label]
  /\ tries \in [Client -> 0..MaxLockRetry]
  /\ stamp \in [Client -> Nat]
  /\ age \in Nat
  /\ reboots \in Nat
  /\ hazards \subseteq Hazard

Locked == annotation # NoLock

Init ==
  /\ annotation = NoLock
  /\ uptime = 0
  /\ fresh = [c \in Client |-> FALSE]
  /\ pc = [c \in Client |-> "idle"]
  /\ tries = [c \in Client |-> 0]
  /\ stamp = [c \in Client |-> 0]
  /\ age = 0
  /\ reboots = 0
  /\ hazards = {}

-----------------------------------------------------------------------------
(* What the API server does.                                               *)

Goto(c, label) == pc' = [pc EXCEPT ![c] = label]

\* A successful Get: c's copy is current.
Read(c) == fresh' = [fresh EXCEPT ![c] = TRUE]

\* Any write of the Node bumps its resourceVersion: every copy is stale.
Written == fresh' = [d \in Client |-> FALSE]

\* Clock, host and the other writer of the Node.
Tick ==
  /\ uptime < MaxUptime
  /\ uptime' = uptime + 1
  /\ age' = IF Locked THEN age + 1 ELSE 0
  /\ UNCHANGED <<annotation, fresh, pc, tries, stamp, reboots, hazards>>

\* The host restarts: its uptime starts again, the annotation stays. The
\* processes on it are gone with whatever they were doing.
Reboot ==
  /\ reboots < MaxReboots
  /\ reboots' = reboots + 1
  /\ uptime' = 0
  /\ pc' = [c \in Client |-> "idle"]
  /\ UNCHANGED <<annotation, fresh, tries, stamp, age, hazards>>

\* registerInAnnotation patches the same Node every 30 seconds.
RegisterPatch ==
  /\ \E c \in Client : fresh[c]
  /\ Written
  /\ UNCHANGED <<annotation, uptime, pc, tries, stamp, age, reboots, hazards>>

-----------------------------------------------------------------------------
(* ObtainLockNode                                                          *)

\* The first Get, and its early exits: an API error is returned at once.
ObtainGet(c) ==
  /\ pc[c] = "idle"
  /\ \/ /\ ~Locked
        /\ Goto(c, "setGet")
        /\ UNCHANGED stamp
     \/ /\ Locked
        /\ Goto(c, "expiryCheck")
        /\ stamp' = [stamp EXCEPT ![c] = annotation]
  /\ UNCHANGED <<annotation, uptime, fresh, tries, age, reboots, hazards>>

\* Mutant of Refuse: the expiry of the lock is not looked at.
RefuseAlways(c) ==
  /\ pc[c] = "expiryCheck"
  /\ Goto(c, "idle")
  /\ UNCHANGED <<annotation, uptime, fresh, tries, stamp, age, reboots, hazards>>

\* The annotation is too young: "has been locked within %f seconds".
Refuse(c) ==
  /\ pc[c] = "expiryCheck"
  /\ ~(uptime - stamp[c] > LockExpiredInterval)
  /\ Goto(c, "idle")
  /\ UNCHANGED <<annotation, uptime, fresh, tries, stamp, age, reboots, hazards>>

\* The annotation c read has expired: ReleaseNodeLock, then setNodeLock.
Expire(c) ==
  /\ pc[c] = "expiryCheck"
  /\ uptime - stamp[c] > LockExpiredInterval
  /\ Goto(c, "expiredGet")
  /\ hazards' = hazards \cup {"expiry"}
  /\ UNCHANGED <<annotation, uptime, fresh, tries, stamp, age, reboots>>

-----------------------------------------------------------------------------
(* setNodeLock                                                             *)

\* Mutant of SetGet: the check that the node is not locked is missing.
SetGetUnchecked(c) ==
  /\ pc[c] = "setGet"
  /\ tries' = [tries EXCEPT ![c] = 0]
  /\ Read(c)
  /\ stamp' = [stamp EXCEPT ![c] = uptime]
  /\ Goto(c, "setUpdate")
  /\ UNCHANGED <<annotation, uptime, age, reboots, hazards>>

\* Get; "node %s is locked" when the annotation is there; read the uptime.
SetGet(c) ==
  /\ pc[c] = "setGet"
  /\ tries' = [tries EXCEPT ![c] = 0]
  /\ \/ /\ ~Locked
        /\ Read(c)
        /\ stamp' = [stamp EXCEPT ![c] = uptime]
        /\ Goto(c, "setUpdate")
     \/ \* locked, or the Get failed
        /\ Goto(c, "idle")
        /\ UNCHANGED <<fresh, stamp>>
  /\ UNCHANGED <<annotation, uptime, age, reboots, hazards>>

\* Mutant of SetWrites: a write that does not carry the resourceVersion (a Patch).
SetWritesUnversioned(c) == annotation' = stamp[c] /\ age' = 0 /\ Written

\* The lock annotation as an accepted Update of c leaves it.
SetWrites(c) ==
  /\ fresh[c]
  /\ annotation' = stamp[c]
  /\ age' = 0
  /\ Written

\* Mutant of SetUpdateOK: the error of the Update is dropped.
SetUpdateErrDropped(c) ==
  /\ pc[c] = "setUpdate"
  /\ IF fresh[c] THEN SetWrites(c) ELSE UNCHANGED <<annotation, age, fresh>>
  /\ Goto(c, "held")
  /\ hazards' = IF tries[c] > 0 THEN hazards \cup {"setRetry"} ELSE hazards
  /\ UNCHANGED <<uptime, tries, stamp, reboots>>

\* Update accepted: setNodeLock returns nil, c holds the lock.
SetUpdateOK(c) ==
  /\ pc[c] = "setUpdate"
  /\ SetWrites(c)
  /\ Goto(c, "held")
  /\ hazards' = IF tries[c] > 0 THEN hazards \cup {"setRetry"} ELSE hazards
  /\ UNCHANGED <<uptime, tries, stamp, reboots>>

\* Mutant of NextTry: the loop variable is not advanced.
NextTryForEver(c, retry, giveUp) ==
  Goto(c, IF tries[c] <= MaxLockRetry THEN retry ELSE giveUp) /\ UNCHANGED tries

\* One more turn of a retry loop, or "exceeds retry count".
NextTry(c, retry, giveUp) ==
  \/ /\ tries[c] < MaxLockRetry
     /\ tries' = [tries EXCEPT ![c] = @ + 1]
     /\ Goto(c, retry)
  \/ /\ tries[c] = MaxLockRetry
     /\ Goto(c, giveUp)
     /\ UNCHANGED tries

\* Update failed: a conflict, an API error, or an applied one whose reply was lost.
SetUpdateErr(c) ==
  /\ pc[c] = "setUpdate"
  /\ \/ UNCHANGED <<annotation, age, fresh, hazards>>
     \/ SetWrites(c) /\ hazards' = hazards \cup {"lostReply"}
  /\ NextTry(c, "setRetry", "idle")
  /\ UNCHANGED <<uptime, stamp, reboots>>

\* The retry loop reads the Node and the uptime again, then goes straight to
\* the Update: it does not look at the annotation. A failed Get (or uptime
\* read) costs a turn.
SetRetry(c) ==
  /\ pc[c] = "setRetry"
  /\ \/ /\ Read(c)
        /\ stamp' = [stamp EXCEPT ![c] = uptime]
        /\ Goto(c, "setUpdate")
        /\ UNCHANGED tries
     \/ /\ NextTry(c, "setRetry", "idle")
        /\ UNCHANGED <<fresh, stamp>>
  /\ UNCHANGED <<annotation, uptime, age, reboots, hazards>>

-----------------------------------------------------------------------------
(* ReleaseNodeLock, called with the labels of its caller: the plugin at    *)
(* the end of an allocation, or ObtainLockNode for an expired lock.        *)

ReleaseLabels == [plugin  |-> [get |-> "relGet", update |-> "relUpdate",
                               retry |-> "relRetry", ok |-> "idle"],
                  expired |-> [get |-> "expiredGet", update |-> "expiredUpdate",
                               retry |-> "expiredRetry", ok |-> "setGet"]]

\* The pod of c is allocated (or failed): the plugin calls ReleaseNodeLock.
StartRelease(c) ==
  /\ pc[c] = "held"
  /\ Goto(c, "relGet")
  /\ UNCHANGED <<annotation, uptime, fresh, tries, stamp, age, reboots, hazards>>

\* The first Get: an error is returned, an absent annotation is a success.
ReleaseGet(c, l) ==
  /\ pc[c] = l.get
  /\ tries' = [tries EXCEPT ![c] = 0]
  /\ \/ Locked /\ Read(c) /\ Goto(c, l.update)
     \/ ~Locked /\ Goto(c, l.ok) /\ UNCHANGED fresh
     \/ Goto(c, "idle") /\ UNCHANGED fresh
  /\ UNCHANGED <<annotation, uptime, stamp, age, reboots, hazards>>

\* The annotation as an accepted Update of ReleaseNodeLock leaves it: whoever
\* wrote it, it is gone.
ReleaseWrites(c) ==
  /\ fresh[c]
  /\ annotation' = NoLock
  /\ age' = 0
  /\ Written

ReleaseUpdateOK(c, l) ==
  /\ pc[c] = l.update
  /\ ReleaseWrites(c)
  /\ Goto(c, l.ok)
  /\ UNCHANGED <<uptime, tries, stamp, reboots, hazards>>

ReleaseUpdateErr(c, l) ==
  /\ pc[c] = l.update
  /\ \/ UNCHANGED <<annotation, age, fresh, hazards>>
     \/ ReleaseWrites(c) /\ hazards' = hazards \cup {"lostReply"}
  /\ NextTry(c, l.retry, "idle")
  /\ UNCHANGED <<uptime, stamp, reboots>>

ReleaseRetry(c, l) ==
  /\ pc[c] = l.retry
  /\ \/ Read(c) /\ Goto(c, l.update) /\ UNCHANGED tries
     \/ NextTry(c, l.retry, "idle") /\ UNCHANGED fresh
  /\ UNCHANGED <<annotation, uptime, stamp, age, reboots, hazards>>

ReleaseNodeLock(c, l) ==
  \/ ReleaseGet(c, l)
  \/ ReleaseUpdateOK(c, l)
  \/ ReleaseUpdateErr(c, l)
  \/ ReleaseRetry(c, l)

-----------------------------------------------------------------------------
ClientStep(c) ==
  \/ Refuse(c) \/ Expire(c)
  \/ SetGet(c) \/ SetUpdateOK(c) \/ SetUpdateErr(c) \/ SetRetry(c)
  \/ ReleaseNodeLock(c, ReleaseLabels.plugin)
  \/ ReleaseNodeLock(c, ReleaseLabels.expired)

Next ==
  \/ Tick \/ Reboot \/ RegisterPatch
  \/ \E c \in Client : ObtainGet(c) \/ StartRelease(c) \/ ClientStep(c)

Spec == Init /\ [][Next]_vars

\* A call that was made runs on; whether the scheduler calls is its own affair.
FairSpec == Spec /\ \A c \in Client : WF_vars(ClientStep(c))

-----------------------------------------------------------------------------
(* Properties                                                              *)

Holders == {c \in Client : pc[c] = "held"}

\* "node %s is locked" (nodelock.go:75) and "has been locked" (:169): two
\* callers of ObtainLockNode are never both told that they hold the lock. The
\* retry loop of setNodeLock breaks this.
MutualExclusion == \A c, d \in Holders : c = d

\* What the optimistic concurrency of the first Update does give: as long as
\* no setNodeLock succeeded in its retry loop, no reply of an applied Update
\* was lost and no lock was taken over as expired, the lock is exclusive,
\* whatever conflicts, API errors and retried releases there were.
ExclusiveUnlessUnguarded == hazards = {} => MutualExclusion

\* A client that is told it holds the lock, or that has not finished giving it
\* back, is covered by an annotation on the Node: while none of the three
\* unguarded paths has been taken nobody else's write removes it.
HeldIsAnnotated ==
  hazards = {} => \A c \in Client : pc[c] \in {"held"} \cup Releasing => Locked

\* Why the two hold, as an inductive invariant: the clients that hold the lock
\* or are giving it back are one at most and are covered by the annotation;
\* a first Update that can still be accepted finds no annotation (and only the
\* first has tries = 0); and no call is inside the release of an expired lock.
Users == {c \in Client : pc[c] \in {"held"} \cup Releasing}

SoleUser == \A c, d \in Users : c = d
UsersLocked == \A c \in Users : Locked
FirstUpdateSafe ==
  \A c \in Client : pc[c] = "setUpdate" /\ fresh[c] /\ tries[c] = 0 => ~Locked
RetryCounted == \A c \in Client : pc[c] = "setRetry" => tries[c] > 0
NoTakeOver ==
  \A c \in Client : pc[c] \notin {"expiredGet", "expiredUpdate", "expiredRetry"}

LockInv ==
  /\ RetryCounted
  /\ hazards = {} => SoleUser /\ UsersLocked /\ FirstUpdateSafe /\ NoTakeOver

\* Until the host reboots the annotation never lies about the lock's age, nor
\* does the copy of it on which a call decides.
AgeInv ==
  reboots = 0 =>
    /\ Locked => annotation + age <= uptime
    /\ \A c \in Client : /\ pc[c] = "setUpdate" => stamp[c] <= uptime
                         /\ pc[c] = "expiryCheck" => stamp[c] + age <= uptime

\* All three are inductive together.
Inv == TypeOK /\ LockInv /\ AgeInv

\* While no unguarded path is taken, NodeLock is the lock of Mutex: it passes
\* from free to one client that obtains it, and is given back by that client and
\* nobody else. A client whose release fails, or whose host restarts, leaves it
\* taken, and then it is the expiry that frees it (nodelock.go:163).
M == INSTANCE Mutex WITH owners <- Users, taken <- Locked
ImplementsMutex == M!Init /\ [][hazards' = {} => [M!Next]_(M!vars)]_vars

\* Until the host reboots a caller that is refused has met a lock that was taken, by one
\* holder or by the next, no more than LockExpiredInterval ago.
RefusedOnlyIfRecent ==
  [][\A c \in Client : Refuse(c) /\ reboots = 0 => age <= LockExpiredInterval]_vars

\* nodelock.go:169, "has been locked within %f seconds", says so of every
\* refusal. After a reboot the uptime starts below the annotation.
RefusalSaysRecent ==
  [][\A c \in Client : Refuse(c) => age <= LockExpiredInterval]_vars

\* Every call returns: the retry loops are bounded even when every request fails.
CallsReturn ==
  \A c \in Client : pc[c] \in Obtaining \cup Releasing ~> pc[c] \in {"idle", "held"}
=============================================================================
