-------------------------- MODULE FileLogger_proofs --------------------------
(***************************************************************************)
(* Theorems about FileLogger, for all lengths of entries and of the file,  *)
(* and for any number of backups, rotations, crashes and failing steps.    *)
(* Long lists, whose sort may swap a file and its compressed twin, are     *)
(* among them; KeepsNewest says what they can do.                          *)
(*                                                                         *)
(* What keeps a backup is that the goroutine acts on a listing that grows  *)
(* old only in one direction: a backup it means to remove is not, and can  *)
(* not become, one of the newest, unless a new one takes its name.         *)
(***************************************************************************)
EXTENDS FileLogger, FiniteSetTheorems, WellFoundedInduction, TLAPS

Later(t) == {u \in Time : u > t /\ made[u] # None}

\* The backups that KeepsNewest is about.
Newest(t) == made[t] # None /\ t \notin clash /\ ~TooOld(t) /\ Cardinality(Later(t)) < Sure(t)

LogFile == [size : -1..MaxLen, open : BOOLEAN, written : 0..MaxLen]

WorkerType == [started : BOOLEAN, woken : BOOLEAN, phase : {"idle", "remove", "copy", "unlink"},
               remove : SUBSET (Time \X {"raw", "gz"}), compress : SUBSET Time, src : 0..MaxRotations]

Types ==
  /\ now \in Time /\ log \in LogFile
  /\ raw \in [Time -> 0..MaxRotations] /\ gz \in [Time -> Partial..MaxRotations]
  /\ made \in [Time -> 0..MaxRotations] /\ clash \subseteq Time /\ swapped \subseteq Time
  /\ worker \in WorkerType

\* Files that no other took the name of hold what was renamed to them, or a
\* part of it.
FilesOk == \A t \in Time :
  /\ made[t] = None => raw[t] = None /\ gz[t] = None
  /\ t \notin clash => raw[t] \in {None, made[t]} /\ gz[t] \in {None, Partial, made[t]}

\* What the goroutine will remove is there and can be spared.
RemoveOk == \A t \in Time :
  /\ <<t, "raw">> \in worker.remove => raw[t] # None /\ ~Newest(t)
  /\ <<t, "gz">> \in worker.remove => gz[t] # None /\ (Newest(t) => raw[t] = made[t])

\* What it will compress is there and stays there until it has been compressed.
CompressOk == \A t \in worker.compress : raw[t] # None /\ <<t, "raw">> \notin worker.remove

\* What it is compressing is being copied from the file it opened.
CopyOk == worker.phase \in {"copy", "unlink"} =>
  /\ worker.remove = {} /\ worker.compress # {}
  /\ Current \notin clash => worker.src = made[Current]
                             /\ (worker.phase = "unlink" => gz[Current] = made[Current])

NewestKept == \A t \in Time : Newest(t) => made[t] \in {raw[t], gz[t]}

Backups == FilesOk /\ NewestKept /\ RemoveOk /\ CompressOk /\ CopyOk

Inv == Types /\ SizeKnown /\ Backups

LEMMA Constants ==
  /\ MaxLen \in Nat \ {0} /\ Lens \subseteq Nat \ {0} /\ MaxBackups \in Nat \ {0}
  /\ MaxAge \in Nat \ {0} /\ Horizon \in Nat /\ MaxRotations \in Nat
BY FileLoggerAssumption DEF FileLoggerAssumption

\* A set of naturals that is bounded has a greatest element.
LEMMA GreatestExists ==
  ASSUME NEW b \in Nat, NEW S \in SUBSET (0..b), S # {}
  PROVE  Max(S) \in S /\ \A i \in S : i <= Max(S)
<1> DEFINE D == {b - i : i \in S}
<1>1. D \in SUBSET Nat /\ D # {}
  <2>1. \A i \in S : b - i \in Nat
    OBVIOUS
  <2>2. PICK i \in S : TRUE
    OBVIOUS
  <2>3. b - i \in D
    BY <2>2
  <2> QED
    BY <2>1, <2>3
<1>2. IsWellFoundedOn(OpToRel(<, Nat), Nat)
  BY NatLessThanWellFounded
<1> HIDE DEF D
<1>3. PICK m \in D : \A i \in D : ~(<<i, m>> \in OpToRel(<, Nat))
  BY <1>1, <1>2, WFMin
<1>4. ASSUME NEW i \in D PROVE m <= i
  <2>1. ~(i < m) /\ i \in Nat /\ m \in Nat
    BY <1>1, <1>3 DEF OpToRel
  <2> QED
    BY <2>1
<1>5. PICK x \in S : m = b - x
  BY DEF D
<1>6. ASSUME NEW i \in S PROVE x >= i
  <2>1. m <= b - i
    BY <1>4 DEF D
  <2> QED
    BY <1>5, <2>1
<1>7. \E y \in S : \A i \in S : y >= i
  BY <1>6
<1>8. Max(S) \in S /\ \A i \in S : Max(S) >= i
  BY <1>7 DEF Max
<1> QED
  BY <1>8

LEMMA LaterFinite ==
  ASSUME NEW S \in SUBSET Time PROVE IsFiniteSet(S) /\ Cardinality(S) \in Nat
<1>1. IsFiniteSet(Time)
  BY Constants, FS_Interval DEF Time
<1> QED
  BY <1>1, FS_Subset, FS_CardinalityType

-----------------------------------------------------------------------------
(* Write                                                                   *)

\* What a call of Write works on.
Data == [log : LogFile, raw : [Time -> Nat], made : [Time -> Nat], clash : SUBSET Time]

\* The log was renamed to now, once or more often.
Moved(d, e) == \E n \in Nat \ {0} :
  /\ e.raw = [d.raw EXCEPT ![now] = n] /\ e.made = [d.made EXCEPT ![now] = n]
  /\ d.clash \subseteq e.clash /\ e.clash \subseteq d.clash \cup {now}
  /\ d.raw[now] # None \/ gz[now] # None => now \in e.clash

Same(d, e) == e.raw = d.raw /\ e.made = d.made /\ e.clash = d.clash

LEMMA MovedTwice ==
  ASSUME now \in Time, NEW d \in Data, NEW e \in Data, NEW h \in Data,
         Same(d, e) \/ Moved(d, e), Same(e, h) \/ Moved(e, h)
  PROVE  Same(d, h) \/ Moved(d, h)
<1>1. CASE Same(d, e)
  BY <1>1 DEF Same, Moved
<1>2. CASE Moved(d, e) /\ Same(e, h)
  BY <1>2 DEF Same, Moved
<1>3. CASE Moved(d, e) /\ Moved(e, h)
  <2>1. PICK n \in Nat \ {0} :
          /\ e.raw = [d.raw EXCEPT ![now] = n] /\ e.made = [d.made EXCEPT ![now] = n]
          /\ d.clash \subseteq e.clash /\ e.clash \subseteq d.clash \cup {now}
    BY <1>3 DEF Moved
  <2>2. PICK k \in Nat \ {0} :
          /\ h.raw = [e.raw EXCEPT ![now] = k] /\ h.made = [e.made EXCEPT ![now] = k]
          /\ e.clash \subseteq h.clash /\ h.clash \subseteq e.clash \cup {now}
          /\ e.raw[now] # None \/ gz[now] # None => now \in h.clash
    BY <1>3 DEF Moved
  <2>3. d.raw \in [Time -> Nat] /\ d.made \in [Time -> Nat]
    BY DEF Data
  <2>4. h.raw = [d.raw EXCEPT ![now] = k] /\ h.made = [d.made EXCEPT ![now] = k]
    BY <2>1, <2>2, <2>3
  <2>5. e.raw[now] # None
    BY <2>1, <2>3 DEF None
  <2> QED
    BY <2>1, <2>2, <2>4, <2>5 DEF Moved
<1> QED
  BY <1>1, <1>2, <1>3

\* openNew keeps what it does not rename; a file it opens is empty.
LEMMA OpenNewFacts ==
  ASSUME now \in Time, NEW d \in Data, NEW f, NEW b \in Nat,
         \A t \in Time : d.made[t] <= b
  PROVE  /\ OpenNew(d, f) \in Data
         /\ Same(d, OpenNew(d, f)) \/ Moved(d, OpenNew(d, f))
         /\ \A t \in Time : OpenNew(d, f).made[t] <= b + 1
         /\ OpenNew(d, f).log.open <=> f = "none"
         /\ f = "none" => OpenNew(d, f).log.size = 0 /\ OpenNew(d, f).log.written = 0
<1> DEFINE w == IF f = "none" THEN 0 ELSE d.log.written
           moved == d.log.size # -1 /\ f # "rename"
           M == {0} \cup {d.made[t] : t \in Time}
           n == Max(M) + 1
           l == [size |-> CASE f = "rename" -> d.log.size [] f = "create" -> -1 [] OTHER -> 0,
                 open |-> f = "none", written |-> w]
           r == IF moved THEN [d.raw EXCEPT ![now] = n] ELSE d.raw
           m == IF moved THEN [d.made EXCEPT ![now] = n] ELSE d.made
           c == IF moved /\ (d.raw[now] # None \/ gz[now] # None) THEN d.clash \cup {now} ELSE d.clash
           e == [log |-> l, raw |-> r, made |-> m, clash |-> c]
<1>1. OpenNew(d, f) = [log |-> l, raw |-> r, made |-> m, clash |-> c]
  BY Zenon DEF OpenNew, OpenNewWritten
<1>2. d.log \in LogFile /\ d.raw \in [Time -> Nat] /\ d.made \in [Time -> Nat] /\ d.clash \in SUBSET Time
  BY DEF Data
<1>3. n \in Nat \ {0} /\ n <= b + 1
  <2>1. M \in SUBSET (0..b) /\ M # {}
    BY <1>2
  <2> HIDE DEF M
  <2>2. Max(M) \in M
    BY <2>1, GreatestExists
  <2>3. Max(M) \in 0..b
    BY <2>1, <2>2
  <2> QED
    BY <2>3
<1> HIDE DEF n
<1>4. w \in 0..MaxLen
  BY <1>2, Constants DEF LogFile
<1>5. l \in LogFile
  <2>1. (CASE f = "rename" -> d.log.size [] f = "create" -> -1 [] OTHER -> 0) \in -1..MaxLen
    BY <1>2, Constants DEF LogFile
  <2> QED
    BY <1>4, <2>1 DEF LogFile
<1>6. r \in [Time -> Nat] /\ m \in [Time -> Nat] /\ c \in SUBSET Time
  BY <1>2, <1>3
<1>7. \A t \in Time : m[t] <= b + 1
  BY <1>2, <1>3
<1>8. l.open <=> f = "none"
  OBVIOUS
<1>9. f = "none" => l.size = 0 /\ l.written = 0
  OBVIOUS
<1>10. \/ r = d.raw /\ m = d.made /\ c = d.clash
      \/ /\ r = [d.raw EXCEPT ![now] = n] /\ m = [d.made EXCEPT ![now] = n]
         /\ d.clash \subseteq c /\ c \subseteq d.clash \cup {now}
         /\ d.raw[now] # None \/ gz[now] # None => now \in c
  OBVIOUS
<1> HIDE DEF l, r, m, c
<1>11. e.log = l /\ e.raw = r /\ e.made = m /\ e.clash = c /\ e \in Data
  BY <1>5, <1>6 DEF Data
<1>12. Same(d, e) \/ Moved(d, e)
  BY <1>3, <1>10, <1>11 DEF Same, Moved
<1> QED
  BY <1>1, <1>7, <1>8, <1>9, <1>11, <1>12, Zenon

\* openExistingOrNew: a file that it goes on with has the length it is known by.
LEMMA OpenExistingFacts ==
  ASSUME now \in Time, NEW d \in Data, NEW n \in Nat \ {0}, NEW f,
         \A t \in Time : d.made[t] <= MaxRotations, ~d.log.open
  PROVE  /\ OpenExistingOrNew(d, n, f) \in Data
         /\ Same(d, OpenExistingOrNew(d, n, f)) \/ Moved(d, OpenExistingOrNew(d, n, f))
         /\ \A t \in Time : OpenExistingOrNew(d, n, f).made[t] <= MaxRotations + 1
         /\ OpenExistingOrNew(d, n, f).log.open =>
              OpenExistingOrNew(d, n, f).log.written = OpenExistingOrNew(d, n, f).log.size
<1> DEFINE e == OpenExistingOrNew(d, n, f)
<1>1. d.log \in LogFile /\ d.raw \in [Time -> Nat] /\ d.made \in [Time -> Nat] /\ d.clash \in SUBSET Time
  BY DEF Data
<1>2. ASSUME NEW g, e = OpenNew(d, g)
      PROVE  /\ e \in Data /\ (Same(d, e) \/ Moved(d, e))
             /\ \A t \in Time : e.made[t] <= MaxRotations + 1
             /\ e.log.open => e.log.written = e.log.size
  <2>1. /\ OpenNew(d, g) \in Data /\ (Same(d, OpenNew(d, g)) \/ Moved(d, OpenNew(d, g)))
        /\ \A t \in Time : OpenNew(d, g).made[t] <= MaxRotations + 1
        /\ OpenNew(d, g).log.open <=> g = "none"
        /\ g = "none" => OpenNew(d, g).log.size = 0 /\ OpenNew(d, g).log.written = 0
    BY Constants, OpenNewFacts
  <2> QED
    BY <1>2, <2>1, Zenon
<1>3. ASSUME e = [d EXCEPT !.log.open = TRUE, !.log.written = d.log.size], d.log.size # -1
      PROVE  /\ e \in Data /\ (Same(d, e) \/ Moved(d, e))
             /\ \A t \in Time : e.made[t] <= MaxRotations + 1
             /\ e.log.open => e.log.written = e.log.size
  <2> DEFINE s == d.log.size
             l == [size |-> s, open |-> TRUE, written |-> s]
  <2>1. d.log = [size |-> d.log.size, open |-> d.log.open, written |-> d.log.written]
    BY <1>1 DEF LogFile
  <2>2. e = [log |-> l, raw |-> d.raw, made |-> d.made, clash |-> d.clash]
    BY <1>1, <1>3, <2>1 DEF Data
  <2>3. s \in 0..MaxLen
    BY <1>1, <1>3, Constants DEF LogFile
  <2>4. l \in LogFile /\ l.written = l.size
    BY <2>3 DEF LogFile
  <2> HIDE DEF l, e
  <2>5. e \in Data /\ e.log = l /\ Same(d, e) /\ e.made = d.made
    BY <1>1, <2>2, <2>4 DEF Data, Same
  <2>6. \A t \in Time : d.made[t] <= MaxRotations + 1
    BY <1>1, Constants
  <2> QED
    BY <2>4, <2>5, <2>6
<1>4. \/ \E g : e = OpenNew(d, g)
      \/ e = [d EXCEPT !.log.open = TRUE, !.log.written = d.log.size] /\ d.log.size # -1
  BY DEF OpenExistingOrNew
<1> HIDE DEF e
<1>5. /\ e \in Data /\ (Same(d, e) \/ Moved(d, e))
      /\ \A t \in Time : e.made[t] <= MaxRotations + 1
      /\ e.log.open => e.log.written = e.log.size
  BY <1>2, <1>3, <1>4
<1> QED
  BY <1>5 DEF e

LEMMA ClosedFile ==
  ASSUME NEW d \in Data, NEW e, e = [d EXCEPT !.log.open = FALSE]
  PROVE  e \in Data /\ e.raw = d.raw /\ e.made = d.made /\ e.clash = d.clash
<1> DEFINE l == [size |-> d.log.size, open |-> FALSE, written |-> d.log.written]
<1>1. d.log \in LogFile /\ d.raw \in [Time -> Nat] /\ d.made \in [Time -> Nat] /\ d.clash \in SUBSET Time
  BY DEF Data
<1>2. d.log = [size |-> d.log.size, open |-> d.log.open, written |-> d.log.written]
  BY <1>1 DEF LogFile
<1>3. e = [log |-> l, raw |-> d.raw, made |-> d.made, clash |-> d.clash]
  BY <1>1, <1>2 DEF Data
<1>4. l \in LogFile
  BY <1>1 DEF LogFile
<1> HIDE DEF l
<1> QED
  BY ONLY <1>1, <1>3, <1>4 DEF Data

\* The log has become the backup of now.
Renamed == \E n \in 1..MaxRotations :
  /\ raw' = [raw EXCEPT ![now] = n] /\ made' = [made EXCEPT ![now] = n]
  /\ clash \subseteq clash' /\ clash' \subseteq clash \cup {now}
  /\ raw[now] # None \/ gz[now] # None => now \in clash'

LEMMA WriteFacts ==
  ASSUME Types, SizeKnown, NEW n \in Lens, NEW f, Write(n, f)
  PROVE  /\ log' \in LogFile /\ SizeKnown'
         /\ UNCHANGED <<raw, made, clash>> \/ Renamed
<1> DEFINE d0 == [log |-> log, raw |-> raw, made |-> made, clash |-> clash]
           d1 == IF log.open THEN d0 ELSE OpenExistingOrNew(d0, n, f)
           full == d1.log.open /\ d1.log.written + n >= MaxLen
           shut == [d1 EXCEPT !.log.open = FALSE]
           d2 == IF full THEN OpenNew(shut, f) ELSE d1
<1>1. /\ n <= MaxLen
      /\ f # "none" => (f = "append" => ~log.open)
      /\ log' = IF d2.log.open THEN [d2.log EXCEPT !.size = @ + n, !.written = @ + n] ELSE d2.log
      /\ raw' = d2.raw /\ made' = d2.made /\ clash' = d2.clash
      /\ \A t \in Time : made'[t] <= MaxRotations
  BY Zenon DEF Write
<1>2. now \in Time /\ n \in Nat \ {0} /\ log \in LogFile
  BY Constants DEF Types
<1>3. d0 \in Data /\ d0.log = log /\ d0.raw = raw /\ d0.made = made /\ d0.clash = clash
  BY DEF Types, Data
<1>4. \A t \in Time : d0.made[t] <= MaxRotations
  BY <1>3 DEF Types
<1> HIDE DEF d0
<1>5. /\ d1 \in Data /\ (Same(d0, d1) \/ Moved(d0, d1))
      /\ \A t \in Time : d1.made[t] <= MaxRotations + 1
      /\ d1.log.open => d1.log.written = d1.log.size
  <2>1. CASE log.open
    <3>1. d1 = d0
      BY <2>1
    <3>2. \A t \in Time : d0.made[t] <= MaxRotations + 1
      BY <1>3, <1>4, Constants DEF Data
    <3> HIDE DEF d1
    <3> QED
      BY <1>3, <2>1, <3>1, <3>2 DEF Same, SizeKnown
  <2>2. CASE ~log.open
    <3>1. d1 = OpenExistingOrNew(d0, n, f)
      BY <2>2
    <3> HIDE DEF d1
    <3> QED
      BY <1>2, <1>3, <1>4, <2>2, <3>1, OpenExistingFacts, Zenon
  <2> QED
    BY <2>1, <2>2
<1> HIDE DEF d1
<1>6. shut \in Data /\ shut.raw = d1.raw /\ shut.made = d1.made /\ shut.clash = d1.clash
  BY <1>5, ClosedFile
<1> HIDE DEF shut
<1>7. /\ d2 \in Data /\ (Same(d1, d2) \/ Moved(d1, d2))
      /\ d2.log.open => d2.log.written = d2.log.size /\ d2.log.size + n <= MaxLen
  <2>1. CASE full
    <3>1. d2 = OpenNew(shut, f)
      BY <2>1
    <3>2. MaxRotations + 1 \in Nat /\ \A t \in Time : shut.made[t] <= MaxRotations + 1
      BY <1>5, <1>6, Constants
    <3> HIDE DEF d2
    <3>3. /\ d2 \in Data /\ (Same(shut, d2) \/ Moved(shut, d2))
          /\ d2.log.open <=> f = "none"
          /\ f = "none" => d2.log.size = 0 /\ d2.log.written = 0
      <4>1. PICK b \in Nat : b = MaxRotations + 1
        BY <3>2
      <4>2. \A t \in Time : shut.made[t] <= b
        BY <3>2, <4>1
      <4>3. /\ OpenNew(shut, f) \in Data /\ (Same(shut, OpenNew(shut, f)) \/ Moved(shut, OpenNew(shut, f)))
            /\ OpenNew(shut, f).log.open <=> f = "none"
            /\ f = "none" => OpenNew(shut, f).log.size = 0 /\ OpenNew(shut, f).log.written = 0
        BY <1>2, <1>6, <4>2, OpenNewFacts
      <4> QED
        BY <3>1, <4>3, Zenon
    <3>4. Same(d1, d2) \/ Moved(d1, d2)
      BY <1>6, <3>3 DEF Same, Moved
    <3> QED
      BY <1>1, <1>2, <3>3, <3>4
  <2>2. CASE ~full
    <3>1. d2 = d1
      BY <2>2
    <3>2. d1.log.open => d1.log.written + n <= MaxLen
      BY <1>2, <1>5, <2>2, Constants DEF Data, LogFile
    <3> HIDE DEF d2
    <3> QED
      BY <1>5, <3>1, <3>2 DEF Same
  <2> QED
    BY <2>1, <2>2
<1> HIDE DEF d2, full
<1>8. d2.log \in LogFile
  BY <1>7 DEF Data
<1>9. log' \in LogFile /\ SizeKnown'
  <2>1. CASE ~d2.log.open
    BY <1>1, <1>8, <2>1 DEF SizeKnown
  <2>2. CASE d2.log.open
    <3>1. log' = [d2.log EXCEPT !.size = @ + n, !.written = @ + n]
      BY <1>1, <2>2
    <3>2. log' = [size |-> d2.log.size + n, open |-> TRUE, written |-> d2.log.written + n]
      BY <1>8, <2>2, <3>1 DEF LogFile
    <3>3. d2.log.size + n \in 0..MaxLen /\ d2.log.written = d2.log.size
      BY <1>2, <1>7, <1>8, <2>2, Constants DEF LogFile
    <3> QED
      BY <3>2, <3>3 DEF LogFile, SizeKnown
  <2> QED
    BY <2>1, <2>2
<1>10. Same(d0, d2) \/ Moved(d0, d2)
  BY <1>2, <1>3, <1>5, <1>7, MovedTwice
<1>11. CASE Same(d0, d2)
  BY <1>1, <1>3, <1>9, <1>11 DEF Same
<1>12. CASE Moved(d0, d2)
  <2>1. PICK k \in Nat \ {0} :
          /\ d2.raw = [d0.raw EXCEPT ![now] = k] /\ d2.made = [d0.made EXCEPT ![now] = k]
          /\ d0.clash \subseteq d2.clash /\ d2.clash \subseteq d0.clash \cup {now}
          /\ d0.raw[now] # None \/ gz[now] # None => now \in d2.clash
    BY <1>12 DEF Moved
  <2>2. made' = [made EXCEPT ![now] = k] /\ made'[now] <= MaxRotations
    BY <1>1, <1>2, <1>3, <2>1
  <2>3. k \in 1..MaxRotations
    BY <1>2, <2>2, Constants DEF Types
  <2>4. Renamed
    BY <1>1, <1>3, <2>1, <2>2, <2>3 DEF Renamed
  <2> QED
    BY <1>9, <2>4
<1> QED
  BY <1>10, <1>11, <1>12

-----------------------------------------------------------------------------
(* Types                                                                   *)

LEMMA CurrentIn ==
  ASSUME Types, worker.compress # {} PROVE Current \in worker.compress /\ Current \in Time
<1>1. worker.compress \in SUBSET (0..Horizon) /\ Horizon \in Nat
  BY Constants DEF Types, WorkerType, Time
<1>2. Max(worker.compress) \in worker.compress
  BY <1>1, GreatestExists
<1> QED
  BY <1>1, <1>2 DEF Current, Time

\* What handleStaleLogRunOnce finds to remove.
LEMMA ListedFacts ==
  ASSUME NEW swap
  PROVE  /\ ToRemove(swap) \subseteq Time \X {"raw", "gz"}
         /\ \A t \in Time :
              /\ <<t, "raw">> \in ToRemove(swap) => raw[t] # None /\ ~Kept(t, After(t, t \in swap))
              /\ <<t, "gz">> \in ToRemove(swap) =>
                   gz[t] # None /\ ~Kept(t, After(t, t \in Twins \ swap))
<1> DEFINE R == {u \in Time : raw[u] # None /\ ~Kept(u, After(u, u \in swap))}
           Z == {u \in Time : gz[u] # None /\ ~Kept(u, After(u, u \in Twins \ swap))}
<1>1. ToRemove(swap) = {<<t, "raw">> : t \in R} \cup {<<t, "gz">> : t \in Z}
  BY DEF ToRemove
<1>2. /\ \A t \in R : t \in Time /\ raw[t] # None /\ ~Kept(t, After(t, t \in swap))
      /\ \A t \in Z : t \in Time /\ gz[t] # None /\ ~Kept(t, After(t, t \in Twins \ swap))
  OBVIOUS
<1> HIDE DEF R, Z
<1>3. ToRemove(swap) \subseteq Time \X {"raw", "gz"}
  BY <1>1, <1>2
<1>4. \A t : <<t, "raw">> \in ToRemove(swap) => t \in R
  BY <1>1
<1>5. \A t : <<t, "gz">> \in ToRemove(swap) => t \in Z
  BY <1>1
<1> QED
  BY <1>2, <1>3, <1>4, <1>5

LEMMA InvInit == Init => Inv
<1> SUFFICES ASSUME Init PROVE Inv
  OBVIOUS
<1>1. now \in Time /\ 0 \in 0..MaxRotations /\ 0 \in Partial..MaxRotations /\ 0 \in 0..MaxLen /\ -1 \in -1..MaxLen
  BY Constants DEF Init, Time, Partial
<1>2. log \in LogFile
  BY <1>1 DEF Init, LogFile
<1>3. worker \in WorkerType
  BY <1>1 DEF Init, Idle, None, WorkerType
<1>4. Types
  BY <1>1, <1>2, <1>3 DEF Init, None, Types
<1>5. SizeKnown
  BY DEF Init, SizeKnown
<1>6. Backups
  BY DEF Init, Idle, None, Backups, FilesOk, NewestKept, Newest, RemoveOk, CompressOk, CopyOk
<1> QED
  BY <1>4, <1>5, <1>6 DEF Inv

LEMMA TypesStep == Types /\ SizeKnown /\ [Next]_vars => Types' /\ SizeKnown'
<1> SUFFICES ASSUME Types, SizeKnown, [Next]_vars PROVE Types' /\ SizeKnown'
  OBVIOUS
<1>1. worker \in WorkerType /\ raw \in [Time -> 0..MaxRotations] /\ gz \in [Time -> Partial..MaxRotations]
  BY DEF Types
<1>2. 0 \in 0..MaxRotations /\ 0 \in Partial..MaxRotations /\ -1 \in Partial..MaxRotations
      /\ (\A k \in 0..MaxRotations : k \in Partial..MaxRotations)
  BY Constants DEF Partial
<1>3. ASSUME UNCHANGED <<now, log, made, clash, swapped>>, worker' \in WorkerType,
             raw' \in [Time -> 0..MaxRotations], gz' \in [Time -> Partial..MaxRotations]
      PROVE  Types' /\ SizeKnown'
  BY <1>3 DEF Types, SizeKnown
<1>4. ASSUME NEW n \in Lens, NEW f, Write(n, f) PROVE Types' /\ SizeKnown'
  <2>1. log' \in LogFile /\ SizeKnown' /\ (UNCHANGED <<raw, made, clash>> \/ Renamed)
    BY <1>4, WriteFacts
  <2>2. UNCHANGED <<now, gz, swapped>> /\ (worker' = worker \/ worker' = PostRotateCompressLog)
    BY <1>4, Zenon DEF Write
  <2>3. worker' \in WorkerType
    BY <1>1, <2>2 DEF PostRotateCompressLog, WorkerType
  <2>4. raw' \in [Time -> 0..MaxRotations] /\ made' \in [Time -> 0..MaxRotations] /\ clash' \subseteq Time
    BY <2>1, Constants DEF Types, Renamed
  <2> QED
    BY <2>1, <2>2, <2>3, <2>4 DEF Types
<1>5. ASSUME HandleStaleLogRunOnce PROVE Types' /\ SizeKnown'
  <2>1. PICK swap \in Swaps : ListedAs(swap) /\ swapped' = swapped \cup swap
    BY <1>5 DEF HandleStaleLogRunOnce
  <2>2. ToRemove(swap) \subseteq Time \X {"raw", "gz"} /\ ToCompress(swap) \subseteq Time
    BY ListedFacts DEF ToCompress
  <2>3. worker' \in WorkerType
    BY <1>1, <2>1, <2>2 DEF ListedAs, WorkerType
  <2>4. swapped' \subseteq Time
    BY <2>1 DEF Swaps, Twins, Types
  <2> QED
    BY <2>1, <2>3, <2>4 DEF ListedAs, Types, SizeKnown
<1>6. ASSUME RemoveNext PROVE Types' /\ SizeKnown'
  <2>1. worker' \in WorkerType
    BY <1>1, <1>6 DEF RemoveNext, Works, Fails, WorkerType
  <2>2. raw' \in [Time -> 0..MaxRotations] /\ gz' \in [Time -> Partial..MaxRotations]
    BY <1>1, <1>2, <1>6 DEF RemoveNext, Works, Fails, None
  <2> QED
    BY <1>3, <1>6, <2>1, <2>2 DEF RemoveNext, Works, Fails
<1>7. Rest \in WorkerType
  BY <1>1, <1>2 DEF Rest, None, WorkerType
<1>8. ASSUME CompressOpen PROVE Types' /\ SizeKnown'
  <2>1. Current \in Time
    BY <1>8, CurrentIn DEF CompressOpen
  <2>2. [worker EXCEPT !.phase = "copy", !.src = raw[Current]] \in WorkerType
    BY <1>1, <2>1 DEF WorkerType
  <2>3. worker' \in WorkerType
    BY <1>7, <1>8, <2>2, Zenon DEF CompressOpen, Works, Fails
  <2>4. raw' \in [Time -> 0..MaxRotations] /\ gz' \in [Time -> Partial..MaxRotations]
    BY <1>1, <1>2, <1>8 DEF CompressOpen, Works, Fails, Partial
  <2> QED
    BY <1>3, <1>8, <2>3, <2>4 DEF CompressOpen, Works, Fails
<1>9. ASSUME CompressCopy PROVE Types' /\ SizeKnown'
  <2>1. worker' \in WorkerType
    BY <1>1, <1>7, <1>9 DEF CompressCopy, Works, Fails, WorkerType
  <2>2. raw' \in [Time -> 0..MaxRotations] /\ gz' \in [Time -> Partial..MaxRotations]
    BY <1>1, <1>2, <1>9 DEF CompressCopy, Works, Fails, WorkerType, None
  <2> QED
    BY <1>3, <1>9, <2>1, <2>2 DEF CompressCopy, Works, Fails
<1>10. ASSUME CompressUnlink PROVE Types' /\ SizeKnown'
  <2>1. worker' \in WorkerType
    BY <1>7, <1>10 DEF CompressUnlink, Works, Fails
  <2>2. raw' \in [Time -> 0..MaxRotations] /\ gz' \in [Time -> Partial..MaxRotations]
    BY <1>1, <1>2, <1>10 DEF CompressUnlink, Works, Fails, None
  <2> QED
    BY <1>3, <1>10, <2>1, <2>2 DEF CompressUnlink, Works, Fails
<1>11. ASSUME RunEnds PROVE Types' /\ SizeKnown'
  <2>1. worker' \in WorkerType
    BY <1>1, <1>11 DEF RunEnds, Works, WorkerType
  <2> QED
    BY <1>1, <1>3, <1>11, <2>1 DEF RunEnds, Works
<1>12. ASSUME Crash PROVE Types' /\ SizeKnown'
  <2>1. worker' \in WorkerType
    BY <1>2, <1>12 DEF Crash, Idle, None, WorkerType
  <2>2. log' \in LogFile /\ ~log'.open
    BY <1>12 DEF Crash, Types, LogFile
  <2> QED
    BY <1>12, <2>1, <2>2 DEF Crash, Types, SizeKnown
<1>13. ASSUME Tick PROVE Types' /\ SizeKnown'
  <2>1. now' \in Time
    BY <1>13, Constants DEF Tick, Types, Time
  <2> QED
    BY <1>13, <2>1 DEF Tick, Types, SizeKnown
<1>14. CASE UNCHANGED vars
  BY <1>14 DEF vars, Types, SizeKnown
<1>15. ASSUME ListingFails PROVE Types' /\ SizeKnown'
  <2>1. worker' \in WorkerType
    BY <1>1, <1>15 DEF ListingFails, Fails, WorkerType
  <2> QED
    BY <1>1, <1>3, <1>15, <2>1 DEF ListingFails, Fails
<1> QED
  BY <1>4, <1>5, <1>6, <1>8, <1>9, <1>10, <1>11, <1>12, <1>13, <1>14, <1>15 DEF Next, Worker

-----------------------------------------------------------------------------
(* Backups                                                                 *)

\* While no name is used again and the clock goes on, no backup becomes one of
\* the newest.
LEMMA NewestBefore ==
  ASSUME Types, Types', NEW t \in Time, now <= now', clash \subseteq clash', swapped \subseteq swapped',
         made'[t] = made[t], \A u \in Time : made[u] # None => made'[u] # None, Newest(t)'
  PROVE  Newest(t)
<1>1. Later(t) \subseteq Later(t)' /\ Later(t) \in SUBSET Time /\ Later(t)' \in SUBSET Time
  BY DEF Later
<1>2. /\ IsFiniteSet(Later(t)') /\ Cardinality(Later(t)') \in Nat
      /\ IsFiniteSet(Later(t)) /\ Cardinality(Later(t)) \in Nat
  BY <1>1, LaterFinite
<1>3. Cardinality(Later(t)) <= Cardinality(Later(t)')
  BY <1>1, <1>2, FS_Subset
<1>4. ~TooOld(t)' => ~TooOld(t)
  <2>1. now \in Int /\ now' \in Int /\ t \in Int /\ MaxAge \in Int
    BY Constants DEF Types, Time
  <2>2. t < now - MaxAge => t < now' - MaxAge
    BY <2>1
  <2> QED
    BY <2>2 DEF TooOld
<1>5. /\ made'[t] # None /\ t \notin clash' /\ ~TooOld(t)'
      /\ Cardinality(Later(t)') < Sure(t)'
  BY DEF Newest
<1>6. Cardinality(Later(t)) < Sure(t)
  BY <1>2, <1>3, <1>5, Constants DEF Sure
<1> QED
  BY <1>4, <1>5, <1>6 DEF Newest

\* What handleStaleLogRunOnce does not keep is not one of the newest: no fewer
\* backups are listed before it than were made after it.
LEMMA NotKept ==
  ASSUME Types, FilesOk, NEW t \in Time, NEW isSecond \in BOOLEAN,
         ~Kept(t, After(t, isSecond)), ~TooOld(t)
  PROVE  Cardinality(Later(t)) >= MaxBackups - IF isSecond THEN 1 ELSE 0
<1> DEFINE B == {u \in Time : u > t /\ ~TooOld(u) /\ (raw[u] # None \/ gz[u] # None)}
<1>1. B \subseteq Later(t) /\ B \in SUBSET Time /\ Later(t) \in SUBSET Time
  BY DEF FilesOk, Later
<1>2. Before(t) = Cardinality(B)
  BY DEF Before
<1> HIDE DEF B
<1>3. /\ IsFiniteSet(Later(t)) /\ Cardinality(Later(t)) \in Nat /\ Cardinality(B) \in Nat
  BY <1>1, LaterFinite
<1>4. Cardinality(B) <= Cardinality(Later(t))
  BY <1>1, <1>3, FS_Subset
<1>5. ~(Before(t) + (IF isSecond THEN 1 ELSE 0) < MaxBackups)
  BY DEF Kept, After
<1> QED
  BY <1>2, <1>3, <1>4, <1>5, Constants

\* Renaming the log takes no file from a backup that is not at that name.
LEMMA RenamedKeeps ==
  ASSUME Types, Types', Backups, Renamed, UNCHANGED <<now, gz, swapped>>,
         worker'.phase = worker.phase, worker'.remove = worker.remove,
         worker'.compress = worker.compress, worker'.src = worker.src
  PROVE  Backups'
<1>1. PICK n \in 1..MaxRotations :
        /\ raw' = [raw EXCEPT ![now] = n] /\ made' = [made EXCEPT ![now] = n]
        /\ clash \subseteq clash' /\ clash' \subseteq clash \cup {now}
        /\ raw[now] # None \/ gz[now] # None => now \in clash'
  BY DEF Renamed
<1>2. now \in Time /\ raw'[now] = n /\ made'[now] = n /\ n # None
      /\ \A t \in Time : t # now => raw'[t] = raw[t] /\ made'[t] = made[t] /\ (t \in clash' <=> t \in clash)
  BY <1>1 DEF Types, None
<1>3. gz' = gz /\ now' = now /\ swapped' = swapped
  OBVIOUS
<1>4. FilesOk /\ NewestKept /\ RemoveOk /\ CompressOk /\ CopyOk
  BY DEF Backups
<1>5. ASSUME NEW t \in Time, t # now, Newest(t)' PROVE Newest(t)
  <2>1. now <= now'
    BY <1>3 DEF Types, Time
  <2>2. \A u \in Time : made[u] # None => made'[u] # None
    BY <1>2
  <2> QED
    BY <1>1, <1>2, <1>3, <1>5, <2>1, <2>2, NewestBefore
<1>6. FilesOk'
  BY <1>1, <1>2, <1>3, <1>4 DEF FilesOk
<1>7. NewestKept'
  BY <1>2, <1>3, <1>4, <1>5 DEF NewestKept
<1>8. Newest(now)' => raw[now] = None /\ gz[now] = None
  BY <1>1 DEF Newest
<1>9. RemoveOk'
  BY <1>2, <1>3, <1>4, <1>5, <1>8 DEF RemoveOk
<1>10. CompressOk'
  <2>1. worker.compress \subseteq Time
    BY DEF Types, WorkerType
  <2> QED
    BY <1>2, <1>4, <2>1 DEF CompressOk
<1>11. CopyOk'
  <2> SUFFICES ASSUME worker'.phase \in {"copy", "unlink"}
               PROVE  /\ worker'.remove = {} /\ worker'.compress # {}
                      /\ Current' \notin clash' =>
                           worker'.src = made'[Current'] /\ (worker'.phase = "unlink" => gz'[Current'] = made'[Current'])
    BY DEF CopyOk
  <2>1. /\ worker.remove = {} /\ worker.compress # {}
        /\ Current \notin clash => worker.src = made[Current]
                                   /\ (worker.phase = "unlink" => gz[Current] = made[Current])
    BY <1>4 DEF CopyOk
  <2>2. Current' = Current /\ Current \in Time /\ raw[Current] # None
    BY <1>4, <2>1, CurrentIn DEF Current, CompressOk
  <2>3. Current \notin clash' => Current # now
    BY <1>1, <2>2
  <2> QED
    BY <1>2, <1>3, <2>1, <2>2, <2>3
<1> QED
  BY <1>6, <1>7, <1>9, <1>10, <1>11 DEF Backups

LEMMA NewestSame ==
  ASSUME UNCHANGED <<now, made, clash, swapped>> PROVE \A t \in Time : Newest(t)' <=> Newest(t)
BY DEF Newest, Later, TooOld, Sure

LEMMA OnceKeeps == Types /\ Types' /\ Backups /\ HandleStaleLogRunOnce => Backups'
<1> SUFFICES ASSUME Types, Types', Backups, HandleStaleLogRunOnce PROVE Backups'
  OBVIOUS
<1>1. FilesOk /\ NewestKept
  BY DEF Backups
<1>2. PICK swap \in Swaps : ListedAs(swap) /\ swapped' = swapped \cup swap
  BY DEF HandleStaleLogRunOnce
<1>3. /\ worker'.remove = ToRemove(swap) /\ worker'.compress = ToCompress(swap)
      /\ worker'.phase = "remove" /\ UNCHANGED <<now, raw, gz, made, clash>>
  BY <1>2 DEF ListedAs, Types, WorkerType
<1>4. \A t \in Time : Newest(t)' => Newest(t)
  <2>1. now <= now'
    BY <1>3 DEF Types, Time
  <2> QED
    BY <1>2, <1>3, <2>1, NewestBefore
<1>5. FilesOk' /\ NewestKept'
  BY <1>1, <1>3, <1>4 DEF FilesOk, NewestKept
<1>6. ASSUME NEW t \in Time, Newest(t)', NEW isSecond \in BOOLEAN,
             ~Kept(t, After(t, isSecond)), isSecond => t \in swap
      PROVE  FALSE
  <2>1. ~TooOld(t) /\ Later(t)' = Later(t) /\ Cardinality(Later(t)') < Sure(t)'
    BY <1>3, <1>6 DEF Newest, Later, TooOld
  <2>2. Cardinality(Later(t)) >= MaxBackups - IF isSecond THEN 1 ELSE 0
    BY <1>1, <1>6, <2>1, NotKept
  <2>3. Cardinality(Later(t)) \in Nat
    BY LaterFinite DEF Later
  <2>4. Cardinality(Later(t)) < MaxBackups - IF t \in swapped' THEN 1 ELSE 0
    BY <2>1 DEF Sure
  <2> QED
    BY <1>2, <1>6, <2>2, <2>3, <2>4, Constants
<1>7. RemoveOk'
  <2> SUFFICES ASSUME NEW t \in Time
               PROVE  /\ <<t, "raw">> \in ToRemove(swap) => raw[t] # None /\ ~Newest(t)'
                      /\ <<t, "gz">> \in ToRemove(swap) =>
                           gz[t] # None /\ (Newest(t)' => raw[t] = made[t])
    BY <1>3 DEF RemoveOk
  <2>1. <<t, "raw">> \in ToRemove(swap) =>
          raw[t] # None /\ ~Kept(t, After(t, t \in swap))
    BY ListedFacts
  <2>2. <<t, "gz">> \in ToRemove(swap) =>
          gz[t] # None /\ ~Kept(t, After(t, t \in Twins \ swap))
    BY ListedFacts
  <2>3. ASSUME <<t, "raw">> \in ToRemove(swap) PROVE ~Newest(t)'
    <3>1. (t \in swap) \in BOOLEAN
      OBVIOUS
    <3> QED
      BY <1>6, <2>1, <2>3, <3>1
  <2>4. ASSUME <<t, "gz">> \in ToRemove(swap), Newest(t)' PROVE raw[t] = made[t]
    <3>1. CASE t \in Twins \ swap
      BY <1>1, <1>4, <2>4, <3>1 DEF Twins, FilesOk, Newest
    <3>2. CASE t \notin Twins \ swap
      <4>1. ~Kept(t, After(t, FALSE))
        BY <2>2, <2>4, <3>2 DEF After
      <4> QED
        BY <1>6, <2>4, <4>1
    <3> QED
      BY <3>1, <3>2
  <2> QED
    BY <2>1, <2>2, <2>3, <2>4
<1>8. CompressOk'
  <2>1. \A t \in ToCompress(swap) :
          t \in Time /\ raw[t] # None /\ Kept(t, After(t, t \in swap))
    BY DEF ToCompress
  <2> QED
    BY <1>3, <2>1, ListedFacts DEF CompressOk
<1>9. CopyOk'
  BY <1>3 DEF CopyOk
<1> QED
  BY <1>5, <1>7, <1>8, <1>9 DEF Backups

LEMMA RemoveKeeps == Types /\ Backups /\ RemoveNext => Backups'
<1> SUFFICES ASSUME Types, Backups, RemoveNext PROVE Backups'
  OBVIOUS
<1>1. FilesOk /\ NewestKept /\ RemoveOk /\ CompressOk
  BY DEF Backups
<1>2. UNCHANGED <<now, made, clash, swapped>> /\ worker.phase = "remove"
  BY DEF RemoveNext, Works, Fails
<1>3. \A t \in Time : Newest(t)' <=> Newest(t)
  BY <1>2, NewestSame
<1>4. PICK x \in worker.remove :
        /\ worker' = [worker EXCEPT !.remove = @ \ {x}]
        /\ \/ /\ raw' = IF x[2] = "raw" THEN [raw EXCEPT ![x[1]] = None] ELSE raw
              /\ gz' = IF x[2] = "gz" THEN [gz EXCEPT ![x[1]] = None] ELSE gz
           \/ UNCHANGED <<raw, gz>>
  BY DEF RemoveNext, Works, Fails
<1>5. PICK t \in Time, k \in {"raw", "gz"} : x = <<t, k>>
  BY DEF Types, WorkerType
<1>6. /\ worker'.remove = worker.remove \ {<<t, k>>} /\ worker'.compress = worker.compress
      /\ worker'.phase = "remove"
  BY <1>2, <1>4, <1>5 DEF Types, WorkerType
<1>7. \/ k = "raw" /\ raw' = [raw EXCEPT ![t] = None] /\ gz' = gz
      \/ k = "gz" /\ gz' = [gz EXCEPT ![t] = None] /\ raw' = raw
      \/ UNCHANGED <<raw, gz>>
  BY <1>4, <1>5
<1>8. <<t, k>> \in worker.remove
  BY <1>4, <1>5
<1>9. FilesOk'
  BY <1>1, <1>2, <1>7 DEF FilesOk, Types
<1>10. NewestKept'
  <2> SUFFICES ASSUME NEW u \in Time, Newest(u) PROVE made[u] \in {raw'[u], gz'[u]}
    BY <1>2, <1>3 DEF NewestKept
  <2>1. made[u] \in {raw[u], gz[u]}
    BY <1>1 DEF NewestKept
  <2>2. k = "raw" => u # t
    BY <1>1, <1>8 DEF RemoveOk
  <2>3. k = "gz" /\ u = t => raw[u] = made[u]
    BY <1>1, <1>8 DEF RemoveOk
  <2> QED
    BY <1>7, <2>1, <2>2, <2>3 DEF Types
<1>11. RemoveOk'
  <2> SUFFICES ASSUME NEW u \in Time
               PROVE  /\ <<u, "raw">> \in worker'.remove => raw'[u] # None /\ ~Newest(u)
                      /\ <<u, "gz">> \in worker'.remove => gz'[u] # None /\ (Newest(u) => raw'[u] = made[u])
    BY <1>2, <1>3 DEF RemoveOk
  <2>1. /\ <<u, "raw">> \in worker.remove => raw[u] # None /\ ~Newest(u)
        /\ <<u, "gz">> \in worker.remove => gz[u] # None /\ (Newest(u) => raw[u] = made[u])
    BY <1>1 DEF RemoveOk
  <2>2. k = "raw" => ~Newest(t)
    BY <1>1, <1>8 DEF RemoveOk
  <2>3. ASSUME <<u, "raw">> \in worker'.remove PROVE raw'[u] # None /\ ~Newest(u)
    <3>1. <<u, "raw">> \in worker.remove /\ (k = "raw" => u # t)
      BY <1>6, <2>3
    <3> QED
      BY <1>7, <2>1, <3>1 DEF Types
  <2>4. ASSUME <<u, "gz">> \in worker'.remove PROVE gz'[u] # None /\ (Newest(u) => raw'[u] = made[u])
    <3>1. <<u, "gz">> \in worker.remove /\ (k = "gz" => u # t)
      BY <1>6, <2>4
    <3> QED
      BY <1>7, <2>1, <2>2, <3>1 DEF Types
  <2> QED
    BY <2>3, <2>4
<1>12. CompressOk'
  <2> SUFFICES ASSUME NEW u \in worker.compress PROVE raw'[u] # None /\ <<u, "raw">> \notin worker'.remove
    BY <1>6 DEF CompressOk
  <2>1. raw[u] # None /\ <<u, "raw">> \notin worker.remove /\ u \in Time
    BY <1>1 DEF CompressOk, Types, WorkerType
  <2>2. k = "raw" => u # t
    BY <1>8, <2>1
  <2> QED
    BY <1>6, <1>7, <2>1, <2>2 DEF Types
<1>13. CopyOk'
  BY <1>6 DEF CopyOk
<1> QED
  BY <1>9, <1>10, <1>11, <1>12, <1>13 DEF Backups

\* A step of compressLogFile changes the two files of Current only, which is
\* not among those to remove, and the plain one last.
LEMMA CompressKeeps ==
  Types /\ Types' /\ Backups /\ (CompressOpen \/ CompressCopy \/ CompressUnlink) => Backups'
<1> SUFFICES ASSUME Types, Types', Backups, CompressOpen \/ CompressCopy \/ CompressUnlink PROVE Backups'
  OBVIOUS
<1>1. FilesOk /\ NewestKept /\ CompressOk /\ CopyOk
  BY DEF Backups
<1>2. UNCHANGED <<now, made, clash, swapped>> /\ worker.remove = {} /\ worker.compress # {}
  BY <1>1 DEF CompressOpen, CompressCopy, CompressUnlink, Works, Fails, CopyOk
<1>3. \/ /\ worker' = Rest /\ raw' = raw
         /\ gz' = gz \/ gz' = [gz EXCEPT ![Current] = Partial] \/ gz' = [gz EXCEPT ![Current] = None]
      \/ /\ worker' = [worker EXCEPT !.phase = "copy", !.src = raw[Current]] /\ raw' = raw
         /\ gz' = [gz EXCEPT ![Current] = Partial]
      \/ /\ worker' = [worker EXCEPT !.phase = "unlink"] /\ worker.phase = "copy" /\ raw' = raw
         /\ gz' = [gz EXCEPT ![Current] = worker.src]
      \/ worker' = Rest /\ worker.phase = "unlink" /\ raw' = [raw EXCEPT ![Current] = None] /\ gz' = gz
  BY DEF CompressOpen, CompressCopy, CompressUnlink, Works, Fails
<1>4. Current \in worker.compress /\ Current \in Time /\ raw[Current] # None
  BY <1>1, <1>2, CurrentIn DEF CompressOk
<1>5. Current \notin clash => raw[Current] = made[Current]
  BY <1>1, <1>4 DEF FilesOk
<1>6. Current \notin clash /\ worker.phase \in {"copy", "unlink"} => worker.src = made[Current]
  BY <1>1 DEF CopyOk
<1>7. Current \notin clash /\ worker.phase = "unlink" => gz[Current] = made[Current]
  BY <1>1 DEF CopyOk
<1>8. made[Current] # None
  BY <1>1, <1>4 DEF FilesOk
<1>9. \A t \in Time : Newest(t)' <=> Newest(t)
  BY <1>2, NewestSame
<1>10. \A t \in Time : t # Current => raw'[t] = raw[t] /\ gz'[t] = gz[t]
  BY <1>3 DEF Types
<1>11. Current \notin clash =>
        /\ raw'[Current] \in {None, made[Current]} /\ gz'[Current] \in {None, Partial, made[Current]}
        /\ made[Current] \in {raw'[Current], gz'[Current]}
  BY <1>1, <1>3, <1>4, <1>5, <1>6, <1>7 DEF FilesOk, Types
<1>12. FilesOk'
  BY <1>1, <1>2, <1>8, <1>10, <1>11 DEF FilesOk
<1>13. NewestKept'
  BY <1>1, <1>2, <1>9, <1>10, <1>11 DEF NewestKept, Newest
<1>14. worker'.remove = {}
  BY <1>2, <1>3 DEF Rest, Types, WorkerType
<1>15. RemoveOk'
  BY <1>14 DEF RemoveOk
<1>16. worker' = Rest \/ (worker'.compress = worker.compress /\ raw' = raw)
  BY <1>3 DEF Types, WorkerType
<1>17. worker' = Rest => worker'.compress = worker.compress \ {Current} /\ worker'.phase = "remove"
  BY DEF Rest, Types, WorkerType
<1>18. CompressOk'
  <2> SUFFICES ASSUME NEW t \in worker'.compress PROVE raw'[t] # None
    BY <1>14 DEF CompressOk
  <2>1. t \in worker.compress /\ (raw' = raw \/ t # Current) /\ t \in Time
    BY <1>3, <1>16, <1>17 DEF Types, WorkerType
  <2> QED
    BY <1>1, <1>10, <2>1 DEF CompressOk
<1>19. CopyOk'
  <2> SUFFICES ASSUME worker'.phase \in {"copy", "unlink"}
               PROVE  /\ worker'.compress # {}
                      /\ Current' \notin clash =>
                           worker'.src = made[Current'] /\ (worker'.phase = "unlink" => gz'[Current'] = made[Current'])
    BY <1>2, <1>14 DEF CopyOk
  <2>1. worker' # Rest
    BY <1>17
  <2>2. worker'.compress = worker.compress /\ Current' = Current
    BY <1>16, <2>1 DEF Current
  <2>3. worker' = [worker EXCEPT !.phase = "copy", !.src = raw[Current]]
        \/ (worker' = [worker EXCEPT !.phase = "unlink"] /\ worker.phase = "copy"
            /\ gz' = [gz EXCEPT ![Current] = worker.src])
    BY <1>3, <2>1
  <2>4. \/ worker'.src = raw[Current] /\ worker'.phase = "copy"
        \/ worker'.src = worker.src /\ worker.phase = "copy" /\ gz'[Current] = worker.src
    BY <1>4, <2>3 DEF Types, WorkerType
  <2> QED
    BY <1>2, <1>5, <1>6, <2>2, <2>4
<1> QED
  BY <1>12, <1>13, <1>15, <1>18, <1>19 DEF Backups

LEMMA BackupsStep == Inv /\ [Next]_vars => Backups'
<1> SUFFICES ASSUME Inv, [Next]_vars PROVE Backups'
  OBVIOUS
<1>1. Types /\ SizeKnown /\ Backups /\ Types'
  BY TypesStep DEF Inv
<1>2. FilesOk /\ NewestKept /\ RemoveOk /\ CompressOk /\ CopyOk
  BY <1>1 DEF Backups
<1>3. ASSUME UNCHANGED <<now, raw, gz, made, clash, swapped>>, worker'.phase = worker.phase,
             worker'.remove = worker.remove, worker'.compress = worker.compress, worker'.src = worker.src
      PROVE  Backups'
  <2>1. \A t \in Time : Newest(t)' <=> Newest(t)
    BY <1>3, NewestSame
  <2> QED
    BY <1>2, <1>3, <2>1 DEF Backups, FilesOk, NewestKept, RemoveOk, CompressOk, CopyOk, Current
<1>4. ASSUME NEW n \in Lens, NEW f, Write(n, f) PROVE Backups'
  <2>1. UNCHANGED <<raw, made, clash>> \/ Renamed
    BY <1>1, <1>4, WriteFacts
  <2>2. UNCHANGED <<now, gz, swapped>> /\ (worker' = worker \/ worker' = PostRotateCompressLog)
    BY <1>4, Zenon DEF Write
  <2>3. /\ worker'.phase = worker.phase /\ worker'.remove = worker.remove
        /\ worker'.compress = worker.compress /\ worker'.src = worker.src
    BY <1>1, <2>2 DEF PostRotateCompressLog, Types, WorkerType
  <2> QED
    BY <1>1, <1>3, <2>1, <2>2, <2>3, RenamedKeeps
<1>5. ASSUME UNCHANGED <<now, raw, gz, made, clash, swapped>>, worker'.phase = "idle",
             worker'.remove = {}, worker'.compress = {}
      PROVE  Backups'
  <2>1. \A t \in Time : Newest(t)' <=> Newest(t)
    BY <1>5, NewestSame
  <2> QED
    BY <1>2, <1>5, <2>1 DEF Backups, FilesOk, NewestKept, RemoveOk, CompressOk, CopyOk
<1>6. ASSUME RunEnds PROVE Backups'
  BY <1>1, <1>5, <1>6 DEF RunEnds, Works, Types, WorkerType
<1>7. ASSUME Crash PROVE Backups'
  BY <1>5, <1>7 DEF Crash, Idle
<1>8. ASSUME Tick PROVE Backups'
  <2>1. now <= now' /\ UNCHANGED <<raw, gz, made, clash, swapped, worker>>
    BY <1>1, <1>8 DEF Tick, Types, Time
  <2>2. \A t \in Time : Newest(t)' => Newest(t)
    BY <1>1, <2>1, NewestBefore
  <2> QED
    BY <1>2, <2>1, <2>2 DEF Backups, FilesOk, NewestKept, RemoveOk, CompressOk, CopyOk, Current
<1>9. ASSUME ListingFails PROVE Backups'
  <2>1. /\ worker'.phase = worker.phase /\ worker'.remove = worker.remove
        /\ worker'.compress = worker.compress /\ worker'.src = worker.src
    BY <1>1, <1>9 DEF ListingFails, Fails, Types, WorkerType
  <2> QED
    BY <1>3, <1>9, <2>1 DEF ListingFails, Fails
<1> QED
  BY <1>1, <1>3, <1>4, <1>6, <1>7, <1>8, <1>9, OnceKeeps, RemoveKeeps, CompressKeeps DEF Next, Worker, vars

LEMMA AlwaysInv == Spec => []Inv
<1>1. Inv /\ [Next]_vars => Inv'
  BY TypesStep, BackupsStep DEF Inv
<1> QED
  BY InvInit, <1>1, PTL DEF Spec

\* The type invariant: what is counted stays below the maximum, and the
\* goroutine works on names of backups.
THEOREM TypeCorrect == Spec => []TypeOK
<1>1. Inv => TypeOK
  BY DEF Inv, Types, WorkerType, LogFile, TypeOK
<1> QED
  BY <1>1, AlwaysInv, PTL

\* SizeKnown: writtenLen is the size of the open file, and Write never lets the
\* file grow past the maximum.
THEOREM FileStaysSmall == Spec => []SizeKnown
<1>1. Inv => SizeKnown
  BY DEF Inv
<1> QED
  BY <1>1, AlwaysInv, PTL

\* KeepsNewest: no crash and no failing step loses one of the newest backups, but
\* for the last of them, once a list was long enough to be sorted with its partial
\* copy first.
THEOREM NewestAreKept == Spec => []KeepsNewest
<1>1. Inv => KeepsNewest
  BY DEF Inv, Backups, NewestKept, Newest, Later, Sure, KeepsNewest
<1> QED
  BY <1>1, AlwaysInv, PTL
=============================================================================
