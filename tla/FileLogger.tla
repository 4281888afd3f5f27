------------------------------ MODULE FileLogger ------------------------------
(***************************************************************************)
(* The log files of the device plugin (pkg/log/file.go). Write rotates the *)
(* file before it would reach its maximum: it becomes a backup, named by   *)
(* the millisecond. A goroutine, woken through a channel of one place,     *)
(* removes backups that are too many or too old and compresses the rest;   *)
(* only its listing of the directory takes the mutex. The process may be   *)
(* killed at any point, steps of the file system may fail.                 *)
(*                                                                         *)
(* A call of Write is one step, in which the clock stands still. Rotate    *)
(* and Close of FileLogger have no caller and are left out.                *)
(***************************************************************************)
EXTENDS Integers, FiniteSets, FiniteSetsExt

CONSTANTS
  MaxLen,       \* maxLogContextLen
  Lens,         \* the lengths of log entries
  MaxBackups, MaxAge, \* maxBackups, maxAge: positive, checkLoggerParamValid
  StableLength, \* sort.Sort keeps the order of equals in lists up to this length:
                \* 12, up to which it sorts by insertion
  Horizon,      \* bound on the clock
  MaxRotations, \* bound on the number of backups that are made
  MaxCrashes, MaxFailures \* bounds on crashes and on failing steps

ASSUME FileLoggerAssumption ==
  /\ MaxLen \in Nat \ {0} /\ Lens \subseteq Nat \ {0}
  /\ MaxBackups \in Nat \ {0} /\ MaxAge \in Nat \ {0} /\ StableLength \in Nat
  /\ Horizon \in Nat /\ MaxRotations \in Nat /\ MaxCrashes \in Nat /\ MaxFailures \in Nat

Time == 0..Horizon
None == 0      \* no such file
Partial == -1  \* a compressed file that is not complete

VARIABLES
  now,     \* the clock that names backups
  log,     \* size of the log file (-1: none), open, writtenLen
  raw, gz, \* raw[t], gz[t]: the content of the backup of time t, plain and compressed
  worker,  \* the goroutine: started, woken (staleLogCh), phase, and what it has to do
  made,    \* history: made[t] is the number of the log that was last renamed to t
  clash,   \* history: the times at which one backup took the name of another
  swapped, \* history: backups of which a list had the compressed file first
  failed,  \* history: a step has failed that nothing has tried again since
  crashes, failures \* counters of the bounds

vars == <<now, log, raw, gz, worker, made, clash, swapped, failed, crashes, failures>>

Idle(started, woken) ==
  [started |-> started, woken |-> woken, phase |-> "idle", remove |-> {}, compress |-> {}, src |-> None]

Init ==
  /\ now = 0
  /\ log = [size |-> -1, open |-> FALSE, written |-> 0]
  /\ raw = [t \in Time |-> None] /\ gz = [t \in Time |-> None]
  /\ worker = Idle(FALSE, FALSE)
  /\ made = [t \in Time |-> None] /\ clash = {} /\ swapped = {} /\ failed = FALSE
  /\ crashes = 0 /\ failures = 0

-----------------------------------------------------------------------------
(* Write: d collects what the call does to log, raw, made and clash        *)

\* openNew, which moves the log file away. f is the step that fails: "rename" or
\* one before it, "create" of the new file, its "chown" or open.
OpenNewWritten(d, f, w) ==
  LET moved == d.log.size # -1 /\ f # "rename"
      n == Max({0} \cup {d.made[t] : t \in Time}) + 1
  IN  [log |-> [size |-> CASE f = "rename" -> d.log.size [] f = "create" -> -1 [] OTHER -> 0,
                open |-> f = "none", written |-> w],
       raw |-> IF moved THEN [d.raw EXCEPT ![now] = n] ELSE d.raw,
       made |-> IF moved THEN [d.made EXCEPT ![now] = n] ELSE d.made,
       clash |-> IF moved /\ (d.raw[now] # None \/ gz[now] # None)
                 THEN d.clash \cup {now} ELSE d.clash]

OpenNew(d, f) == OpenNewWritten(d, f, IF f = "none" THEN 0 ELSE d.log.written)

\* Mutant of OpenExistingOrNew: writtenLen is not set to the size.
OpenExistingUnsized(d, n, f) ==
  IF d.log.size = -1 \/ d.log.size + n >= MaxLen THEN OpenNew(d, f)
  ELSE [d EXCEPT !.log.open = TRUE, !.log.written = 0]

\* openExistingOrNew; a file that cannot be opened is moved away.
OpenExistingOrNew(d, n, f) ==
  IF f = "append" THEN OpenNew(d, "none")
  ELSE IF d.log.size = -1 \/ d.log.size + n >= MaxLen THEN OpenNew(d, f)
  ELSE [d EXCEPT !.log.open = TRUE, !.log.written = d.log.size]

\* Mutant of PostRotateCompressLog: the channel has no place.
PostRotateUnbuffered == [worker EXCEPT !.started = TRUE, !.woken = worker.phase = "idle"]

\* postRotateCompressLog: the goroutine runs and its channel is full.
PostRotateCompressLog == [worker EXCEPT !.started = TRUE, !.woken = TRUE]

Write(n, f) ==
  LET d0 == [log |-> log, raw |-> raw, made |-> made, clash |-> clash]
      d1 == IF log.open THEN d0 ELSE OpenExistingOrNew(d0, n, f)
      rotates == IF log.open THEN log.written + n >= MaxLen
                 ELSE log.size = -1 \/ log.size + n >= MaxLen
      full == d1.log.open /\ d1.log.written + n >= MaxLen
      d2 == IF full THEN OpenNew([d1 EXCEPT !.log.open = FALSE], f) ELSE d1
  IN  /\ n <= MaxLen
      /\ f # "none" => failures < MaxFailures /\ (f = "append" => ~log.open) /\ (rotates <=> f # "append")
      /\ log' = IF d2.log.open THEN [d2.log EXCEPT !.size = @ + n, !.written = @ + n] ELSE d2.log
      /\ raw' = d2.raw /\ made' = d2.made /\ clash' = d2.clash
      /\ \A t \in Time : made'[t] <= MaxRotations
      /\ worker' = IF ~log.open \/ (full /\ d2.log.open) THEN PostRotateCompressLog ELSE worker
      /\ failed' = (failed \/ f # "none")
      /\ failures' = failures + IF f = "none" THEN 0 ELSE 1
      /\ UNCHANGED <<now, gz, swapped, crashes>>

-----------------------------------------------------------------------------
(* handleStaleLogRun                                                       *)

TooOld(t) == t < now - MaxAge

\* The files in the order of oldLogFiles, newest first. A plain file comes before
\* its compressed twin, as os.ReadDir has them, but for the twins that a sort of a
\* longer list has swapped.
Twins == {t \in Time : raw[t] # None /\ gz[t] # None}
Listed == Cardinality({t \in Time : raw[t] # None}) + Cardinality({t \in Time : gz[t] # None})
Swaps == IF Listed <= StableLength THEN {{}} ELSE SUBSET Twins

\* How many are preserved when the first file of t, or the second, is looked at.
Before(t) == Cardinality({u \in Time : u > t /\ ~TooOld(u) /\ (raw[u] # None \/ gz[u] # None)})
After(t, isSecond) == Before(t) + IF isSecond THEN 1 ELSE 0
Kept(t, before) == ~TooOld(t) /\ before < MaxBackups

\* toRemove and toCompress.
ToRemove(swap) ==
  {<<t, "raw">> : t \in {u \in Time : raw[u] # None /\ ~Kept(u, After(u, u \in swap))}} \cup
  {<<t, "gz">> : t \in {u \in Time : gz[u] # None /\ ~Kept(u, After(u, u \in Twins \ swap))}}
ToCompress(swap) == {t \in Time : raw[t] # None /\ Kept(t, After(t, t \in swap))}

\* The listing, under the mutex, and the choice of what to remove and compress.
ListedAs(swap) ==
  /\ worker.woken /\ worker.phase = "idle"
  /\ worker' = [worker EXCEPT !.woken = FALSE, !.phase = "remove",
                              !.remove = ToRemove(swap), !.compress = ToCompress(swap)]
  /\ failed' = FALSE
  /\ UNCHANGED <<now, log, raw, gz, made, clash, crashes, failures>>

\* Mutant of HandleStaleLogRunOnce: a list of any length has the compressed files
\* first, as if it were sorted by name the other way.
HandleTwinsSwapped == ListedAs(Twins) /\ UNCHANGED swapped

HandleStaleLogRunOnce ==
  \E swap \in Swaps : ListedAs(swap) /\ swapped' = swapped \cup swap

\* A step of the goroutine that may fail: w is the worker after it.
Fails(w) == /\ failures < MaxFailures /\ failures' = failures + 1 /\ failed' = TRUE
            /\ worker' = w
            /\ UNCHANGED <<now, log, raw, made, clash, swapped, crashes>>
Works(w) == /\ worker' = w
            /\ UNCHANGED <<now, log, made, clash, swapped, failed, crashes, failures>>

\* The directory cannot be read: the run ends with nothing done.
ListingFails ==
  /\ worker.woken /\ worker.phase = "idle"
  /\ Fails([worker EXCEPT !.woken = FALSE]) /\ UNCHANGED gz

RemoveNext ==
  /\ worker.phase = "remove" /\ worker.remove # {}
  /\ \E x \in worker.remove : LET t == x[1]
                                  w == [worker EXCEPT !.remove = @ \ {x}] IN
       /\ \A y \in worker.remove : y[1] <= t
       /\ \/ /\ Works(w)
             /\ raw' = IF x[2] = "raw" THEN [raw EXCEPT ![t] = None] ELSE raw
             /\ gz' = IF x[2] = "gz" THEN [gz EXCEPT ![t] = None] ELSE gz
          \/ Fails(w) /\ UNCHANGED gz

Current == Max(worker.compress)  \* the file that is compressed next
Rest == [worker EXCEPT !.phase = "remove", !.compress = @ \ {Current}, !.src = None]

\* compressLogFile opens the source and creates the destination ...
CompressOpen ==
  /\ worker.phase = "remove" /\ worker.remove = {} /\ worker.compress # {}
  /\ LET t == Current IN
       \/ /\ raw[t] # None
          /\ Works([worker EXCEPT !.phase = "copy", !.src = raw[t]])
          /\ gz' = [gz EXCEPT ![t] = Partial] /\ UNCHANGED raw
       \/ raw[t] = None /\ Works(Rest) /\ UNCHANGED <<raw, gz>>
       \/ Fails(Rest) /\ gz' \in {gz, [gz EXCEPT ![t] = Partial]}

\* ... copies the content and closes the destination ...
CompressCopy ==
  /\ worker.phase = "copy"
  /\ LET t == Current IN
       \/ /\ Works([worker EXCEPT !.phase = "unlink"])
          /\ gz' = [gz EXCEPT ![t] = worker.src] /\ UNCHANGED raw
       \/ Fails(Rest) /\ gz' = [gz EXCEPT ![t] = None]

\* ... and removes the source. If that fails, the destination is removed.
CompressUnlink ==
  /\ worker.phase = "unlink"
  /\ LET t == Current IN
       \/ Works(Rest) /\ raw' = [raw EXCEPT ![t] = None] /\ UNCHANGED gz
       \/ Fails(Rest) /\ gz' = [gz EXCEPT ![t] = None]

RunEnds ==
  /\ worker.phase = "remove" /\ worker.remove = {} /\ worker.compress = {}
  /\ Works([worker EXCEPT !.phase = "idle"])
  /\ UNCHANGED <<raw, gz>>

Worker == HandleStaleLogRunOnce \/ ListingFails \/ RemoveNext \/ CompressOpen \/ CompressCopy \/ CompressUnlink \/ RunEnds

\* The process is killed and started again.
Crash ==
  /\ crashes < MaxCrashes /\ crashes' = crashes + 1
  /\ log' = [log EXCEPT !.open = FALSE]
  /\ worker' = Idle(FALSE, FALSE)
  /\ UNCHANGED <<now, raw, gz, made, clash, swapped, failed, failures>>

Tick == now < Horizon /\ now' = now + 1
        /\ UNCHANGED <<log, raw, gz, worker, made, clash, swapped, failed, crashes, failures>>

Next ==
  \/ \E n \in Lens, f \in {"none", "rename", "create", "chown", "append"} : Write(n, f)
  \/ Worker \/ Crash \/ Tick

Spec == Init /\ [][Next]_vars /\ WF_vars(Worker)
-----------------------------------------------------------------------------
(* Properties                                                              *)

TypeOK ==
  /\ now \in Time
  /\ log.size \in -1..MaxLen /\ log.open \in BOOLEAN /\ log.written \in 0..MaxLen
  /\ raw \in [Time -> 0..MaxRotations] /\ gz \in [Time -> Partial..MaxRotations]
  /\ made \in [Time -> 0..MaxRotations] /\ clash \subseteq Time /\ swapped \subseteq Time
  /\ worker.started \in BOOLEAN /\ worker.woken \in BOOLEAN
  /\ worker.phase \in {"idle", "remove", "copy", "unlink"}
  /\ worker.remove \subseteq Time \X {"raw", "gz"} /\ worker.compress \subseteq Time

\* While the file is open, writtenLen is its size: Write never lets it grow past
\* the maximum, also over restarts that go on with a file (openExistingOrNew).
SizeKnown == log.open => log.written = log.size /\ log.size <= MaxLen

\* No crash and no failing step loses one of the newest maxBackups backups that
\* are not too old: each has a complete copy, plain or compressed, whatever
\* partial copies lie next to it (handleStaleLogRunOnce, compressLogFile). Two
\* backups made in the same millisecond are an exception. The last of maxBackups
\* is another, once a long list (file.go:334) has had its partial copy first: the
\* copy fills the last place, and the only complete file is superfluous.
Sure(t) == MaxBackups - IF t \in swapped THEN 1 ELSE 0
KeepsNewest == \A t \in Time :
  /\ made[t] # None /\ t \notin clash /\ ~TooOld(t)
  /\ Cardinality({u \in Time : u > t /\ made[u] # None}) < Sure(t)
  => made[t] \in {raw[t], gz[t]}

\* In the end no more than maxBackups backups are left and all are compressed
\* and complete (but for a partial copy that a long list had first): no wake-up
\* is lost in the channel of one place, and after a crash the first write sees to
\* what the last run left behind. Without another write nobody tries again what
\* has failed.
Clean == /\ \A t \in Time : raw[t] = None /\ (gz[t] = Partial => t \in swapped)
         /\ Cardinality({t \in Time : gz[t] # None}) <= MaxBackups
Trimmed == <>[](~worker.started \/ failed \/ Clean)
=============================================================================
