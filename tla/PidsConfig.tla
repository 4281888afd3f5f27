----------------------------- MODULE PidsConfig -----------------------------
(***************************************************************************)
(* How the CUDA interception library of one container learns which host    *)
(* processes belong to the container.                                      *)
(*                                                                         *)
(*   - A process that initialises CUDA starts a watcher thread and then    *)
(*     runs xpu-client-tool, which calls GetPids of the device plugin      *)
(*     (direct/cuda/src/pid_manager.cpp, direct/common/src/register.cpp).  *)
(*   - GetPids reads the pids of the container's cgroup and rewrites the   *)
(*     container's pids.config (pkg/api/runtime/service/service_impl.go);  *)
(*     gRPC serves concurrent calls concurrently.                          *)
(*   - The watcher of every process gets an inotify event for each change  *)
(*     of the file and reloads its pidsMap_ from it.                       *)
(*                                                                         *)
(* The watcher's read of the file is one step: the file is a few lines     *)
(* long. The writer's open with O_TRUNC and its one flush are two.         *)
(***************************************************************************)
EXTENDS Integers, Sequences, FiniteSets, SequencesExt

CONSTANTS
  Proc,         \* the processes that run in the container
  MaxTries,     \* TRY_TIMES of RegisterToDevicePlugin
  CallsMayFail, \* whether a GetPids call may fail
  WatchMayFail  \* whether inotify_init or inotify_add_watch may fail

ASSUME PidsConfigAssumption ==
  /\ IsFiniteSet(Proc)
  /\ MaxTries \in Nat \ {0}
  /\ CallsMayFail \in BOOLEAN /\ WatchMayFail \in BOOLEAN

VARIABLES
  life,      \* life[p]: not started, registering in cuInit, ready or gone
  tries,     \* tries[p]: failed attempts of RegisterToDevicePlugin
  call,      \* call[p]: where the GetPids call made for p is in the server
  snapshot,  \* snapshot[p]: the pids that call read from cgroup.procs
  pidsFile,  \* the lines of pids.config
  watcher,   \* watcher[p]: the PidsConfigWatcherThread of p
  event,     \* event[p]: an inotify event waits for the watcher of p
  pidsMap    \* pidsMap[p]: the host pids in pidsMap_ of p

pidsVars == <<life, tries, call, snapshot, pidsFile, watcher, event, pidsMap>>

PidsTypeOK ==
  /\ life \in [Proc -> {"none", "registering", "ready", "exited"}]
  /\ tries \in [Proc -> 0..MaxTries]
  /\ call \in [Proc -> {"none", "read", "truncated"}]
  /\ snapshot \in [Proc -> Seq(Proc)]
  /\ pidsFile \in Seq(Proc)
  /\ watcher \in [Proc -> {"none", "watching", "looping", "dead"}]
  /\ event \in [Proc -> BOOLEAN]
  /\ pidsMap \in [Proc -> SUBSET Proc]
  /\ \A p \in Proc : call[p] # "none" => tries[p] < MaxTries

Alive(p) == life[p] \in {"registering", "ready"}

PidsInit ==
  /\ life = [p \in Proc |-> "none"]
  /\ tries = [p \in Proc |-> 0]
  /\ call = [p \in Proc |-> "none"]
  /\ snapshot = [p \in Proc |-> <<>>]
  /\ pidsFile = <<>>
  /\ watcher = [p \in Proc |-> "none"]
  /\ event = [p \in Proc |-> FALSE]
  /\ pidsMap = [p \in Proc |-> {}]

-----------------------------------------------------------------------------
(* The process                                                             *)

\* The program calls cuInit: PidManager::Initialize spawns the watcher thread
\* and enters RegisterToDevicePlugin.
Start(p) ==
  /\ life[p] = "none"
  /\ life' = [life EXCEPT ![p] = "registering"]
  /\ UNCHANGED <<tries, call, snapshot, pidsFile, watcher, event, pidsMap>>

\* The process ends, at any point: of itself, killed, or by the
\* exit(EXIT_FAILURE) of an initialisation that failed.
ExitProcess(p) ==
  /\ Alive(p)
  /\ life' = [life EXCEPT ![p] = "exited"]
  /\ watcher' = [watcher EXCEPT ![p] = "dead"]
  /\ event' = [event EXCEPT ![p] = FALSE]
  /\ pidsMap' = [pidsMap EXCEPT ![p] = {}]
  /\ UNCHANGED <<tries, call, snapshot, pidsFile>>

-----------------------------------------------------------------------------
(* GetPids in the device plugin, called for p                              *)

\* readProcsFile and getPidMaps: the processes in the cgroup now, in an order
\* that cgroup.procs does not promise.
GetPidsRead(p) ==
  /\ life[p] = "registering" /\ call[p] = "none" /\ tries[p] < MaxTries
  /\ \E s \in SetToSeqs({q \in Proc : Alive(q)}) : snapshot' = [snapshot EXCEPT ![p] = s]
  /\ call' = [call EXCEPT ![p] = "read"]
  /\ UNCHANGED <<life, tries, pidsFile, watcher, event, pidsMap>>

\* An inotify event of the file for every process that watches its directory.
FileEvent == event' = [p \in Proc |-> event[p] \/ watcher[p] \in {"watching", "looping"}]

\* writePidsConfig opens the file with O_TRUNC.
GetPidsTruncate(p) ==
  /\ call[p] = "read"
  /\ pidsFile' = <<>>
  /\ call' = [call EXCEPT ![p] = "truncated"]
  /\ FileEvent
  /\ UNCHANGED <<life, tries, snapshot, watcher, pidsMap>>

\* A write of lines at the start of a file keeps what is behind them: two
\* calls may have truncated the file before either of them writes.
Overwrite(file, lines) == lines \o SubSeq(file, Len(lines) + 1, Len(file))

\* The reply reaches xpu-client-tool: RegisterToDevicePlugin returns success.
Registered(p) ==
  life' = [life EXCEPT ![p] = IF @ = "registering" THEN "ready" ELSE @]

\* The handler returns, its variables are gone.
Return(p) ==
  /\ call' = [call EXCEPT ![p] = "none"]
  /\ snapshot' = [snapshot EXCEPT ![p] = <<>>]

\* w.Flush writes the lines, GetPids returns.
GetPidsFlush(p) ==
  /\ call[p] = "truncated"
  /\ pidsFile' = Overwrite(pidsFile, snapshot[p])
  /\ Return(p)
  /\ FileEvent
  /\ Registered(p)
  /\ UNCHANGED <<tries, watcher, pidsMap>>

\* Mutant of GetPidsFail: a failed attempt is not counted.
GetPidsFailUncounted(p) ==
  /\ CallsMayFail
  /\ call[p] # "none"
  /\ Return(p)
  /\ UNCHANGED <<tries, life, pidsFile, watcher, event, pidsMap>>

\* getContainerName, the open or the write failed, and the child exits with an
\* error: one attempt of RegisterToDevicePlugin is used up.
GetPidsFail(p) ==
  /\ CallsMayFail
  /\ call[p] # "none"
  /\ Return(p)
  /\ tries' = [tries EXCEPT ![p] = @ + 1]
  /\ UNCHANGED <<life, pidsFile, watcher, event, pidsMap>>

\* After TRY_TIMES failures Initialize fails and the process exits.
GiveUp(p) == life[p] = "registering" /\ tries[p] = MaxTries /\ call[p] = "none"

-----------------------------------------------------------------------------
(* PidsConfigWatcherThread                                                 *)

\* Mutant of AddWatch: the file is loaded before the watch is there.
AddWatchAfterLoad(p) ==
  /\ Alive(p) /\ watcher[p] = "none"
  /\ IF pidsMap[p] = {} /\ pidsFile # <<>>
     THEN pidsMap' = [pidsMap EXCEPT ![p] = ToSet(pidsFile)] /\ UNCHANGED watcher
     ELSE watcher' = [watcher EXCEPT ![p] = "looping"] /\ UNCHANGED pidsMap
  /\ UNCHANGED <<life, tries, call, snapshot, pidsFile, event>>

\* inotify_init and inotify_add_watch; a failure ends the thread silently.
AddWatch(p) ==
  /\ Alive(p) /\ watcher[p] = "none"
  /\ \/ watcher' = [watcher EXCEPT ![p] = "watching"]
     \/ WatchMayFail /\ watcher' = [watcher EXCEPT ![p] = "dead"]
  /\ UNCHANGED <<life, tries, call, snapshot, pidsFile, event, pidsMap>>

\* Mutant of Refresh: the map is not cleared before the lines are read.
RefreshUncleared(p) == pidsMap' = [pidsMap EXCEPT ![p] = @ \cup ToSet(pidsFile)]

\* Refresh: clear the map and read the lines that are in the file now.
Refresh(p) == pidsMap' = [pidsMap EXCEPT ![p] = ToSet(pidsFile)]

\* The Refresh before the loop, for a file that was there already.
FirstRefresh(p) ==
  /\ watcher[p] = "watching"
  /\ Refresh(p)
  /\ watcher' = [watcher EXCEPT ![p] = "looping"]
  /\ UNCHANGED <<life, tries, call, snapshot, pidsFile, event>>

\* read returns the events of pids.config: ProcessEvent refreshes the map.
HandleEvent(p) ==
  /\ watcher[p] = "looping" /\ event[p]
  /\ Refresh(p)
  /\ event' = [event EXCEPT ![p] = FALSE]
  /\ UNCHANGED <<life, tries, call, snapshot, pidsFile, watcher>>

-----------------------------------------------------------------------------
\* The steps that run by themselves once the process has called cuInit.
Progress(p) ==
  \/ GetPidsRead(p) \/ GetPidsTruncate(p) \/ GetPidsFlush(p)
  \/ AddWatch(p) \/ FirstRefresh(p) \/ HandleEvent(p)

PidsStep(p) == Start(p) \/ Progress(p) \/ GetPidsFail(p)

PidsNext == \E p \in Proc : PidsStep(p) \/ ExitProcess(p)

PidsSpec ==
  /\ PidsInit /\ [][PidsNext]_pidsVars
  /\ \A p \in Proc :
       /\ WF_pidsVars(GetPidsRead(p)) /\ WF_pidsVars(GetPidsTruncate(p))
       /\ WF_pidsVars(GetPidsFlush(p))
       /\ WF_pidsVars(AddWatch(p)) /\ WF_pidsVars(FirstRefresh(p))
       /\ WF_pidsVars(HandleEvent(p))
       /\ WF_pidsVars(GiveUp(p) /\ ExitProcess(p))

-----------------------------------------------------------------------------
(* Properties                                                              *)

Watching(p) == Alive(p) /\ watcher[p] # "dead"

\* A map that differs from the file is one that a pending step will reload: no
\* change of pids.config is missed between inotify_add_watch, the first
\* Refresh and the event loop of PidsConfigWatcherThread.
NoLostUpdate ==
  \A p \in Proc :
    watcher[p] = "looping" /\ ~event[p] => pidsMap[p] = ToSet(pidsFile)

\* Once the calls have ended, the map of every process that still runs settles
\* on what is in the file.
MapsConverge ==
  \A p \in Proc : <>[](Watching(p) => pidsMap[p] = ToSet(pidsFile))

\* cuInit comes to an end: the process is registered or has exited, even when
\* the device plugin answers nothing but errors.
InitializeReturns == \A p \in Proc : life[p] = "registering" ~> life[p] # "registering"

\* service_impl.go:278, "get all pids map relationship in container": when no
\* call is running, every registered process is in the file. The calls are not
\* serialised, and the one that read cgroup.procs first may write last.
FileComplete ==
  (\A p \in Proc : call[p] = "none") =>
    \A p \in Proc : life[p] = "ready" => p \in ToSet(pidsFile)
=============================================================================
