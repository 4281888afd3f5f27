---------------------------- MODULE DeviceHealth ----------------------------
(***************************************************************************)
(* How the kubelet learns that a GPU has failed, and how the device plugin *)
(* is restarted and stopped (cmd/main.go, pkg/plugin/plugin.go,            *)
(* pkg/plugin/cache.go and checkHealth of pkg/plugin/xpu/gpu.go).          *)
(*                                                                         *)
(* Goroutines: main, checkHealth, notifyLoop and one ListAndWatch handler  *)
(* for every stream a kubelet has opened. checkHealth hands a device to    *)
(* notifyLoop, which sends it to the channel that main left in the         *)
(* DeviceCache; both channels are unbuffered. notifyLoop keeps the mutex   *)
(* of the cache while it sends; main needs it to add or to remove the      *)
(* channel. The health of the devices is read without it: a handler makes  *)
(* up its list device by device, and then sends what it has read.          *)
(*                                                                         *)
(* Every DevicePlugin.Start makes new channels, numbered here by the       *)
(* starts; 0 is no channel. The stop channels are left out: they are only  *)
(* closed when the process is about to exit.                               *)
(***************************************************************************)
EXTENDS Integers, Sequences

CONSTANTS
  Device,     \* the GPUs of the node
  Devices,    \* the same in the order of NVML, as in the cache
  NoDevice,   \* notifyLoop has no device in hand
  MaxStarts   \* bound on the calls of DevicePlugin.Start

ASSUME DeviceHealthAssumption ==
  Devices \in Seq(Device) /\ NoDevice \notin Device /\ MaxStarts \in Nat

VARIABLES
  mainPc,    \* where main is
  gen,       \* m.health: the channel of the last Start
  notifyCh,  \* the channel in the cache's notifyCh
  sigs,      \* the signal in sigs, a channel of one place
  created,   \* an inotify event "kubelet.sock created" waits for main
  toReport,  \* the devices that checkHealth is sending
  unhealthy, \* the devices that notifyLoop has marked v1beta1.Unhealthy
  notifying, \* the device that notifyLoop is notifying of
  mutex,     \* the cache's mutex; notifyLoop holds it while it sends
  lw,        \* lw[k]: where the ListAndWatch handler of registration k is
  list,      \* list[k]: what was unhealthy when it began to make up its list
  receives,  \* receives[k]: the channel on which it waits, if it does
  opener,    \* opener[k]: the kubelet that made the call, by its restarts
  kubelet,   \* the number of kubelet restarts
  known,     \* the devices that the kubelet knows to be unhealthy
  missed     \* history: devices of which no handler of the kubelet was told,
             \* or which an older list has made healthy again

mainVars == <<mainPc, gen, notifyCh, sigs, created>>
cacheVars == <<toReport, unhealthy, notifying, mutex>>
handlerVars == <<lw, list, receives, opener>>
kubeletVars == <<handlerVars, kubelet, known, missed>>
vars == <<mainVars, cacheVars, kubeletVars>>

Start == 1..MaxStarts
Channel == 0..MaxStarts

TypeOK ==
  /\ mainPc \in {"start", "register", "add", "events", "stop", "exited"}
  /\ gen \in Channel /\ notifyCh \in Channel
  /\ sigs \in {"none", "SIGHUP", "SIGTERM"}
  /\ created \in BOOLEAN
  /\ toReport \in Seq(Device)
  /\ unhealthy \subseteq Device
  /\ notifying \in Device \cup {NoDevice}
  /\ mutex \in {"free", "held"}
  /\ lw \in [Start -> {"none", "called", "list", "select", "receive"}]
  /\ list \in [Start -> SUBSET unhealthy]
  /\ receives \in [Start -> Channel]
  /\ opener \in [Start -> Nat]
  /\ kubelet \in Nat
  /\ known \subseteq unhealthy
  /\ missed \subseteq Device
  /\ mutex = "held" => notifying # NoDevice /\ notifyCh # 0

Init ==
  /\ mainPc = "start"
  /\ gen = 0 /\ notifyCh = 0
  /\ sigs = "none" /\ created = FALSE
  /\ toReport = <<>> /\ unhealthy = {}
  /\ notifying = NoDevice /\ mutex = "free"
  /\ lw = [k \in Start |-> "none"]
  /\ list = [k \in Start |-> {}]
  /\ receives = [k \in Start |-> 0]
  /\ opener = [k \in Start |-> 0]
  /\ kubelet = 0
  /\ known = {}
  /\ missed = {}

-----------------------------------------------------------------------------
(* main                                                                    *)

\* Mutant of Serve: a Start that is not the first keeps the channels.
ServeSameChannels ==
  /\ mainPc = "start" /\ gen < MaxStarts
  /\ gen' = 1
  /\ mainPc' = "register"
  /\ UNCHANGED <<notifyCh, sigs, created, cacheVars, kubeletVars>>

\* initialize and serve: new channels, and a server that accepts calls. It does
\* not stop the handlers of an earlier Start.
Serve ==
  /\ mainPc = "start" /\ gen < MaxStarts
  /\ gen' = gen + 1
  /\ mainPc' = "register"
  /\ UNCHANGED <<notifyCh, sigs, created, cacheVars, kubeletVars>>

\* The socket cannot be served: Start returns the error, main exits.
ServeFails ==
  /\ mainPc = "start"
  /\ mainPc' = "exited"
  /\ UNCHANGED <<gen, notifyCh, sigs, created, cacheVars, kubeletVars>>

\* Registered with the kubelet, which will now call ListAndWatch.
Register ==
  /\ mainPc = "register"
  /\ lw' = [lw EXCEPT ![gen] = "called"]
  /\ opener' = [opener EXCEPT ![gen] = kubelet]
  /\ mainPc' = "add"
  /\ UNCHANGED <<gen, notifyCh, sigs, created, cacheVars, list, receives,
                 kubelet, known, missed>>

\* It cannot be reached or refuses: Start calls Stop.
RegisterFails ==
  /\ mainPc = "register"
  /\ mainPc' = "stop"
  /\ UNCHANGED <<gen, notifyCh, sigs, created, cacheVars, kubeletVars>>

\* AddNotifyChannel waits for the mutex. Start returns, main goes to events.
AddNotifyChannel ==
  /\ mainPc = "add" /\ mutex = "free"
  /\ notifyCh' = gen
  /\ mainPc' = "events"
  /\ UNCHANGED <<gen, sigs, created, cacheVars, kubeletVars>>

\* events: a new kubelet socket or a SIGHUP make main start the plugin again,
\* any other signal makes it stop the plugin.
Events ==
  /\ mainPc = "events"
  /\ \/ created /\ created' = FALSE /\ mainPc' = "start" /\ UNCHANGED sigs
     \/ sigs = "SIGHUP" /\ sigs' = "none" /\ mainPc' = "start" /\ UNCHANGED created
     \/ sigs = "SIGTERM" /\ sigs' = "none" /\ mainPc' = "stop" /\ UNCHANGED created
  /\ UNCHANGED <<gen, notifyCh, cacheVars, kubeletVars>>

\* Stop: RemoveNotifyChannel waits for the mutex; then the server is stopped,
\* main returns and the process exits.
Stop ==
  /\ mainPc = "stop" /\ mutex = "free"
  /\ notifyCh' = 0
  /\ mainPc' = "exited"
  /\ UNCHANGED <<gen, sigs, created, cacheVars, kubeletVars>>

-----------------------------------------------------------------------------
(* checkHealth and notifyLoop                                              *)

\* A critical event of one device, or one without a UUID that is reported for
\* all of them. The events of NVML wait while the devices are sent.
CheckHealth ==
  /\ toReport = <<>>
  /\ \/ \E d \in Device : toReport' = <<d>>
     \/ toReport' = Devices
  /\ UNCHANGED <<mainVars, unhealthy, notifying, mutex, kubeletVars>>

\* notifyLoop takes the device from the unhealthy channel and marks it.
TakeUnhealthy ==
  /\ toReport # <<>> /\ notifying = NoDevice
  /\ notifying' = Head(toReport)
  /\ unhealthy' = unhealthy \cup {Head(toReport)}
  /\ toReport' = Tail(toReport)
  /\ UNCHANGED <<mainVars, mutex, kubeletVars>>

\* Mutant of NotifyNobody: it returns without unlocking the mutex.
NotifyNobodyLocked ==
  /\ notifying # NoDevice /\ mutex = "free" /\ notifyCh = 0
  /\ mutex' = "held"
  /\ UNCHANGED <<mainVars, toReport, unhealthy, notifying, kubeletVars>>

\* notify: no channel has been added yet.
NotifyNobody ==
  /\ notifying # NoDevice /\ mutex = "free" /\ notifyCh = 0
  /\ notifying' = NoDevice
  /\ missed' = missed \cup {notifying}
  /\ UNCHANGED <<mainVars, toReport, unhealthy, mutex, handlerVars, kubelet,
                 known>>

\* notify: with the mutex mutex, the device is sent to the channel.
Notify ==
  /\ notifying # NoDevice /\ mutex = "free" /\ notifyCh # 0
  /\ mutex' = "held"
  /\ UNCHANGED <<mainVars, toReport, unhealthy, notifying, kubeletVars>>

-----------------------------------------------------------------------------
(* ListAndWatch                                                            *)

Connected(k) == opener[k] = kubelet
Goto(k, label) == lw' = [lw EXCEPT ![k] = label]

\* The handler begins to read the health of the devices.
NewList(k) ==
  /\ Goto(k, "list")
  /\ list' = [list EXCEPT ![k] = unhealthy]

\* The kubelet calls ListAndWatch after it has answered a registration.
Call(k) ==
  /\ lw[k] = "called"
  /\ NewList(k)
  /\ UNCHANGED <<mainVars, cacheVars, receives, opener, kubelet, known, missed>>

\* apiDevices has read one device after the other, without the mutex: what has
\* been marked since it began is in its list or is not. The list goes to the
\* kubelet that opened the stream, for which it is the state of all devices; the
\* error of a stream that is broken is dropped.
Send(k) ==
  /\ lw[k] = "list"
  /\ IF Connected(k)
     THEN \E marked \in SUBSET (unhealthy \ list[k]) :
            /\ known' = list[k] \cup marked
            /\ missed' = (missed \cup known) \ known'
     ELSE UNCHANGED <<known, missed>>
  /\ Goto(k, "select")
  /\ list' = [list EXCEPT ![k] = {}]
  /\ UNCHANGED <<mainVars, cacheVars, receives, opener, kubelet>>

\* The select statement evaluates m.health: what it is now.
Select(k) ==
  /\ lw[k] = "select"
  /\ receives' = [receives EXCEPT ![k] = gen]
  /\ Goto(k, "receive")
  /\ UNCHANGED <<mainVars, cacheVars, list, opener, kubelet, known, missed>>

\* notifyLoop's send meets a handler that waits on the same channel: the mutex
\* is unlocked.
Meet(k) ==
  /\ lw[k] = "receive" /\ mutex = "held" /\ receives[k] = notifyCh
  /\ notifying' = NoDevice /\ mutex' = "free"
  /\ receives' = [receives EXCEPT ![k] = 0]
  /\ missed' = IF Connected(k) THEN missed ELSE missed \cup {notifying}
  /\ UNCHANGED <<mainVars, toReport, unhealthy, opener, kubelet, known>>

\* Mutants of Receive: the handler returns after one notification; it goes on
\* to the next without sending the list; it lists nothing but the device that
\* it was told of.
ReceiveOnce(k) == Meet(k) /\ Goto(k, "none") /\ UNCHANGED list
ReceiveUnsent(k) == Meet(k) /\ Goto(k, "select") /\ UNCHANGED list
ReceiveOne(k) ==
  /\ Meet(k)
  /\ Goto(k, "list")
  /\ list' = [list EXCEPT ![k] = {notifying}]

\* The handler that was told makes up a new list.
Receive(k) == Meet(k) /\ NewList(k)

Handler(k) == Send(k) \/ Select(k) \/ Receive(k)

-----------------------------------------------------------------------------
(* The environment. Its causes for a restart are bounded by MaxStarts.     *)

RestartsToCome ==
  (IF sigs = "SIGHUP" THEN 1 ELSE 0) + (IF created THEN 1 ELSE 0)
    + (IF mainPc = "start" THEN 1 ELSE 0)

\* A signal that finds the channel full is lost.
Signal ==
  /\ \/ sigs' = IF sigs = "none" THEN "SIGTERM" ELSE sigs
     \/ /\ gen + RestartsToCome < MaxStarts
        /\ sigs' = IF sigs = "none" THEN "SIGHUP" ELSE sigs
  /\ UNCHANGED <<mainPc, gen, notifyCh, created, cacheVars, kubeletVars>>

\* The kubelet restarts: it has forgotten everything, its streams are broken,
\* and its socket is created anew.
KubeletRestarts ==
  /\ ~created /\ gen + RestartsToCome < MaxStarts
  /\ kubelet' = kubelet + 1
  /\ created' = TRUE
  /\ known' = {} /\ missed' = {}
  /\ lw' = [k \in Start |-> IF lw[k] = "called" THEN "none" ELSE lw[k]]
  /\ UNCHANGED <<mainPc, gen, notifyCh, sigs, cacheVars, list, receives, opener>>

-----------------------------------------------------------------------------
Main ==
  \/ Serve \/ ServeFails \/ Register \/ RegisterFails
  \/ AddNotifyChannel \/ Events \/ Stop

NotifyLoop == TakeUnhealthy \/ NotifyNobody \/ Notify

Running == mainPc # "exited"

Next ==
  /\ Running
  /\ \/ Main \/ CheckHealth \/ NotifyLoop \/ Signal \/ KubeletRestarts
     \/ \E k \in Start : Call(k) \/ Handler(k)

Spec == Init /\ [][Next]_vars

\* Goroutines run, and a sync.Mutex starves none that waits for it; a kubelet
\* calls ListAndWatch on what it has registered.
FairSpec ==
  /\ Spec
  /\ WF_vars(Running /\ Main) /\ WF_vars(Running /\ NotifyLoop)
  /\ SF_vars(AddNotifyChannel) /\ SF_vars(Stop)
  /\ \A k \in Start :
       WF_vars(Running /\ Call(k)) /\ WF_vars(Running /\ Handler(k))

-----------------------------------------------------------------------------
(* Properties                                                              *)

\* The kubelet has called ListAndWatch on the stream.
Served(k) == Connected(k) /\ lw[k] \notin {"none", "called"}

\* A list that says that d is unhealthy is being made up for the kubelet.
Coming(d, k) == Connected(k) /\ lw[k] = "list" /\ d \in list[k]

\* A kubelet that is served knows every device that has failed, or a list with it
\* is on its way, or notifyLoop is at it: but for the devices of which notifyLoop
\* told nobody, or only the handler of a kubelet that is gone, and those that an
\* older list of another stream has overtaken.
ToldUnlessMissed ==
  \A d \in unhealthy \ missed :
    \/ d \in known
    \/ notifying = d
    \/ \E k \in Start : Coming(d, k)
    \/ \A k \in Start : ~Served(k)

TwoStreams == \E j, k \in Start : j # k /\ Served(j) /\ Served(k)

\* A kubelet that does not restart takes a failed device for healthy again only
\* when the plugin has been restarted under it (main.go:56), so that it has two
\* streams: a handler reads the health without a lock, and the list it sends may
\* be older than one that the other handler has sent in between (plugin.go:220).
OneStreamInOrder ==
  [][known \subseteq known' \/ kubelet' # kubelet \/ TwoStreams]_vars

\* Why: of a device that the kubelet knows a handler makes up a list without it
\* only when the other one has told of it.
ListsInOrder ==
  \A k \in Start : \A d \in known :
    Connected(k) /\ lw[k] = "list" => d \in list[k] \/ TwoStreams

\* A Start has channels that no handler knows, and a kubelet that restarts has no
\* handlers.
FreshChannels ==
  /\ \A k \in Start : k > gen => lw[k] = "none"
  /\ mainPc = "register" => gen \in Start /\ lw[gen] = "none"
OpenersPast == \A k \in Start : opener[k] <= kubelet

HealthInv ==
  /\ FreshChannels /\ OpenersPast
  /\ ToldUnlessMissed /\ ListsInOrder
Inv == TypeOK /\ HealthInv

FirstStart == gen <= 1 /\ kubelet = 0

\* As long as neither the plugin nor the kubelet has been restarted, a failure
\* that is notified after AddNotifyChannel gets to the kubelet.
FailureReported ==
  \A d \in Device :
    notifying = d /\ notifyCh # 0 ~> d \in known \/ ~Running \/ ~FirstStart

\* notifyLoop sends to a channel from which no handler receives or ever will: there
\* is none, or they have all gone over to the channel of a later Start.
Abandoned ==
  /\ mutex = "held" /\ notifyCh # 0
  /\ \A k \in Start :
       lw[k] = "none" \/ (notifyCh # gen /\ ~(lw[k] = "receive" /\ receives[k] = notifyCh))

\* main is in AddNotifyChannel or RemoveNotifyChannel.
WaitsForMutex == mainPc \in {"add", "stop"}

\* The one thing that a Start or Stop can wait for for ever is the mutex of a
\* notify that is abandoned (cache.go:82): AddNotifyChannel and
\* RemoveNotifyChannel wait for nothing else, and a SIGTERM that has got its
\* place in the channel ends the process.
BlockedOnlyByAbandoned ==
  /\ WaitsForMutex ~> ~WaitsForMutex \/ Abandoned
  /\ sigs = "SIGTERM" ~> ~Running \/ Abandoned

\* main.go:45, true makes main restart the plugin "to reconnect to the kubelet":
\* the restart comes to its end. When devices fail while it is under way, the
\* handler of the first moves to the new channel, and notifyLoop waits with the
\* mutex for someone to receive the second from the old one.
RestartCompletes == mainPc = "add" ~> mainPc # "add"
=============================================================================
