------------------------ MODULE DeviceHealth_proofs ------------------------
(* Proofs about DeviceHealth, for all nodes and any number of restarts.     *)
EXTENDS DeviceHealth, TLAPS

\* The steps that leave alone what the kubelet knows and what it may miss.
Quiet ==
  \/ Serve \/ ServeFails \/ RegisterFails \/ AddNotifyChannel \/ Events \/ Stop
  \/ CheckHealth \/ Notify \/ Signal

\* Every step is quiet or one of the seven that the invariant is about.
LEMMA Steps ==
  Next => \/ Quiet \/ Register \/ TakeUnhealthy \/ NotifyNobody \/ KubeletRestarts
          \/ \E k \in Start : Call(k) \/ Send(k) \/ Select(k) \/ Receive(k)
BY DEF Next, Main, NotifyLoop, Handler, Quiet

LEMMA TypeStep == TypeOK /\ [Next]_vars => TypeOK'
<1> SUFFICES ASSUME TypeOK, [Next]_vars PROVE TypeOK'
  OBVIOUS
<1> USE DEF TypeOK, mainVars, cacheVars, kubeletVars, handlerVars
<1>1. CASE Serve
  <2>1. gen' \in Channel
    BY <1>1, DeviceHealthAssumption DEF DeviceHealthAssumption, Serve, Channel
  <2> QED
    BY <1>1, <2>1 DEF Serve
<1>2. CASE ServeFails \/ RegisterFails
  BY <1>2 DEF ServeFails, RegisterFails
<1>3. CASE AddNotifyChannel \/ Stop
  <2>1. 0 \in Channel
    BY DeviceHealthAssumption DEF DeviceHealthAssumption, Channel
  <2> QED
    BY <1>3, <2>1 DEF AddNotifyChannel, Stop
<1>4. CASE Events
  BY <1>4 DEF Events
<1>5. CASE Register
  BY <1>5 DEF Register
<1>6. CASE CheckHealth
  <2>1. (\E d \in Device : toReport' = <<d>>) \/ toReport' = Devices
    BY <1>6 DEF CheckHealth
  <2>2. \A d \in Device : <<d>> \in Seq(Device)
    OBVIOUS
  <2>3. toReport' \in Seq(Device)
    BY ONLY <2>1, <2>2, DeviceHealthAssumption DEF DeviceHealthAssumption
  <2> QED
    BY <1>6, <2>3 DEF CheckHealth
<1>7. CASE TakeUnhealthy
  <2>1. toReport \in Seq(Device) /\ toReport # <<>> /\ toReport' = Tail(toReport)
    BY <1>7 DEF TakeUnhealthy
  <2>2. Head(toReport) \in Device /\ toReport' \in Seq(Device)
    BY ONLY <2>1
  <2> QED
    BY <1>7, <2>2, DeviceHealthAssumption DEF DeviceHealthAssumption, TakeUnhealthy
<1>8. CASE NotifyNobody \/ Notify
  BY <1>8 DEF NotifyNobody, Notify
<1>9. CASE Signal
  BY <1>9 DEF Signal
<1>10. CASE KubeletRestarts
  BY <1>10 DEF KubeletRestarts
<1>11. ASSUME NEW k \in Start, Call(k) \/ Select(k) PROVE TypeOK'
  BY <1>11 DEF Call, Select, NewList, Goto
<1>12. ASSUME NEW k \in Start, Receive(k) PROVE TypeOK'
  <2>1. receives' \in [Start -> Channel]
    BY <1>12, DeviceHealthAssumption DEF DeviceHealthAssumption, Receive, Meet, Channel
  <2> QED
    BY <1>12, <2>1 DEF Receive, Meet, NewList, Goto
<1>13. ASSUME NEW k \in Start, Send(k) PROVE TypeOK'
  <2>1. known' \subseteq unhealthy /\ missed' \subseteq Device
    BY <1>13 DEF Send
  <2> QED
    BY <1>13, <2>1 DEF Send, Goto
<1>14. CASE UNCHANGED vars
  BY <1>14 DEF vars
<1> QED
  BY <1>1, <1>2, <1>3, <1>4, <1>5, <1>6, <1>7, <1>8, <1>9, <1>10, <1>11, <1>12,
     <1>13, <1>14, Steps DEF Quiet

\* All variables keep their types; the kubelet never takes a healthy device for
\* an unhealthy one, and notifyLoop has the mutex only while it has a device to
\* send and a channel to send it to.
THEOREM TypeCorrect == Spec => []TypeOK
<1>1. Init => TypeOK
  <2> SUFFICES ASSUME Init PROVE TypeOK
    OBVIOUS
  <2>1. 0 \in Channel
    BY DeviceHealthAssumption DEF DeviceHealthAssumption, Channel
  <2>2. <<>> \in Seq(Device)
    OBVIOUS
  <2> QED
    BY <2>1, <2>2 DEF Init, TypeOK
<1> QED
  BY <1>1, TypeStep, PTL DEF Spec

-----------------------------------------------------------------------------
LEMMA FreshStep == TypeOK /\ FreshChannels /\ [Next]_vars => FreshChannels'
<1> SUFFICES ASSUME TypeOK, FreshChannels, [Next]_vars PROVE FreshChannels'
  OBVIOUS
<1> USE DEF FreshChannels, mainVars, cacheVars, kubeletVars, handlerVars
<1>1. CASE Serve
  <2>1. gen' = gen + 1 /\ gen' \in Start /\ UNCHANGED lw
    BY <1>1, DeviceHealthAssumption DEF DeviceHealthAssumption, Serve, TypeOK, Channel, Start
  <2>2. \A k \in Start : k > gen' => k > gen
    BY <2>1 DEF TypeOK, Channel, Start
  <2>3. gen' > gen
    BY <2>1 DEF TypeOK, Channel
  <2> QED
    BY <2>1, <2>2, <2>3
<1>2. CASE ServeFails \/ RegisterFails \/ AddNotifyChannel \/ Events \/ Stop
  BY <1>2 DEF ServeFails, RegisterFails, AddNotifyChannel, Events, Stop
<1>3. CASE Register
  <2>1. UNCHANGED gen /\ mainPc' = "add"
    BY <1>3 DEF Register
  <2>2. \A k \in Start : k > gen => lw'[k] = lw[k]
    BY <1>3 DEF Register, TypeOK, Channel, Start
  <2> QED
    BY <2>1, <2>2
<1>4. CASE CheckHealth \/ TakeUnhealthy \/ NotifyNobody \/ Notify \/ Signal
  BY <1>4 DEF CheckHealth, TakeUnhealthy, NotifyNobody, Notify, Signal
<1>5. CASE KubeletRestarts
  BY <1>5 DEF KubeletRestarts, TypeOK
<1>6. ASSUME NEW k \in Start, Call(k) \/ Send(k) \/ Select(k) \/ Receive(k)
      PROVE  FreshChannels'
  <2>1. lw[k] # "none" /\ UNCHANGED <<mainPc, gen>>
    BY <1>6 DEF Call, Send, Select, Receive, Meet
  <2>2. \A j \in Start \ {k} : lw'[j] = lw[j]
    BY <1>6 DEF Call, Send, Select, Receive, Meet, NewList, Goto, TypeOK
  <2> QED
    BY <2>1, <2>2
<1>7. CASE UNCHANGED vars
  BY <1>7 DEF vars
<1> QED
  BY <1>1, <1>2, <1>3, <1>4, <1>5, <1>6, <1>7, Steps DEF Quiet

LEMMA OpenersStep == TypeOK /\ OpenersPast /\ [Next]_vars => OpenersPast'
<1> SUFFICES ASSUME TypeOK, OpenersPast, [Next]_vars PROVE OpenersPast'
  OBVIOUS
<1> USE DEF OpenersPast, kubeletVars, handlerVars
<1>1. CASE Register
  BY <1>1 DEF Register, TypeOK
<1>2. CASE KubeletRestarts
  BY <1>2 DEF KubeletRestarts, TypeOK
<1>3. ASSUME UNCHANGED <<opener, kubelet>> PROVE OpenersPast'
  BY <1>3
<1>4. CASE Quiet \/ TakeUnhealthy \/ NotifyNobody \/ UNCHANGED vars
  BY <1>3, <1>4 DEF Quiet, Serve, ServeFails, RegisterFails, AddNotifyChannel,
     Events, Stop, CheckHealth, TakeUnhealthy, Notify, NotifyNobody, Signal, vars
<1>5. ASSUME NEW k \in Start, Call(k) \/ Send(k) \/ Select(k) \/ Receive(k)
      PROVE  OpenersPast'
  BY <1>3, <1>5 DEF Call, Send, Select, Receive, Meet
<1> QED
  BY <1>1, <1>2, <1>4, <1>5, Steps

\* What the steps of a handler leave alone, and how they change what it does.
LEMMA HandlerStep ==
  ASSUME TypeOK, NEW k \in Start, Call(k) \/ Send(k) \/ Select(k) \/ Receive(k)
  PROVE  /\ \A j \in Start \ {k} : lw'[j] = lw[j] /\ list'[j] = list[j]
         /\ lw[k] # "none" /\ (lw[k] = "called" => Call(k))
         /\ Call(k) \/ Receive(k) => lw'[k] = "list" /\ list'[k] = unhealthy
         /\ Send(k) => lw'[k] = "select"
         /\ Select(k) => lw'[k] = "receive"
         /\ Call(k) \/ Select(k) \/ Receive(k) => known' = known
         /\ UNCHANGED <<unhealthy, opener, kubelet>>
BY DEF TypeOK, Call, Send, Select, Receive, Meet, NewList, Goto, cacheVars

\* No step but a restart of the kubelet ends a stream.
LEMMA StreamsStay ==
  TypeOK /\ FreshChannels /\ [Next]_vars =>
    kubelet' # kubelet \/ \A k \in Start : Served(k) => Served(k)'
<1> SUFFICES ASSUME TypeOK, FreshChannels, [Next]_vars, kubelet' = kubelet,
                    NEW k \in Start, Served(k)
             PROVE  Served(k)'
  OBVIOUS
<1> USE DEF Served, Connected, mainVars, cacheVars, kubeletVars, handlerVars
<1>1. CASE UNCHANGED <<lw, opener>>
  BY <1>1
<1>2. CASE Quiet \/ TakeUnhealthy \/ NotifyNobody \/ UNCHANGED vars
  BY <1>1, <1>2 DEF Quiet, Serve, ServeFails, RegisterFails, AddNotifyChannel,
     Events, Stop, CheckHealth, TakeUnhealthy, Notify, NotifyNobody, Signal, vars
<1>3. CASE Register
  BY <1>3 DEF Register, FreshChannels, TypeOK
<1>4. CASE KubeletRestarts
  BY <1>4 DEF KubeletRestarts, TypeOK
<1>5. ASSUME NEW j \in Start, Call(j) \/ Send(j) \/ Select(j) \/ Receive(j)
      PROVE  Served(k)'
  BY <1>5, HandlerStep
<1> QED
  BY <1>2, <1>3, <1>4, <1>5, Steps

LEMMA TwoStreamsStay ==
  TypeOK /\ FreshChannels /\ [Next]_vars /\ kubelet' = kubelet /\ TwoStreams
    => TwoStreams'
BY StreamsStay DEF TwoStreams

LEMMA ListsStep ==
  TypeOK /\ FreshChannels /\ OpenersPast /\ ListsInOrder /\ [Next]_vars => ListsInOrder'
<1> SUFFICES ASSUME TypeOK, FreshChannels, OpenersPast, ListsInOrder, [Next]_vars,
                    NEW k \in Start, NEW d \in known',
                    opener'[k] = kubelet', lw'[k] = "list", d \notin list'[k]
             PROVE  TwoStreams'
  BY DEF ListsInOrder, Connected
<1> USE DEF Connected, mainVars, cacheVars, kubeletVars, handlerVars
<1>1. CASE KubeletRestarts
  BY <1>1 DEF KubeletRestarts
<1>2. ASSUME UNCHANGED <<known, kubelet>>, lw[k] = "list", opener[k] = opener'[k],
             list[k] = list'[k]
      PROVE  TwoStreams'
  BY <1>2, TwoStreamsStay DEF ListsInOrder
<1>3. CASE Quiet \/ TakeUnhealthy \/ NotifyNobody \/ UNCHANGED vars
  BY <1>2, <1>3 DEF Quiet, Serve, ServeFails, RegisterFails, AddNotifyChannel,
     Events, Stop, CheckHealth, TakeUnhealthy, Notify, NotifyNobody, Signal, vars
<1>4. CASE Register
  BY <1>2, <1>4 DEF Register, FreshChannels, TypeOK
<1>5. ASSUME NEW j \in Start, Call(j) \/ Select(j) \/ Receive(j)
      PROVE  TwoStreams'
  <2>1. j # k
    BY <1>5, HandlerStep DEF TypeOK
  <2> QED
    BY <1>2, <1>5, <2>1, HandlerStep
<1>6. ASSUME NEW j \in Start, Send(j) PROVE TwoStreams'
  <2>1. j # k /\ lw[k] = "list" /\ list[k] = list'[k] /\ UNCHANGED <<opener, kubelet>>
    BY <1>6, HandlerStep
  <2>2. CASE opener[j] = kubelet
    <3>1. Served(j)' /\ Served(k)'
      BY <1>6, <2>1, <2>2, HandlerStep DEF Served
    <3> QED
      BY <2>1, <3>1 DEF TwoStreams
  <2>3. CASE opener[j] # kubelet
    BY <1>2, <1>6, <2>1, <2>3 DEF Send
  <2> QED
    BY <2>2, <2>3
<1> QED
  BY <1>1, <1>3, <1>4, <1>5, <1>6, Steps

LEMMA ToldStep == TypeOK /\ HealthInv /\ [Next]_vars => ToldUnlessMissed'
<1> SUFFICES ASSUME TypeOK, HealthInv, [Next]_vars,
                    NEW d \in unhealthy' \ missed', d \notin known', notifying' # d,
                    ~\E k \in Start : Coming(d, k)'
             PROVE  \A k \in Start : ~Served(k)'
  BY DEF ToldUnlessMissed
<1> USE DEF HealthInv, ToldUnlessMissed, Connected, Served, Coming, mainVars,
            cacheVars, kubeletVars, handlerVars
<1>1. CASE Quiet \/ UNCHANGED vars
  BY <1>1 DEF Quiet, Serve, ServeFails, RegisterFails, AddNotifyChannel, Events,
     Stop, CheckHealth, Notify, Signal, vars
<1>2. CASE Register
  <2>1. gen \in Start /\ lw[gen] = "none" /\ lw'[gen] = "called"
    BY <1>2 DEF Register, FreshChannels, TypeOK
  <2>2. \A k \in Start \ {gen} : lw'[k] = lw[k] /\ opener'[k] = opener[k]
    BY <1>2 DEF Register, TypeOK
  <2>3. UNCHANGED <<unhealthy, known, missed, notifying, kubelet, list>>
    BY <1>2 DEF Register
  <2> QED
    BY <2>1, <2>2, <2>3
<1>3. CASE TakeUnhealthy
  <2>1. \A x \in unhealthy : x # notifying
    BY <1>3, DeviceHealthAssumption DEF DeviceHealthAssumption, TakeUnhealthy, TypeOK
  <2> QED
    BY <1>3, <2>1 DEF TakeUnhealthy
<1>4. CASE NotifyNobody
  BY <1>4 DEF NotifyNobody
<1>5. CASE KubeletRestarts
  BY <1>5 DEF KubeletRestarts, OpenersPast, TypeOK
<1>6. ASSUME NEW k \in Start, Call(k) PROVE \A j \in Start : ~Served(j)'
  <2>1. /\ UNCHANGED <<unhealthy, known, missed, notifying, opener, kubelet>>
        /\ lw'[k] = "list" /\ list'[k] = unhealthy
        /\ \A j \in Start \ {k} : lw'[j] = lw[j] /\ list'[j] = list[j]
    BY <1>6, HandlerStep DEF Call
  <2>2. lw[k] = "called"
    BY <1>6 DEF Call
  <2> QED
    BY <2>1, <2>2
<1>7. ASSUME NEW k \in Start, Send(k) PROVE \A j \in Start : ~Served(j)'
  <2>1. /\ UNCHANGED <<unhealthy, notifying, opener, kubelet>>
        /\ lw[k] = "list" /\ lw'[k] = "select"
        /\ \A j \in Start \ {k} : lw'[j] = lw[j] /\ list'[j] = list[j]
    BY <1>7, HandlerStep DEF Send
  <2>2. CASE opener[k] = kubelet
    <3>1. list[k] \subseteq known' /\ missed' = (missed \cup known) \ known'
      BY <1>7, <2>2 DEF Send
    <3> QED
      BY <2>1, <2>2, <3>1
  <2>3. CASE opener[k] # kubelet
    <3>1. UNCHANGED <<known, missed>>
      BY <1>7, <2>3 DEF Send
    <3> QED
      BY <2>1, <2>3, <3>1
  <2> QED
    BY <2>2, <2>3
<1>8. ASSUME NEW k \in Start, Select(k) PROVE \A j \in Start : ~Served(j)'
  <2>1. /\ UNCHANGED <<unhealthy, known, missed, notifying, opener, kubelet>>
        /\ lw[k] = "select" /\ lw'[k] = "receive" /\ UNCHANGED list
        /\ \A j \in Start \ {k} : lw'[j] = lw[j]
    BY <1>8, HandlerStep DEF Select
  <2> QED
    BY <2>1
<1>9. ASSUME NEW k \in Start, Receive(k) PROVE \A j \in Start : ~Served(j)'
  <2>1. /\ UNCHANGED <<unhealthy, known, opener, kubelet>>
        /\ lw[k] = "receive" /\ lw'[k] = "list" /\ list'[k] = unhealthy
        /\ \A j \in Start \ {k} : lw'[j] = lw[j] /\ list'[j] = list[j]
    BY <1>9, HandlerStep DEF Receive, Meet
  <2>2. missed' = IF opener[k] = kubelet THEN missed ELSE missed \cup {notifying}
    BY <1>9 DEF Receive, Meet
  <2>3. CASE opener[k] = kubelet
    BY <2>1, <2>3
  <2>4. CASE opener[k] # kubelet
    BY <2>1, <2>2, <2>4
  <2> QED
    BY <2>3, <2>4
<1> QED
  BY <1>1, <1>2, <1>3, <1>4, <1>5, <1>6, <1>7, <1>8, <1>9, Steps

\* A known failure is dropped only by a list of one of two streams.
LEMMA OrderStep == Inv /\ [Next]_vars =>
  (known \subseteq known' \/ kubelet' # kubelet \/ TwoStreams)
<1> SUFFICES ASSUME Inv, [Next]_vars, kubelet' = kubelet, NEW d \in known,
                    d \notin known'
             PROVE  TwoStreams
  OBVIOUS
<1> USE DEF Inv, HealthInv, mainVars, cacheVars, kubeletVars, handlerVars
<1>1. CASE Quiet \/ Register \/ TakeUnhealthy \/ NotifyNobody \/ UNCHANGED vars
  BY <1>1 DEF Quiet, Serve, ServeFails, RegisterFails, Register, AddNotifyChannel,
     Events, Stop, CheckHealth, TakeUnhealthy, Notify, NotifyNobody, Signal, vars
<1>2. CASE KubeletRestarts
  BY <1>2 DEF KubeletRestarts, TypeOK
<1>3. ASSUME NEW k \in Start, Call(k) \/ Select(k) \/ Receive(k) PROVE TwoStreams
  BY <1>3, HandlerStep
<1>4. ASSUME NEW k \in Start, Send(k) PROVE TwoStreams
  <2>1. Connected(k) /\ lw[k] = "list" /\ d \notin list[k]
    BY <1>4 DEF Send
  <2> QED
    BY <2>1 DEF ListsInOrder
<1> QED
  BY <1>1, <1>2, <1>3, <1>4, Steps

\* The inductive invariant of the notifications.
THEOREM HealthInvariant == Spec => []Inv
<1>1. Init => HealthInv
  BY DEF Init, HealthInv, FreshChannels, OpenersPast, ToldUnlessMissed, ListsInOrder
<1>2. TypeOK /\ HealthInv /\ [Next]_vars => HealthInv'
  BY FreshStep, OpenersStep, ToldStep, ListsStep DEF HealthInv
<1> QED
  BY <1>1, <1>2, TypeCorrect, PTL DEF Spec, Inv

\* On every node, whatever is restarted how often: a kubelet that is served and
\* does not know of a failure is about to hear of it, unless the notification
\* met no channel or only the handler of a kubelet that is gone, or an older list
\* has overtaken the one it was in.
THEOREM NoFailureForgotten == Spec => []ToldUnlessMissed
<1>1. Inv => ToldUnlessMissed
  BY DEF Inv, HealthInv
<1> QED
  BY <1>1, HealthInvariant, PTL

\* However the handlers read and send: only a kubelet with two streams, of two
\* starts of the plugin, ever takes a failed device for healthy again.
THEOREM FailureStaysKnown == Spec => OneStreamInOrder
<1>1. Inv /\ [Next]_vars => [known \subseteq known' \/ kubelet' # kubelet \/ TwoStreams]_vars
  BY OrderStep
<1> QED
  BY <1>1, HealthInvariant, PTL DEF Spec, OneStreamInOrder
=============================================================================
