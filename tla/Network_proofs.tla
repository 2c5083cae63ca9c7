---------------------------- MODULE Network_proofs ----------------------------
(***************************************************************************)
(* Proofs about Network: its types; that the mark which makes the handler  *)
(* pass over one loss of the connection never waits for a loss that does   *)
(* not come; and that the supervisor's view is the station's once all that *)
(* is under way between the two tasks has been handled.                    *)
(***************************************************************************)
EXTENDS Network, TLAPS

------------------------------------------------------------------------------
(* Queues                                                                   *)

WifiEvent == {"START", "DISCONNECTED", "GOT_IP"}

NetworkEvent == {"STARTED", "CONNECTED", "DISCONNECTED", "RETRY_EXHAUSTED"}

LEMMA Appended ==
  ASSUME NEW S, NEW q \in Seq(S), NEW e \in S
  PROVE  /\ Append(q, e) \in Seq(S) /\ Append(q, e) # <<>>
         /\ Len(q) \in Nat /\ Len(Append(q, e)) = Len(q) + 1
         /\ Append(q, e)[Len(Append(q, e))] = e
         /\ \A i \in 1 .. Len(q) : Append(q, e)[i] = q[i]
<1>1. /\ Append(q, e) \in Seq(S) /\ Len(q) \in Nat /\ Len(Append(q, e)) = Len(q) + 1
      /\ Append(q, e)[Len(q) + 1] = e
      /\ \A i \in 1 .. Len(q) : Append(q, e)[i] = q[i]
  OBVIOUS
<1>2. Append(q, e) # <<>>
  BY <1>1
<1> QED
  BY <1>1, <1>2

LEMMA Taken ==
  ASSUME NEW S, NEW q \in Seq(S), q # <<>>
  PROVE  /\ Tail(q) \in Seq(S) /\ Head(q) = q[1] /\ Head(q) \in S
         /\ Len(q) \in Nat \ {0} /\ Len(Tail(q)) = Len(q) - 1
         /\ \A i \in 1 .. Len(Tail(q)) : Tail(q)[i] = q[i + 1]
         /\ Tail(q) = <<>> => Len(q) = 1
         /\ Tail(q) # <<>> => Len(q) > 1 /\ Tail(q)[Len(Tail(q))] = q[Len(q)]
<1>1. Len(q) \in Nat \ {0}
  OBVIOUS
<1>2. /\ Tail(q) \in Seq(S) /\ Head(q) = q[1] /\ Head(q) \in S
      /\ Len(Tail(q)) = Len(q) - 1
      /\ \A i \in 1 .. Len(Tail(q)) : Tail(q)[i] = q[i + 1]
  BY <1>1
<1>3. Tail(q) = <<>> => Len(q) = 1
  <2> DEFINE t == Tail(q)
  <2>1. t \in Seq(S) /\ Len(t) = Len(q) - 1
    BY <1>2
  <2> HIDE DEF t
  <2>2. t = <<>> => Len(t) = 0
    BY <2>1
  <2> QED
    BY <1>1, <2>1, <2>2 DEF t
<1>4. ASSUME Tail(q) # <<>>
      PROVE  Len(q) > 1 /\ Tail(q)[Len(Tail(q))] = q[Len(q)]
  <2>1. Len(Tail(q)) # 0
    <3> DEFINE t == Tail(q)
    <3>1. t \in Seq(S) /\ t # <<>>
      BY <1>2, <1>4
    <3> HIDE DEF t
    <3>2. Len(t) # 0
      BY <3>1
    <3> QED
      BY <3>2 DEF t
  <2>2. Len(Tail(q)) \in 1 .. Len(Tail(q))
    BY <1>1, <1>2, <2>1
  <2> QED
    BY <1>1, <1>2, <2>2
<1> QED
  BY <1>1, <1>2, <1>3, <1>4

------------------------------------------------------------------------------
(* The invariant                                                            *)

LossUnderWay == \E i \in 1 .. Len(wifiEvents) : wifiEvents[i] = "DISCONNECTED"

\* The mark is set only where the loss it passes over is under way, or while
\* the call that set it has still to disconnect or to take it back.
PendingInv ==
  shared.pending =>
    \/ caller \in {"stopTimer", "disconnect", "unmark"}
    \/ handler = "disconnected"
    \/ LossUnderWay

\* What the station's last event says has been taken by the handler.
Quiet == wifiEvents = <<>> \/ wifiEvents[Len(wifiEvents)] = "START"

Connected == {"gotIp", "stopTimer", "report"}

\* The start comes first, and before anything is reported.
StartInv ==
  /\ \A i \in 1 .. Len(wifiEvents) : wifiEvents[i] = "START" =>
       i = 1 /\ netQueue = <<>> /\ handler = "idle"
  /\ \A i \in 1 .. Len(netQueue) : netQueue[i] = "STARTED" => i = 1

\* The station's state is told by the youngest report that says anything of it,
\* wherever that is on its way: in the event loop, in the handler, in the queue
\* to the supervisor, or in the supervisor's view.
NewsInv ==
  /\ StartInv
  /\ ~Quiet => (driver = "connected" <=> wifiEvents[Len(wifiEvents)] = "GOT_IP")
  /\ Quiet /\ handler \in Connected => driver = "connected"
  /\ Quiet /\ handler \in {"disconnected", "notify"} => driver # "connected"
  /\ Quiet /\ handler \notin Connected =>
       IF netQueue # <<>> /\ netQueue[Len(netQueue)] # "STARTED"
       THEN driver = "connected" <=> netQueue[Len(netQueue)] = "CONNECTED"
       ELSE driver = "connected" <=> appWifi

IInv == TypeOK /\ PendingInv /\ (DropsAllowed \/ NewsInv)

LEMMA InitInv == Init => IInv
<1> SUFFICES ASSUME Init PROVE IInv
  OBVIOUS
<1>1. /\ wifiEvents = <<"START">> /\ netQueue = <<>> /\ handler = "idle"
      /\ driver = "idle" /\ appWifi = FALSE
  BY DEF Init
<1>2. wifiEvents \in Seq(WifiEvent) /\ Len(wifiEvents) = 1 /\ wifiEvents[1] = "START"
  BY <1>1 DEF WifiEvent
<1>3. TypeOK
  <2>1. netQueue \in Seq(NetworkEvent) /\ Len(netQueue) = 0
    BY <1>1
  <2>2. shared \in [credentials : BOOLEAN, connected : BOOLEAN, pending : BOOLEAN,
                    exhausted : BOOLEAN, retries : 0 .. RetryCap]
    BY NetworkAssumption DEF Init, RetryCap
  <2>3. /\ timer = FALSE /\ callback = "idle" /\ caller = "idle" /\ previously = FALSE
        /\ requests \in 0 .. MaxRequests
    BY NetworkAssumption DEF Init
  <2>4. Len(netQueue) <= QueueLength
    BY <2>1, NetworkAssumption
  <2> QED
    BY <1>1, <1>2, <2>1, <2>2, <2>3, <2>4 DEF TypeOK, WifiEvent, NetworkEvent
<1>4. PendingInv
  BY DEF Init, PendingInv
<1>5. NewsInv
  BY <1>1, <1>2 DEF NewsInv, StartInv, Quiet, Connected
<1> QED
  BY <1>3, <1>4, <1>5 DEF IInv

------------------------------------------------------------------------------
(* What several steps do                                                    *)

LEMMA Facts ==
  ASSUME IInv
  PROVE  /\ TypeOK /\ wifiEvents \in Seq(WifiEvent) /\ netQueue \in Seq(NetworkEvent)
         /\ Len(netQueue) \in Nat /\ Len(netQueue) <= QueueLength
         /\ FastRetryLimit \in Nat /\ QueueLength \in Nat \ {0} /\ MaxRequests \in Nat
  BY NetworkAssumption DEF IInv, TypeOK, WifiEvent, NetworkEvent

\* A step that touches neither queue, that opens or closes no connection and
\* that takes the handler from no loss to none, keeps the news.
LEMMA NewsKept ==
  ASSUME NewsInv, UNCHANGED <<wifiEvents, netQueue, appWifi>>,
         driver' = "connected" <=> driver = "connected",
         handler' \in Connected <=> handler \in Connected,
         handler' \in {"disconnected", "notify"} => handler \in {"disconnected", "notify"},
         handler = "idle" => handler' = "idle"
  PROVE  NewsInv'
<1>1. Quiet' <=> Quiet
  BY DEF Quiet
<1>2. StartInv'
  BY DEF NewsInv, StartInv
<1> QED
  BY <1>1, <1>2 DEF NewsInv

\* The driver reports a loss, on its own or because it was told to disconnect.
LEMMA LossReported ==
  ASSUME IInv, DisconnectSucceeds, UNCHANGED <<handler, netQueue, appWifi>>
  PROVE  /\ wifiEvents' \in Seq(WifiEvent) /\ driver' = "idle" /\ LossUnderWay'
         /\ NewsInv => NewsInv'
<1>1. driver' = "idle" /\ wifiEvents' = Append(wifiEvents, "DISCONNECTED")
  BY DEF DisconnectSucceeds
<1>2. /\ wifiEvents' \in Seq(WifiEvent) /\ wifiEvents' # <<>>
      /\ Len(wifiEvents) \in Nat /\ Len(wifiEvents') = Len(wifiEvents) + 1
      /\ wifiEvents'[Len(wifiEvents')] = "DISCONNECTED"
      /\ \A i \in 1 .. Len(wifiEvents) : wifiEvents'[i] = wifiEvents[i]
  BY <1>1, Facts, Appended DEF WifiEvent
<1>3. LossUnderWay'
  <2>1. Len(wifiEvents') \in 1 .. Len(wifiEvents')
    BY <1>2
  <2> QED
    BY <1>2, <2>1 DEF LossUnderWay
<1>4. ~Quiet'
  BY <1>2 DEF Quiet
<1>5. ASSUME StartInv PROVE StartInv'
  <2>1. \A i \in 1 .. Len(wifiEvents') : wifiEvents'[i] = "START" => i \in 1 .. Len(wifiEvents)
    BY <1>2
  <2> QED
    BY <1>2, <1>5, <2>1 DEF StartInv
<1>6. NewsInv => NewsInv'
  BY <1>1, <1>2, <1>4, <1>5 DEF NewsInv
<1> QED
  BY <1>1, <1>2, <1>3, <1>6

\* queue_network_event, where it has room.
LEMMA EventQueued ==
  ASSUME IInv, NEW event \in NetworkEvent, QueueNetworkEvent(event)
  PROVE  /\ netQueue' \in Seq(NetworkEvent) /\ Len(netQueue') <= QueueLength
         /\ ~DropsAllowed =>
              /\ netQueue' = Append(netQueue, event) /\ netQueue' # <<>>
              /\ Len(netQueue') = Len(netQueue) + 1
              /\ netQueue'[Len(netQueue')] = event
              /\ \A i \in 1 .. Len(netQueue) : netQueue'[i] = netQueue[i]
<1>1. /\ Append(netQueue, event) \in Seq(NetworkEvent) /\ Append(netQueue, event) # <<>>
      /\ Len(Append(netQueue, event)) = Len(netQueue) + 1
      /\ Append(netQueue, event)[Len(Append(netQueue, event))] = event
      /\ \A i \in 1 .. Len(netQueue) : Append(netQueue, event)[i] = netQueue[i]
  BY Facts, Appended
<1>2. CASE Len(netQueue) < QueueLength
  <2>1. netQueue' = Append(netQueue, event)
    BY <1>2 DEF QueueNetworkEvent
  <2> QED
    BY <1>1, <1>2, <2>1, Facts
<1>3. CASE ~(Len(netQueue) < QueueLength)
  BY <1>3, Facts DEF QueueNetworkEvent
<1> QED
  BY <1>2, <1>3

------------------------------------------------------------------------------
(* The driver and the timer                                                 *)

LEMMA DriverConnectsStep == IInv /\ DriverConnects => IInv'
<1> SUFFICES ASSUME IInv, DriverConnects PROVE IInv'
  OBVIOUS
<1>1. /\ driver' = "connected" /\ wifiEvents' = Append(wifiEvents, "GOT_IP")
      /\ UNCHANGED <<shared, timer, callback, handler, caller, previously, netQueue,
                     appWifi, requests>>
  BY DEF DriverConnects
<1>2. /\ wifiEvents' \in Seq(WifiEvent) /\ wifiEvents' # <<>>
      /\ Len(wifiEvents) \in Nat /\ Len(wifiEvents') = Len(wifiEvents) + 1
      /\ wifiEvents'[Len(wifiEvents')] = "GOT_IP"
      /\ \A i \in 1 .. Len(wifiEvents) : wifiEvents'[i] = wifiEvents[i]
  BY <1>1, Facts, Appended DEF WifiEvent
<1>3. TypeOK'
  BY <1>1, <1>2, Facts DEF TypeOK, WifiEvent
<1>4. PendingInv'
  BY <1>1, <1>2 DEF IInv, PendingInv, LossUnderWay
<1>5. ASSUME NewsInv PROVE NewsInv'
  <2>1. ~Quiet'
    BY <1>2 DEF Quiet
  <2>2. \A i \in 1 .. Len(wifiEvents') : wifiEvents'[i] = "START" => i \in 1 .. Len(wifiEvents)
    BY <1>2
  <2>3. StartInv'
    BY <1>1, <1>2, <1>5, <2>2 DEF NewsInv, StartInv
  <2> QED
    BY <1>1, <1>2, <2>1, <2>3 DEF NewsInv
<1> QED
  BY <1>3, <1>4, <1>5 DEF IInv

LEMMA DriverDropsStep == IInv /\ DriverDrops => IInv'
<1> SUFFICES ASSUME IInv, DriverDrops PROVE IInv'
  OBVIOUS
<1>1. /\ DisconnectSucceeds
      /\ UNCHANGED <<shared, timer, callback, handler, caller, previously, netQueue,
                     appWifi, requests>>
  BY DEF DriverDrops
<1>2. /\ wifiEvents' \in Seq(WifiEvent) /\ driver' = "idle" /\ LossUnderWay'
      /\ NewsInv => NewsInv'
  BY <1>1, LossReported
<1>3. TypeOK'
  BY <1>1, <1>2, Facts DEF TypeOK, WifiEvent
<1> QED
  BY <1>2, <1>3 DEF IInv, PendingInv

\* esp_wifi_connect opens no connection yet.
LEMMA Connecting ==
  ASSUME IInv, ConnectSucceeds \/ ConnectFails
  PROVE  /\ driver' \in {"idle", "connecting", "connected"}
         /\ driver' = "connected" <=> driver = "connected"
  BY Facts DEF ConnectSucceeds, ConnectFails, TypeOK

LEMMA CallbackStep == IInv /\ Callback => IInv'
<1> SUFFICES ASSUME IInv, Callback PROVE IInv'
  OBVIOUS
<1>1. /\ UNCHANGED <<shared, handler, caller, previously, wifiEvents, netQueue,
                     appWifi, requests>>
      /\ callback' \in {"idle", "fired", "connect"}
      /\ driver' = driver \/ ConnectSucceeds \/ ConnectFails
  BY DEF Callback, TimerFires, CallbackReads, CallbackConnects, CallbackOnly
<1>2. /\ driver' \in {"idle", "connecting", "connected"}
      /\ driver' = "connected" <=> driver = "connected"
  BY <1>1, Connecting, Facts DEF TypeOK
<1>3. TypeOK'
  <2>1. timer' \in BOOLEAN
    BY Facts DEF Callback, TimerFires, CallbackReads, CallbackConnects, TypeOK
  <2> QED
    BY <1>1, <1>2, <2>1, Facts DEF TypeOK
<1>4. PendingInv'
  BY <1>1 DEF IInv, PendingInv, LossUnderWay
<1>5. NewsInv => NewsInv'
  BY <1>1, <1>2, NewsKept
<1> QED
  BY <1>3, <1>4, <1>5 DEF IInv

------------------------------------------------------------------------------
(* The handler of the event loop                                            *)

LEMMA HandlerTakesStep == IInv /\ HandlerTakes => IInv'
<1> SUFFICES ASSUME IInv, HandlerTakes PROVE IInv'
  OBVIOUS
<1> USE Facts
<1>1. /\ handler = "idle" /\ wifiEvents # <<>> /\ wifiEvents' = Tail(wifiEvents)
      /\ UNCHANGED <<shared, timer, driver, callback, caller, previously, appWifi, requests>>
  BY DEF HandlerTakes, HandlerKeeps
<1>2. /\ wifiEvents' \in Seq(WifiEvent) /\ Head(wifiEvents) = wifiEvents[1]
      /\ Len(wifiEvents) \in Nat \ {0} /\ Len(wifiEvents') = Len(wifiEvents) - 1
      /\ \A i \in 1 .. Len(wifiEvents') : wifiEvents'[i] = wifiEvents[i + 1]
      /\ wifiEvents' = <<>> => Len(wifiEvents) = 1
      /\ wifiEvents' # <<>> =>
           Len(wifiEvents) > 1 /\ wifiEvents'[Len(wifiEvents')] = wifiEvents[Len(wifiEvents)]
  BY <1>1, Taken
<1>3. /\ handler' \in {"idle", "connect", "disconnected", "gotIp"}
      /\ netQueue' \in Seq(NetworkEvent) /\ Len(netQueue') <= QueueLength
  <2>1. CASE QueueNetworkEvent("STARTED") /\ handler' \in {"idle", "connect"}
    BY <2>1, EventQueued DEF NetworkEvent
  <2>2. CASE QueueNetworkEvent("DISCONNECTED") /\ handler' = "disconnected"
    BY <2>2, EventQueued DEF NetworkEvent
  <2>3. CASE netQueue' = netQueue /\ handler' = "gotIp"
    BY <2>3
  <2> QED
    BY <2>1, <2>2, <2>3 DEF HandlerTakes
<1>4. TypeOK'
  BY <1>1, <1>2, <1>3 DEF TypeOK, WifiEvent, NetworkEvent
<1>5. PendingInv'
  <2>1. ASSUME LossUnderWay, handler' # "disconnected" PROVE LossUnderWay'
    <3>1. PICK i \in 1 .. Len(wifiEvents) : wifiEvents[i] = "DISCONNECTED"
      BY <2>1 DEF LossUnderWay
    <3>2. i # 1
      BY <1>2, <2>1, <3>1 DEF HandlerTakes
    <3>3. i - 1 \in 1 .. Len(wifiEvents') /\ wifiEvents'[i - 1] = "DISCONNECTED"
      BY <1>2, <3>1, <3>2
    <3> QED
      BY <3>3 DEF LossUnderWay
  <2> QED
    BY <1>1, <2>1 DEF IInv, PendingInv
<1>6. ASSUME NewsInv, ~DropsAllowed PROVE NewsInv'
  <2>1. \A i \in 1 .. Len(wifiEvents') : wifiEvents'[i] # "START"
    BY <1>2, <1>6 DEF NewsInv, StartInv
  <2>2. Quiet' <=> wifiEvents' = <<>>
    <3>1. wifiEvents' # <<>> => Len(wifiEvents') \in 1 .. Len(wifiEvents')
      BY <1>2
    <3> QED
      BY <2>1, <3>1 DEF Quiet
  <2>3. wifiEvents' # <<>> => ~Quiet
    BY <1>1, <1>2, <2>1, <2>2 DEF Quiet
  <2>4. wifiEvents' = <<>> /\ Head(wifiEvents) # "START" =>
          ~Quiet /\ (driver = "connected" <=> Head(wifiEvents) = "GOT_IP")
    BY <1>1, <1>2, <1>6 DEF NewsInv, Quiet
  <2>5. CASE Head(wifiEvents) = "START"
    <3>1. netQueue = <<>> /\ Len(netQueue) = 0
      BY <1>2, <1>6, <2>5 DEF NewsInv, StartInv
    <3>2. QueueNetworkEvent("STARTED") /\ handler' \in {"idle", "connect"}
      BY <2>5 DEF HandlerTakes
    <3>3. netQueue' # <<>> /\ Len(netQueue') = 1 /\ netQueue'[1] = "STARTED"
      BY <1>6, <3>1, <3>2, EventQueued DEF NetworkEvent
    <3>4. StartInv'
      BY <2>1, <3>3 DEF StartInv
    <3>5. Quiet' => Quiet
      BY <1>2, <2>2, <2>5 DEF Quiet
    <3> QED
      BY <1>1, <1>2, <1>6, <2>2, <2>3, <3>1, <3>2, <3>3, <3>4, <3>5 DEF NewsInv, Connected
  <2>6. CASE Head(wifiEvents) = "DISCONNECTED"
    <3>1. QueueNetworkEvent("DISCONNECTED") /\ handler' = "disconnected"
      BY <2>6 DEF HandlerTakes
    <3>2. /\ netQueue' # <<>> /\ Len(netQueue') = Len(netQueue) + 1
          /\ netQueue'[Len(netQueue')] = "DISCONNECTED"
          /\ \A i \in 1 .. Len(netQueue) : netQueue'[i] = netQueue[i]
      BY <1>6, <3>1, EventQueued DEF NetworkEvent
    <3>3. \A i \in 1 .. Len(netQueue') : netQueue'[i] = "STARTED" => i \in 1 .. Len(netQueue)
      BY <3>2
    <3>4. StartInv'
      BY <1>6, <2>1, <3>2, <3>3 DEF NewsInv, StartInv
    <3> QED
      BY <1>1, <1>2, <1>6, <2>2, <2>3, <2>4, <2>6, <3>1, <3>2, <3>4 DEF NewsInv, Connected
  <2>7. CASE Head(wifiEvents) = "GOT_IP"
    <3>1. netQueue' = netQueue /\ handler' = "gotIp"
      BY <2>7 DEF HandlerTakes
    <3>2. StartInv'
      BY <1>6, <2>1, <3>1 DEF NewsInv, StartInv
    <3> QED
      BY <1>1, <1>2, <1>6, <2>2, <2>3, <2>4, <2>7, <3>1, <3>2 DEF NewsInv, Connected
  <2> QED
    BY <2>5, <2>6, <2>7 DEF HandlerTakes
<1> QED
  BY <1>4, <1>5, <1>6 DEF IInv

SharedType == [credentials : BOOLEAN, connected : BOOLEAN, pending : BOOLEAN,
               exhausted : BOOLEAN, retries : 0 .. RetryCap]

\* Every assignment that starts the count of retries anew.
LEMMA RetriesReset ==
  ASSUME NEW s \in SharedType, RetryCap \in Nat, NEW known \in BOOLEAN
  PROVE  /\ [s EXCEPT !.retries = 0, !.exhausted = FALSE] \in SharedType
         /\ [s EXCEPT !.connected = TRUE, !.retries = 0, !.exhausted = FALSE] \in SharedType
         /\ [s EXCEPT !.credentials = TRUE, !.retries = 0, !.exhausted = FALSE] \in SharedType
         /\ [s EXCEPT !.credentials = known, !.pending = FALSE,
                      !.retries = 0, !.exhausted = FALSE] \in SharedType
<1>1. 0 \in 0 .. RetryCap
  OBVIOUS
<1> QED
  BY <1>1 DEF SharedType

LEMMA CountedType ==
  ASSUME IInv
  PROVE  Counted \in SharedType /\ Counted.pending = shared.pending
<1>1. shared \in SharedType /\ RetryCap \in Nat
  BY Facts DEF TypeOK, SharedType, RetryCap
<1>2. (IF shared.retries < RetryCap THEN shared.retries + 1 ELSE shared.retries) \in 0 .. RetryCap
  BY <1>1 DEF SharedType
<1> QED
  BY <1>1, <1>2 DEF Counted, SharedType

\* The handler's steps that report nothing.
LEMMA HandlerInnerStep ==
  IInv /\ (HandlerConnects \/ HandlerDisconnected \/ HandlerGotIp
             \/ HandlerStopsTimer \/ HandlerSchedules) => IInv'
<1> SUFFICES ASSUME IInv, HandlerConnects \/ HandlerDisconnected \/ HandlerGotIp
                            \/ HandlerStopsTimer \/ HandlerSchedules
             PROVE  IInv'
  OBVIOUS
<1> USE Facts
<1>1. UNCHANGED <<wifiEvents, netQueue, callback, caller, previously, appWifi, requests>>
  BY DEF HandlerConnects, HandlerDisconnected, HandlerGotIp, HandlerStopsTimer,
         HandlerSchedules, HandlerKeeps
<1>2. /\ handler' \in {"idle", "notify", "count", "stop", "start", "stopTimer", "report"}
      /\ handler' \in Connected <=> handler \in Connected
      /\ handler' = "notify" => handler = "disconnected"
      /\ handler # "idle"
  BY DEF HandlerConnects, HandlerDisconnected, HandlerGotIp, HandlerStopsTimer,
         HandlerSchedules, Connected
<1>3. /\ driver' \in {"idle", "connecting", "connected"}
      /\ driver' = "connected" <=> driver = "connected"
  BY Connecting DEF HandlerConnects, HandlerDisconnected, HandlerGotIp, HandlerStopsTimer,
         HandlerSchedules, TypeOK
<1>4. timer' \in BOOLEAN
  BY DEF HandlerConnects, HandlerDisconnected, HandlerGotIp, HandlerStopsTimer,
         HandlerSchedules, TypeOK
<1>5. /\ shared' \in SharedType
      /\ shared'.pending = TRUE => shared.pending = TRUE /\ handler # "disconnected"
  <2>1. shared \in SharedType
    BY DEF TypeOK, SharedType
  <2>2. CASE HandlerDisconnected
    BY <2>1, <2>2 DEF HandlerDisconnected, SharedType
  <2>3. CASE HandlerGotIp
    <3>1. shared' = [shared EXCEPT !.connected = TRUE, !.retries = 0, !.exhausted = FALSE]
          /\ handler = "gotIp"
      BY <2>3 DEF HandlerGotIp
    <3>2. RetryCap \in Nat
      BY DEF RetryCap
    <3>3. shared' \in SharedType
      BY <2>1, <3>1, <3>2, RetriesReset
    <3> QED
      BY <2>1, <3>1, <3>3 DEF SharedType
  <2>4. CASE HandlerConnects \/ HandlerStopsTimer \/ HandlerSchedules
    BY <2>1, <2>4, CountedType DEF HandlerConnects, HandlerStopsTimer, HandlerSchedules
  <2> QED
    BY <2>2, <2>3, <2>4
<1>6. TypeOK'
  <2>1. driver' \in {"idle", "connecting", "connected"}
    BY <1>3
  <2>2. shared' \in SharedType
    BY <1>5
  <2> QED
    BY <1>1, <1>2, <1>4, <2>1, <2>2 DEF TypeOK, SharedType
<1>7. PendingInv'
  <2>1. shared'.pending \in BOOLEAN /\ shared.pending \in BOOLEAN
    BY <1>5 DEF SharedType, TypeOK
  <2>2. LossUnderWay' <=> LossUnderWay
    BY <1>1 DEF LossUnderWay
  <2> QED
    BY <1>1, <1>2, <1>5, <2>1, <2>2 DEF IInv, PendingInv
<1>8. NewsInv => NewsInv'
  BY <1>1, <1>2, <1>3, NewsKept
<1> QED
  BY <1>6, <1>7, <1>8 DEF IInv

\* RETRY_EXHAUSTED after a loss, CONNECTED after an address.
LEMMA HandlerReportsStep == IInv /\ (HandlerNotifies \/ HandlerReports) => IInv'
<1> SUFFICES ASSUME IInv, HandlerNotifies \/ HandlerReports PROVE IInv'
  OBVIOUS
<1> USE Facts
<1>1. /\ UNCHANGED <<shared, timer, driver, wifiEvents, callback, caller, previously,
                     appWifi, requests>>
      /\ handler \in {"notify", "report"} /\ handler' \in {"count", "idle"}
  BY DEF HandlerNotifies, HandlerReports, HandlerKeeps
<1>2. PICK event \in {"RETRY_EXHAUSTED", "CONNECTED"} :
        /\ QueueNetworkEvent(event)
        /\ handler = IF event = "CONNECTED" THEN "report" ELSE "notify"
  BY DEF HandlerNotifies, HandlerReports
<1>3. /\ netQueue' \in Seq(NetworkEvent) /\ Len(netQueue') <= QueueLength
      /\ ~DropsAllowed =>
           /\ netQueue' # <<>> /\ Len(netQueue') = Len(netQueue) + 1
           /\ netQueue'[Len(netQueue')] = event
           /\ \A i \in 1 .. Len(netQueue) : netQueue'[i] = netQueue[i]
  BY <1>2, EventQueued DEF NetworkEvent
<1>4. TypeOK'
  BY <1>1, <1>3 DEF TypeOK, NetworkEvent
<1>5. PendingInv'
  BY <1>1 DEF IInv, PendingInv, LossUnderWay
<1>6. ASSUME NewsInv, ~DropsAllowed PROVE NewsInv'
  <2>1. \A i \in 1 .. Len(netQueue') : netQueue'[i] = "STARTED" => i \in 1 .. Len(netQueue)
    BY <1>3, <1>6
  <2>2. StartInv'
    BY <1>1, <1>3, <1>6, <2>1 DEF NewsInv, StartInv
  <2>3. Quiet' <=> Quiet
    BY <1>1 DEF Quiet
  <2>4. Quiet => (driver = "connected" <=> event = "CONNECTED")
    BY <1>2, <1>6 DEF NewsInv, Connected
  <2> QED
    BY <1>1, <1>3, <1>6, <2>2, <2>3, <2>4 DEF NewsInv, Connected
<1> QED
  BY <1>4, <1>5, <1>6 DEF IInv

LEMMA HandlerStep == IInv /\ Handler => IInv'
  BY HandlerTakesStep, HandlerInnerStep, HandlerReportsStep DEF Handler

------------------------------------------------------------------------------
(* The supervisor                                                           *)

\* handle_network_event
LEMMA HandleNetworkEventStep == IInv /\ HandleNetworkEvent => IInv'
<1> SUFFICES ASSUME IInv, HandleNetworkEvent PROVE IInv'
  OBVIOUS
<1> USE Facts
<1>1. /\ netQueue # <<>> /\ netQueue' = Tail(netQueue)
      /\ appWifi' = AppWifiAfter(Head(netQueue))
      /\ UNCHANGED <<shared, timer, callback, handler, caller, previously, driver,
                     wifiEvents, requests>>
  BY DEF HandleNetworkEvent
<1>2. /\ netQueue' \in Seq(NetworkEvent) /\ Head(netQueue) = netQueue[1]
      /\ Len(netQueue) \in Nat \ {0} /\ Len(netQueue') = Len(netQueue) - 1
      /\ \A i \in 1 .. Len(netQueue') : netQueue'[i] = netQueue[i + 1]
      /\ netQueue' = <<>> => Len(netQueue) = 1
      /\ netQueue' # <<>> =>
           Len(netQueue) > 1 /\ netQueue'[Len(netQueue')] = netQueue[Len(netQueue)]
  BY <1>1, Taken
<1>3. appWifi' \in BOOLEAN
  BY <1>1 DEF AppWifiAfter, TypeOK
<1>4. TypeOK'
  BY <1>1, <1>2, <1>3 DEF TypeOK, NetworkEvent
<1>5. PendingInv'
  BY <1>1 DEF IInv, PendingInv, LossUnderWay
<1>6. ASSUME NewsInv PROVE NewsInv'
  <2>1. StartInv'
    BY <1>1, <1>2, <1>6 DEF NewsInv, StartInv
  <2>2. Quiet' <=> Quiet
    BY <1>1 DEF Quiet
  <2>3. netQueue' # <<>> => netQueue'[Len(netQueue')] # "STARTED"
    BY <1>2, <1>6 DEF NewsInv, StartInv
  <2>4. netQueue' = <<>> /\ Head(netQueue) = "STARTED" => (appWifi' <=> appWifi)
    BY <1>1 DEF AppWifiAfter
  <2>5. Head(netQueue) # "STARTED" => (appWifi' <=> Head(netQueue) = "CONNECTED")
    BY <1>1 DEF AppWifiAfter
  <2>6. netQueue' = <<>> => Head(netQueue) = netQueue[Len(netQueue)]
    BY <1>2
  <2> QED
    BY <1>1, <1>2, <1>6, <2>1, <2>2, <2>3, <2>4, <2>5, <2>6 DEF NewsInv
<1> QED
  BY <1>4, <1>5, <1>6 DEF IInv

\* What the steps of a call leave alone.
LEMMA CallKeeps ==
  ASSUME Call
  PROVE  UNCHANGED <<callback, handler, netQueue, appWifi, requests>>
  BY DEF Call, Mark, StopTimer, DisconnectForProvision, Unmark, SetConfig, Restore, Accept,
         ConnectNow, CallerSchedules, ReconnectReads, StopForReconnect,
         DisconnectForReconnect, CallerStep, CallerKeeps

\* The steps that disconnect: where the driver has nothing to disconnect, the
\* mark is taken back.
LEMMA DisconnectStep ==
  IInv /\ (DisconnectForProvision \/ DisconnectForReconnect) => IInv'
<1> SUFFICES ASSUME IInv, DisconnectForProvision \/ DisconnectForReconnect PROVE IInv'
  OBVIOUS
<1>1. /\ UNCHANGED <<shared, timer, callback, handler, netQueue, appWifi, previously, requests>>
      /\ caller \in {"disconnect", "disconnectForReconnect"}
      /\ \/ DisconnectSucceeds /\ caller' \in {"setConfig", "idle"}
         \/ /\ NotConnected /\ caller' \in {"unmark", "connect"}
            /\ caller' = "unmark" <=> caller = "disconnect"
  BY DEF DisconnectForProvision, DisconnectForReconnect, CallerStep, CallerKeeps
<1>2. CASE DisconnectSucceeds /\ caller' \in {"setConfig", "idle"}
  <2>1. /\ wifiEvents' \in Seq(WifiEvent) /\ driver' = "idle" /\ LossUnderWay'
        /\ NewsInv => NewsInv'
    BY <1>1, <1>2, LossReported
  <2>2. TypeOK'
    BY <1>1, <1>2, <2>1, Facts DEF TypeOK, WifiEvent
  <2> QED
    BY <2>1, <2>2 DEF IInv, PendingInv
<1>3. CASE /\ NotConnected /\ caller' \in {"unmark", "connect"}
           /\ caller' = "unmark" <=> caller = "disconnect"
  <2>1. UNCHANGED <<driver, wifiEvents>>
    BY <1>3 DEF NotConnected
  <2>2. TypeOK'
    BY <1>1, <1>3, <2>1, Facts DEF TypeOK
  <2>3. PendingInv'
    BY <1>1, <1>3, <2>1 DEF IInv, PendingInv, LossUnderWay
  <2>4. NewsInv => NewsInv'
    BY <1>1, <2>1, NewsKept
  <2> QED
    BY <2>2, <2>3, <2>4 DEF IInv
<1> QED
  BY <1>1, <1>2, <1>3

\* The other steps of the two calls report nothing.
LEMMA CallInnerStep ==
  IInv /\ Call /\ ~(DisconnectForProvision \/ DisconnectForReconnect) => IInv'
<1> SUFFICES ASSUME IInv, Call, ~(DisconnectForProvision \/ DisconnectForReconnect)
             PROVE  IInv'
  OBVIOUS
<1> USE Facts
<1>1. UNCHANGED <<callback, handler, netQueue, appWifi, requests>>
  BY CallKeeps
<1>2. \/ Mark \/ StopTimer \/ Unmark \/ SetConfig \/ Restore \/ Accept \/ ConnectNow
      \/ CallerSchedules \/ ReconnectReads \/ StopForReconnect
  BY DEF Call
<1>3. wifiEvents' = wifiEvents
  BY <1>2 DEF Mark, StopTimer, Unmark, SetConfig, Restore, Accept, ConnectNow,
              CallerSchedules, ReconnectReads, StopForReconnect
<1>4. /\ driver' \in {"idle", "connecting", "connected"}
      /\ driver' = "connected" <=> driver = "connected"
  BY <1>2, Connecting DEF Mark, StopTimer, Unmark, SetConfig, Restore, Accept, ConnectNow,
              CallerSchedules, ReconnectReads, StopForReconnect, TypeOK
<1>5. caller' \in {"idle", "mark", "stopTimer", "disconnect", "unmark", "setConfig",
                 "restore", "accept", "connect", "count", "stop", "start",
                 "reconnect", "stopForReconnect", "disconnectForReconnect"}
  BY <1>2 DEF Mark, StopTimer, Unmark, SetConfig, Restore, Accept, ConnectNow,
              CallerSchedules, ReconnectReads, StopForReconnect, CallerStep, AfterRollback
<1>6. timer' \in BOOLEAN
  BY <1>2 DEF Mark, StopTimer, Unmark, SetConfig, Restore, Accept, ConnectNow,
              CallerSchedules, ReconnectReads, StopForReconnect, TypeOK
<1>7. previously' \in BOOLEAN
  BY <1>2 DEF Mark, StopTimer, Unmark, SetConfig, Restore, Accept, ConnectNow, CallerStep,
              CallerSchedules, ReconnectReads, StopForReconnect, TypeOK
<1>8. /\ shared' \in SharedType
      /\ shared'.pending = TRUE => shared.pending = TRUE \/ caller' = "stopTimer"
  <2>1. shared \in SharedType /\ previously \in BOOLEAN
    BY DEF TypeOK, SharedType
  <2>2. CASE Mark
    <3>1. shared' \in SharedType
      BY <2>1, <2>2 DEF Mark, SharedType
    <3>2. caller' = "stopTimer"
      BY <2>2 DEF Mark, CallerStep
    <3> QED
      BY <3>1, <3>2
  <2>3. CASE Unmark
    BY <2>1, <2>3 DEF Unmark, MarkCleared, SharedType
  <2>4. CASE Restore
    <3>1. shared' = [shared EXCEPT !.credentials = previously, !.pending = FALSE,
                                   !.retries = 0, !.exhausted = FALSE]
      BY <2>4 DEF Restore
    <3>2. RetryCap \in Nat
      BY DEF RetryCap
    <3>3. shared' \in SharedType
      BY <2>1, <3>1, <3>2, RetriesReset
    <3> QED
      BY <2>1, <3>1, <3>3 DEF SharedType
  <2>5. CASE Accept \/ ReconnectReads
    <3>1. \/ shared' = [shared EXCEPT !.credentials = TRUE, !.retries = 0, !.exhausted = FALSE]
          \/ shared' = [shared EXCEPT !.retries = 0, !.exhausted = FALSE]
      BY <2>5 DEF Accept, ReconnectReads
    <3>2. RetryCap \in Nat
      BY DEF RetryCap
    <3>3. shared' \in SharedType
      BY <2>1, <3>1, <3>2, RetriesReset
    <3> QED
      BY <2>1, <3>1, <3>3 DEF SharedType
  <2>6. CASE StopTimer \/ SetConfig \/ ConnectNow \/ CallerSchedules \/ StopForReconnect
    BY <2>1, <2>6, CountedType
       DEF StopTimer, SetConfig, ConnectNow, CallerSchedules, StopForReconnect
  <2> QED
    BY <1>2, <2>2, <2>3, <2>4, <2>5, <2>6
<1>9. TypeOK'
  <2>1. driver' \in {"idle", "connecting", "connected"}
    BY <1>4
  <2>2. shared' \in SharedType
    BY <1>8
  <2> QED
    BY <1>1, <1>3, <1>5, <1>6, <1>7, <2>1, <2>2 DEF TypeOK, SharedType
<1>10. PendingInv'
  <2>1. caller \in {"stopTimer", "disconnect", "unmark"} =>
          caller' \in {"stopTimer", "disconnect", "unmark"} \/ ~shared'.pending
    BY <1>2 DEF Mark, StopTimer, Unmark, SetConfig, Restore, Accept, ConnectNow, CallerStep,
                CallerSchedules, ReconnectReads, StopForReconnect, MarkCleared, TypeOK
  <2> QED
    BY <1>1, <1>3, <1>8, <2>1 DEF IInv, PendingInv, LossUnderWay
<1>11. NewsInv => NewsInv'
  BY <1>1, <1>3, <1>4, NewsKept
<1> QED
  BY <1>9, <1>10, <1>11 DEF IInv

\* A call begins.
LEMMA RequestStep == IInv /\ (Provision \/ Reconnect) => IInv'
<1> SUFFICES ASSUME IInv, Provision \/ Reconnect PROVE IInv'
  OBVIOUS
<1> USE Facts
<1>1. /\ UNCHANGED <<shared, timer, driver, wifiEvents, callback, handler, netQueue, appWifi>>
      /\ caller = "idle" /\ caller' \in {"mark", "reconnect"}
      /\ requests' \in 0 .. MaxRequests
  BY DEF Provision, Reconnect, Request, CallerKeeps, TypeOK
<1>2. previously' \in BOOLEAN
  BY DEF Provision, Reconnect, TypeOK
<1>3. TypeOK'
  BY <1>1, <1>2 DEF TypeOK
<1>4. PendingInv'
  BY <1>1 DEF IInv, PendingInv, LossUnderWay
<1>5. NewsInv => NewsInv'
  BY <1>1, NewsKept
<1> QED
  BY <1>3, <1>4, <1>5 DEF IInv

LEMMA StepInv == IInv /\ [Next]_vars => IInv'
<1> SUFFICES ASSUME IInv, [Next]_vars PROVE IInv'
  OBVIOUS
<1>1. CASE DriverConnects \/ DriverDrops \/ Callback \/ Handler
  BY <1>1, DriverConnectsStep, DriverDropsStep, CallbackStep, HandlerStep
<1>2. CASE Provision \/ Reconnect \/ Call \/ HandleNetworkEvent
  BY <1>2, RequestStep, DisconnectStep, CallInnerStep, HandleNetworkEventStep
<1>3. CASE UNCHANGED vars
  BY <1>3 DEF vars, IInv, TypeOK, PendingInv, LossUnderWay, NewsInv, StartInv, Quiet
<1> QED
  BY <1>1, <1>2, <1>3 DEF Next

LEMMA Invariance == Spec => []IInv
  BY InitInv, StepInv, PTL DEF Spec

------------------------------------------------------------------------------
(* Theorems                                                                 *)

\* The four tasks' interleaved steps keep the types, the limit of the queue
\* included.
THEOREM TypeCorrect == Spec => []TypeOK
<1>1. IInv => TypeOK
  BY DEF IInv
<1> QED
  BY <1>1, Invariance, PTL

\* For any number of provisionings and reconnections, overlapping any events:
\* between two calls a set mark has its loss under way, so that no later loss
\* is passed over.
THEOREM MarkAnswered == Spec => []PendingHasItsEvent
<1>1. IInv => PendingHasItsEvent
  BY DEF IInv, PendingInv, PendingHasItsEvent, LossUnderWay
<1> QED
  BY <1>1, Invariance, PTL

\* As long as queue_network_event finds room, for a queue of any length: once
\* everything under way is handled the supervisor knows what the station is.
THEOREM ViewAgrees == ~DropsAllowed => (Spec => []AppAgreesOnceQuiet)
<1> SUFFICES ASSUME ~DropsAllowed PROVE Spec => []AppAgreesOnceQuiet
  OBVIOUS
<1>1. IInv => AppAgreesOnceQuiet
  BY DEF IInv, NewsInv, Quiet, Connected, AppAgreesOnceQuiet
<1> QED
  BY <1>1, Invariance, PTL
==============================================================================
