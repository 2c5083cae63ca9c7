------------------------------- MODULE Network -------------------------------
(***************************************************************************)
(* The Wi-Fi station, network.c: what the event loop's handler, the        *)
(* callback of the reconnect timer and the supervisor (provisioning and    *)
(* manual reconnection) do to the state they share under state_lock, with  *)
(* the Wi-Fi driver as the code uses it and the supervisor's view of the   *)
(* connection.  Each critical section, driver call and timer call is a     *)
(* step of its own.  Delays are left out: an armed timer fires some time.  *)
(***************************************************************************)
EXTENDS Naturals, Sequences

CONSTANTS
  FastRetryLimit,   \* FAST_RETRY_LIMIT
  QueueLength,      \* NETWORK_EVENT_QUEUE_LENGTH
  MaxRequests,      \* bound: provisionings and manual reconnections
  DropsAllowed,     \* FALSE: the network queue always has room
  ConnectMayFail    \* TRUE: esp_wifi_connect may fail on an idle station

ASSUME NetworkAssumption ==
  /\ FastRetryLimit \in Nat
  /\ QueueLength \in Nat \ {0}
  /\ MaxRequests \in Nat
  /\ {DropsAllowed, ConnectMayFail} \subseteq BOOLEAN

VARIABLES
  shared,     \* the variables under state_lock
  timer,      \* reconnect_timer is armed
  callback,   \* where reconnect_timer_callback stands
  handler,    \* where network_event_handler stands
  caller,     \* where the supervisor stands in a call of this module
  previously, \* previously_available of that call
  driver,     \* the Wi-Fi station
  wifiEvents, \* the default event loop
  netQueue,   \* network_event_queue
  appWifi,    \* app_state.connection.wifi_connected
  requests    \* number of calls so far

vars == <<shared, timer, callback, handler, caller, previously, driver,
          wifiEvents, netQueue, appWifi, requests>>

RetryCap == FastRetryLimit + 1  \* bound: retry_count stops here

TypeOK ==
  /\ shared \in [credentials : BOOLEAN, connected : BOOLEAN, pending : BOOLEAN,
                 exhausted : BOOLEAN, retries : 0 .. RetryCap]
  /\ timer \in BOOLEAN
  /\ callback \in {"idle", "fired", "connect"}
  /\ handler \in {"idle", "connect", "disconnected", "notify", "count", "stop", "start",
                  "gotIp", "stopTimer", "report"}
  /\ caller \in {"idle", "mark", "stopTimer", "disconnect", "unmark", "setConfig",
                 "restore", "accept", "connect", "count", "stop", "start",
                 "reconnect", "stopForReconnect", "disconnectForReconnect"}
  /\ previously \in BOOLEAN
  /\ driver \in {"idle", "connecting", "connected"}
  /\ wifiEvents \in Seq({"START", "DISCONNECTED", "GOT_IP"})
  /\ netQueue \in Seq({"STARTED", "CONNECTED", "DISCONNECTED", "RETRY_EXHAUSTED"})
  /\ Len(netQueue) <= QueueLength
  /\ appWifi \in BOOLEAN
  /\ requests \in 0 .. MaxRequests

\* After desk_network_start, with or without a stored network.
Init ==
  /\ \E saved \in BOOLEAN :
       shared = [credentials |-> saved, connected |-> FALSE, pending |-> FALSE,
                 exhausted |-> FALSE, retries |-> 0]
  /\ timer = FALSE
  /\ callback = "idle"
  /\ handler = "idle"
  /\ caller = "idle"
  /\ previously = FALSE
  /\ driver = "idle"
  /\ wifiEvents = <<"START">>
  /\ netQueue = <<>>
  /\ appWifi = FALSE
  /\ requests = 0

------------------------------------------------------------------------------
(* The driver, and the queue to the supervisor                              *)

\* esp_wifi_connect: an idle station starts to connect; a busy one refuses.
ConnectSucceeds == driver = "idle" /\ driver' = "connecting"
ConnectFails == (driver # "idle" \/ ConnectMayFail) /\ UNCHANGED driver

\* esp_wifi_disconnect: WIFI_EVENT_STA_DISCONNECTED follows if it succeeds.
DisconnectSucceeds ==
  /\ driver # "idle"
  /\ driver' = "idle"
  /\ wifiEvents' = Append(wifiEvents, "DISCONNECTED")
NotConnected == driver = "idle" /\ UNCHANGED <<driver, wifiEvents>>

\* queue_network_event
QueueNetworkEvent(event) ==
  /\ DropsAllowed \/ Len(netQueue) < QueueLength
  /\ netQueue' = IF Len(netQueue) < QueueLength THEN Append(netQueue, event) ELSE netQueue

DriverConnects ==
  /\ driver = "connecting"
  /\ driver' = "connected"
  /\ wifiEvents' = Append(wifiEvents, "GOT_IP")
  /\ UNCHANGED <<shared, timer, callback, handler, caller, previously, netQueue,
                 appWifi, requests>>

\* The attempt fails, or the connection is lost.
DriverDrops ==
  /\ DisconnectSucceeds
  /\ UNCHANGED <<shared, timer, callback, handler, caller, previously, netQueue,
                 appWifi, requests>>

------------------------------------------------------------------------------
(* reconnect_timer_callback                                                 *)

CallbackOnly == UNCHANGED <<shared, handler, caller, previously, wifiEvents, netQueue,
                            appWifi, requests>>

TimerFires ==
  /\ timer /\ callback = "idle"
  /\ timer' = FALSE
  /\ callback' = "fired"
  /\ UNCHANGED driver
  /\ CallbackOnly

CallbackReads ==
  /\ callback = "fired"
  /\ callback' = IF shared.credentials THEN "connect" ELSE "idle"
  /\ UNCHANGED <<timer, driver>>
  /\ CallbackOnly

\* A failure of esp_wifi_connect is only logged.
CallbackConnects ==
  /\ callback = "connect"
  /\ callback' = "idle"
  /\ ConnectSucceeds \/ ConnectFails
  /\ UNCHANGED timer
  /\ CallbackOnly

Callback == TimerFires \/ CallbackReads \/ CallbackConnects

------------------------------------------------------------------------------
(* network_event_handler                                                    *)

HandlerKeeps == UNCHANGED <<callback, caller, previously, appWifi, requests>>

\* The event is taken, and the supervisor told at once of a start or a loss.
HandlerTakes ==
  /\ handler = "idle"
  /\ wifiEvents # <<>>
  /\ wifiEvents' = Tail(wifiEvents)
  /\ \/ /\ Head(wifiEvents) = "START"
        /\ QueueNetworkEvent("STARTED")
        /\ handler' = IF shared.credentials THEN "connect" ELSE "idle"
     \/ /\ Head(wifiEvents) = "DISCONNECTED"
        /\ QueueNetworkEvent("DISCONNECTED")
        /\ handler' = "disconnected"
     \/ /\ Head(wifiEvents) = "GOT_IP"
        /\ handler' = "gotIp"
        /\ UNCHANGED netQueue
  /\ UNCHANGED <<shared, timer, driver>>
  /\ HandlerKeeps

HandlerConnects ==
  /\ handler = "connect"
  /\ handler' = "idle"
  /\ ConnectSucceeds \/ ConnectFails
  /\ UNCHANGED <<shared, timer, wifiEvents, netQueue>>
  /\ HandlerKeeps

\* The critical section of WIFI_EVENT_STA_DISCONNECTED.
HandlerDisconnected ==
  /\ handler = "disconnected"
  /\ LET retry == shared.credentials /\ ~shared.pending
         notify == retry /\ shared.retries >= FastRetryLimit /\ ~shared.exhausted
     IN  /\ shared' = [shared EXCEPT !.connected = FALSE, !.pending = FALSE,
                                     !.exhausted = @ \/ notify]
         /\ handler' = IF notify THEN "notify" ELSE IF retry THEN "count" ELSE "idle"
  /\ UNCHANGED <<timer, driver, wifiEvents, netQueue>>
  /\ HandlerKeeps

HandlerNotifies ==
  /\ handler = "notify"
  /\ handler' = "count"
  /\ QueueNetworkEvent("RETRY_EXHAUSTED")
  /\ UNCHANGED <<shared, timer, driver, wifiEvents>>
  /\ HandlerKeeps

\* WIFI_EVENT_STA_GOT_IP: the critical section, the timer, the supervisor.
HandlerGotIp ==
  /\ handler = "gotIp"
  /\ handler' = "stopTimer"
  /\ shared' = [shared EXCEPT !.connected = TRUE, !.retries = 0, !.exhausted = FALSE]
  /\ UNCHANGED <<timer, driver, wifiEvents, netQueue>>
  /\ HandlerKeeps

HandlerStopsTimer ==
  /\ handler = "stopTimer"
  /\ handler' = "report"
  /\ timer' = FALSE
  /\ UNCHANGED <<shared, driver, wifiEvents, netQueue>>
  /\ HandlerKeeps

HandlerReports ==
  /\ handler = "report"
  /\ handler' = "idle"
  /\ QueueNetworkEvent("CONNECTED")
  /\ UNCHANGED <<shared, timer, driver, wifiEvents>>
  /\ HandlerKeeps

CountedUncapped == [shared EXCEPT !.retries = @ + 1]  \* mutant: no upper limit
Counted == [shared EXCEPT !.retries = IF @ < RetryCap THEN @ + 1 ELSE @]

\* schedule_reconnect, in the handler: count, esp_timer_stop, esp_timer_start_once.
HandlerSchedules ==
  /\ \/ handler = "count" /\ handler' = "stop" /\ shared' = Counted /\ UNCHANGED timer
     \/ handler = "stop" /\ handler' = "start" /\ timer' = FALSE /\ UNCHANGED shared
     \/ handler = "start" /\ handler' = "idle" /\ timer' = TRUE /\ UNCHANGED shared
  /\ UNCHANGED <<driver, wifiEvents, netQueue>>
  /\ HandlerKeeps

Handler ==
  \/ HandlerTakes
  \/ HandlerConnects
  \/ HandlerDisconnected
  \/ HandlerNotifies
  \/ HandlerGotIp
  \/ HandlerStopsTimer
  \/ HandlerReports
  \/ HandlerSchedules

------------------------------------------------------------------------------
(* desk_network_provision and desk_network_reconnect, in the supervisor     *)

CallerKeeps == UNCHANGED <<callback, handler, netQueue, appWifi>>

Request(first) ==
  /\ caller = "idle"
  /\ requests < MaxRequests
  /\ requests' = requests + 1
  /\ caller' = first
  /\ UNCHANGED <<shared, timer, driver, wifiEvents>>
  /\ CallerKeeps

Provision == Request("mark") /\ previously' = shared.credentials
Reconnect == Request("reconnect") /\ UNCHANGED previously

CallerStep(from, to) ==
  /\ caller = from
  /\ caller' = to
  /\ UNCHANGED <<previously, requests>>
  /\ CallerKeeps

\* credentials_available = false and provisioning_disconnect_pending = true
\* before anything is disconnected.
Mark ==
  /\ CallerStep("mark", "stopTimer")
  /\ shared' = [shared EXCEPT !.credentials = FALSE, !.pending = TRUE]
  /\ UNCHANGED <<timer, driver, wifiEvents>>

StopTimer ==
  /\ CallerStep("stopTimer", "disconnect")
  /\ timer' = FALSE
  /\ UNCHANGED <<shared, driver, wifiEvents>>

DisconnectForProvision ==
  /\ \/ CallerStep("disconnect", "setConfig") /\ DisconnectSucceeds
     \/ CallerStep("disconnect", "unmark") /\ NotConnected
  /\ UNCHANGED <<shared, timer>>

MarkKept == shared  \* mutant: the flag stays although no event will clear it
MarkCleared == [shared EXCEPT !.pending = FALSE]

Unmark ==
  /\ CallerStep("unmark", "setConfig")
  /\ shared' = MarkCleared
  /\ UNCHANGED <<timer, driver, wifiEvents>>

\* esp_wifi_set_config accepts or rejects the configuration.
SetConfig ==
  /\ CallerStep("setConfig", "accept") \/ CallerStep("setConfig", "restore")
  /\ UNCHANGED <<shared, timer, driver, wifiEvents>>

NoRetryAfterRollback == "idle"  \* mutant: the stopped timer is not armed again
AfterRollback == IF previously THEN "count" ELSE "idle"

Restore ==
  /\ CallerStep("restore", AfterRollback)
  /\ shared' = [shared EXCEPT !.credentials = previously, !.pending = FALSE,
                              !.retries = 0, !.exhausted = FALSE]
  /\ UNCHANGED <<timer, driver, wifiEvents>>

Accept ==
  /\ CallerStep("accept", "connect")
  /\ shared' = [shared EXCEPT !.credentials = TRUE, !.retries = 0, !.exhausted = FALSE]
  /\ UNCHANGED <<timer, driver, wifiEvents>>

\* Of both calls: a failure schedules a retry.
ConnectNow ==
  /\ \/ CallerStep("connect", "idle") /\ ConnectSucceeds
     \/ CallerStep("connect", "count") /\ ConnectFails
  /\ UNCHANGED <<shared, timer, wifiEvents>>

\* schedule_reconnect, in the supervisor.
CallerSchedules ==
  /\ \/ CallerStep("count", "stop") /\ shared' = Counted /\ UNCHANGED timer
     \/ CallerStep("stop", "start") /\ timer' = FALSE /\ UNCHANGED shared
     \/ CallerStep("start", "idle") /\ timer' = TRUE /\ UNCHANGED shared
  /\ UNCHANGED <<driver, wifiEvents>>

\* The critical section of desk_network_reconnect; connected is read here and
\* used after the timer is stopped (previously holds it).
ReconnectReads ==
  /\ caller = "reconnect"
  /\ caller' = IF shared.credentials THEN "stopForReconnect" ELSE "idle"
  /\ previously' = shared.connected
  /\ shared' = [shared EXCEPT !.retries = 0, !.exhausted = FALSE]
  /\ UNCHANGED <<timer, driver, wifiEvents, requests>>
  /\ CallerKeeps

StopForReconnect ==
  /\ CallerStep("stopForReconnect", IF previously THEN "disconnectForReconnect" ELSE "connect")
  /\ timer' = FALSE
  /\ UNCHANGED <<shared, driver, wifiEvents>>

DisconnectForReconnect ==
  /\ \/ CallerStep("disconnectForReconnect", "idle") /\ DisconnectSucceeds
     \/ CallerStep("disconnectForReconnect", "connect") /\ NotConnected
  /\ UNCHANGED <<shared, timer>>

Call ==
  \/ Mark
  \/ StopTimer
  \/ DisconnectForProvision
  \/ Unmark
  \/ SetConfig
  \/ Restore
  \/ Accept
  \/ ConnectNow
  \/ CallerSchedules
  \/ ReconnectReads
  \/ StopForReconnect
  \/ DisconnectForReconnect

\* handle_network_event, between two calls.
AppWifiAfterConnectedOnly(event) ==  \* mutant: DISCONNECTED left out
  appWifi \/ event = "CONNECTED"
AppWifiAfter(event) ==
  IF event = "STARTED" THEN appWifi ELSE event = "CONNECTED"

HandleNetworkEvent ==
  /\ caller = "idle"
  /\ netQueue # <<>>
  /\ netQueue' = Tail(netQueue)
  /\ appWifi' = AppWifiAfter(Head(netQueue))
  /\ UNCHANGED <<shared, timer, callback, handler, caller, previously, driver,
                 wifiEvents, requests>>

Next ==
  \/ DriverConnects
  \/ DriverDrops
  \/ Callback
  \/ Handler
  \/ Provision
  \/ Reconnect
  \/ Call
  \/ HandleNetworkEvent

Spec == Init /\ [][Next]_vars

\* The tasks run, and a timer that is armed fires.
FairSpec ==
  /\ Spec
  /\ WF_vars(Callback)
  /\ WF_vars(Handler)
  /\ WF_vars(Call)
  /\ WF_vars(HandleNetworkEvent)

------------------------------------------------------------------------------
(* Properties                                                               *)

\* provisioning_disconnect_pending is never left set without the event that
\* clears it: it would swallow a later loss of the connection.
PendingHasItsEvent ==
  shared.pending /\ caller = "idle" =>
    handler = "disconnected" \/ \E i \in 1 .. Len(wifiEvents) : wifiEvents[i] = "DISCONNECTED"

\* Where no event is dropped, the supervisor's view is the station's once
\* everything is handled, whatever overlapped.
AppAgreesOnceQuiet ==
  netQueue = <<>> /\ wifiEvents = <<>> /\ handler = "idle" =>
    (appWifi <=> driver = "connected")

\* "Never give up" (network.c:52, 74): a station that has credentials and is
\* idle tries again.
KeepsTrying ==
  shared.credentials /\ driver = "idle" ~> driver # "idle" \/ ~shared.credentials
==============================================================================
