---------------------------- MODULE MacController ----------------------------
(***************************************************************************)
(* The Mac helper's DeskBluetoothController, main.swift: finding the       *)
(* device, connecting, discovering its GATT, authenticating, the timers of *)
(* a session, and what locking, sleeping, Bluetooth switched off and the   *)
(* user's buttons do in the midst of it.                                   *)
(*                                                                         *)
(* Everything runs on the main queue, so that a handler is one action.     *)
(* What makes it hard is what the handlers leave behind for later: timers  *)
(* and work items, and answers of CoreBluetooth that are outstanding.      *)
(* Both are sets here, and any member may come next; how long a timer      *)
(* runs is left out.  There is one device, and so one CBPeripheral.        *)
(*                                                                         *)
(* CoreBluetooth and the device are external.                              *)
(***************************************************************************)
EXTENDS Naturals

CONSTANTS
  MaxFaults,       \* bound: errors, failed attempts and lost connections
  MaxPowerCycles,  \* bound: how often Bluetooth is switched off
  MaxSuspensions,  \* bound: how often the Mac locks or the user disconnects
  MaxReconnects,   \* bound: uses of "reconnect now"
  MaxDialogs       \* bound: modal dialogs opened

ASSUME MacAssumption ==
  /\ MaxFaults \in Nat
  /\ MaxPowerCycles \in Nat
  /\ MaxSuspensions \in Nat
  /\ MaxReconnects \in Nat
  /\ MaxDialogs \in Nat

VARIABLES
  power,      \* central.state is poweredOn
  suspended,  \* connectionSuspended
  known,      \* self.peripheral is not nil
  link,       \* state of the CBPeripheral
  scanning,   \* the central scans
  timers,     \* timers and work items that are armed
  pending,    \* answers that are outstanding
  gatt,       \* the three characteristics, and whether transmit notifies
  session,    \* what resetSession resets
  shown,      \* the ConnectionState that the observers see
  modal,      \* a modal dialog is open: its run loop fires no Timer
  hellos,     \* history: HELLOs sent on the current connection
  used        \* how much of each bound is used

vars == <<power, suspended, known, link, scanning, timers, pending, gatt,
          session, shown, modal, hellos, used>>

\* Timer objects run in the default mode of the run loop, work items on the
\* main queue, which a modal dialog serves as well.
RunLoopTimer == {"poll", "heartbeat", "metrics"}
WorkItem == {"retry", "timeout", "lockCancel"}
Timer == RunLoopTimer \union WorkItem

\* Mutant: the telemetry's timer is forgotten.
SessionTimerButMetrics == {"poll", "heartbeat", "timeout"}

\* The timers that resetSession ends.
SessionTimer == RunLoopTimer \union {"timeout"}

\* "sample" is on telemetryQueue; the others end with the connection.
Answer == {"services", "characteristics", "transmitOn", "statusOn", "read",
           "deviceFrame", "sample"}

LinkState == {"disconnected", "connecting", "connected", "disconnecting"}

ConnectionState ==
  {"starting", "unavailable", "scanning", "connecting", "discovering",
   "connected", "authenticating", "authenticated", "retrying", "failed"}

Session == [started : BOOLEAN,     \* authenticationStarted
            stage : {"idle", "helloSent", "responseSent", "authenticated"},
            encrypted : BOOLEAN]   \* deviceStatus?.encrypted == true

NoSession == [started |-> FALSE, stage |-> "idle", encrypted |-> FALSE]

Bound == [faults |-> MaxFaults, powerCycles |-> MaxPowerCycles,
          suspensions |-> MaxSuspensions, reconnects |-> MaxReconnects,
          dialogs |-> MaxDialogs]

Init ==
  /\ power = FALSE
  /\ suspended = FALSE
  /\ known = FALSE
  /\ link = "disconnected"
  /\ scanning = FALSE
  /\ timers = {}
  /\ pending = {}
  /\ gatt = "none"
  /\ session = NoSession
  /\ shown = "starting"
  /\ modal = FALSE
  /\ hellos = 0
  /\ used = [bound \in DOMAIN Bound |-> 0]

Uses(bound) ==
  /\ used[bound] < Bound[bound]
  /\ used' = [used EXCEPT ![bound] = @ + 1]

Authenticated == session.stage = "authenticated"

\* The guard of sendMessage.
CanSend == known /\ gatt # "none" /\ link = "connected"

-----------------------------------------------------------------------------
(* What several handlers do; left is the timers that the caller leaves. *)

\* cancelPeripheralConnection: the disconnection is reported later.
LinkAfterCancel ==
  IF link = "disconnected" THEN link ELSE "disconnecting"

\* beginScanning
BeginsScanning(left) ==
  \/ /\ suspended'
     /\ timers' = left
     /\ UNCHANGED <<scanning, gatt, session, shown>>
  \/ /\ ~suspended'
     /\ ~power'
     /\ timers' = left
     /\ shown' = "unavailable"
     /\ UNCHANGED <<scanning, gatt, session>>
  \/ /\ ~suspended'
     /\ power'
     /\ timers' = left \ SessionTimer
     /\ scanning' = TRUE
     /\ gatt' = "none"
     /\ session' = NoSession
     /\ shown' = "scanning"

\* Mutant: what has been connected before is cancelled, also where it is
\* disconnected.
HasConnectionIfKnown == known

HasConnection == known /\ link # "disconnected"

\* reconnectNow
ReconnectsNow ==
  /\ suspended' = FALSE
  /\ \/ /\ HasConnection
        /\ link' = LinkAfterCancel
        /\ timers' = timers \ {"retry"}
        /\ UNCHANGED <<scanning, gatt, session, shown>>
     \/ /\ ~HasConnection
        /\ BeginsScanning(timers \ {"retry"})
        /\ UNCHANGED link

\* scheduleReconnect
SchedulesReconnect(left) ==
  IF suspended
  THEN timers' = left /\ UNCHANGED shown
  ELSE timers' = left \union {"retry"} /\ shown' = "retrying"

\* The part that didFailToConnect and didDisconnectPeripheral share.
ConnectionEnds ==
  /\ link' = "disconnected"
  /\ known' = FALSE
  /\ pending' = pending \intersect {"sample"}
  /\ session' = NoSession
  /\ gatt' = "none"
  /\ SchedulesReconnect(timers \ SessionTimer)

\* Mutant: the connection is left alone.
AuthenticationFailsQuietly(left) ==
  /\ shown' = "failed"
  /\ timers' = left \ RunLoopTimer
  /\ UNCHANGED link

\* authenticationFailed
AuthenticationFails(left) ==
  /\ shown' = "failed"
  /\ timers' = left \ RunLoopTimer
  /\ link' = IF known THEN LinkAfterCancel ELSE link

\* The guard of beginAuthenticationIfReady.
ReadyToAuthenticate ==
  /\ ~session.started
  /\ known
  /\ link = "connected"
  /\ session'.encrypted
  /\ gatt' = "notifying"

\* beginAuthenticationIfReady with the HELLO; answered is what stays pending.
\* The key store may fail.
SendsHello(encrypted, answered) ==
  \/ /\ session' = [session EXCEPT !.started = TRUE, !.encrypted = encrypted,
                                   !.stage = "helloSent"]
     /\ ReadyToAuthenticate
     /\ timers' = timers \ {"poll"}
     /\ shown' = "authenticating"
     /\ hellos' = hellos + 1
     /\ pending' = answered \union {"deviceFrame"}
     /\ UNCHANGED <<link, used>>
  \/ /\ session' = [session EXCEPT !.started = TRUE, !.encrypted = encrypted]
     /\ ReadyToAuthenticate
     /\ Uses("faults")
     /\ AuthenticationFails(timers)
     /\ pending' = answered
     /\ UNCHANGED hellos

-----------------------------------------------------------------------------
(* The central and the connection *)

\* centralManagerDidUpdateState
PowersOn ==
  /\ ~power
  /\ power' = TRUE
  /\ UNCHANGED suspended
  /\ BeginsScanning(timers)
  /\ UNCHANGED <<known, link, pending, modal, hellos, used>>

\* CoreBluetooth drops every connection without a callback; the session's
\* timers go on.
PowersOff ==
  /\ power
  /\ Uses("powerCycles")
  /\ power' = FALSE
  /\ timers' = timers \ {"retry"}
  /\ scanning' = FALSE
  /\ shown' = "unavailable"
  /\ link' = "disconnected"
  /\ pending' = pending \intersect {"sample"}
  /\ UNCHANGED <<suspended, known, gatt, session, modal, hellos>>

\* didDiscover
Discovers ==
  /\ power
  /\ scanning
  /\ ~known \/ link = "disconnected"
  /\ scanning' = FALSE
  /\ known' = TRUE
  /\ link' = "connecting"
  /\ shown' = "connecting"
  /\ timers' = timers \union {"timeout"}
  /\ UNCHANGED <<power, suspended, pending, gatt, session, modal, hellos, used>>

\* didConnect
Connects ==
  /\ link = "connecting"
  /\ link' = "connected"
  /\ timers' = timers \ (SessionTimer \union {"retry"})
  /\ session' = NoSession
  /\ shown' = "discovering"
  /\ pending' = pending \union {"services"}
  /\ hellos' = 0
  /\ UNCHANGED <<power, suspended, known, scanning, gatt, modal, used>>

\* didFailToConnect, and didDisconnectPeripheral of a connection that was lost
ConnectionLost ==
  /\ link \in {"connecting", "connected"}
  /\ Uses("faults")
  /\ ConnectionEnds
  /\ UNCHANGED <<power, suspended, scanning, modal, hellos>>

\* didDisconnectPeripheral after a cancel
Disconnects ==
  /\ link = "disconnecting"
  /\ ConnectionEnds
  /\ UNCHANGED <<power, suspended, scanning, modal, hellos, used>>

\* The work item of scheduleReconnect
RetryFires ==
  /\ "retry" \in timers
  /\ UNCHANGED <<power, suspended>>
  /\ BeginsScanning(timers \ {"retry"})
  /\ UNCHANGED <<known, link, pending, modal, hellos, used>>

\* The work item of didDiscover: the device is out of reach, or the attempt is
\* over.
TimeoutFires ==
  /\ "timeout" \in timers
  /\ timers' = timers \ {"timeout"}
  /\ \/ /\ known
        /\ link = "connecting"
        /\ Uses("faults")
        /\ shown' = "failed"
        /\ link' = "disconnecting"
     \/ /\ link # "connecting"
        /\ UNCHANGED <<shown, link, used>>
  /\ UNCHANGED <<power, suspended, known, scanning, pending, gatt, session,
                 modal, hellos>>

-----------------------------------------------------------------------------
(* Discovery *)

\* The error branches of the two discoveries.
DiscoveryFails ==
  /\ \E answer \in pending \intersect {"services", "characteristics"} :
       pending' = pending \ {answer}
  /\ Uses("faults")
  /\ shown' = "failed"
  /\ link' = LinkAfterCancel
  /\ UNCHANGED <<power, suspended, known, scanning, timers, gatt, session,
                 modal, hellos>>

\* didDiscoverServices
DiscoversServices ==
  /\ "services" \in pending
  /\ pending' = (pending \ {"services"}) \union {"characteristics"}
  /\ UNCHANGED <<power, suspended, known, link, scanning, timers, gatt, session,
                 shown, modal, hellos, used>>

\* finishDiscoveryIfReady, with all three characteristics there: both
\* subscriptions and a first reading are asked for.
FinishesDiscovery(answered) ==
  /\ known
  /\ gatt' = "found"
  /\ pending' = answered \union {"transmitOn", "statusOn", "read"}
  /\ shown' = "connected"
  /\ timers' = timers \union {"poll"}

\* didDiscoverCharacteristicsFor: where one is missing nothing more is done.
DiscoversCharacteristics ==
  /\ "characteristics" \in pending
  /\ \/ /\ FinishesDiscovery(pending \ {"characteristics"})
        /\ UNCHANGED used
     \/ /\ pending' = pending \ {"characteristics"}
        /\ Uses("faults")
        /\ UNCHANGED <<gatt, shown, timers>>
  /\ UNCHANGED <<power, suspended, known, link, scanning, session, modal, hellos>>

\* didUpdateNotificationStateFor the transmit characteristic
TransmitNotifies ==
  /\ "transmitOn" \in pending
  /\ gatt' = "notifying"
  /\ \/ SendsHello(session.encrypted, pending \ {"transmitOn"})
     \/ /\ UNCHANGED session
        /\ ~ReadyToAuthenticate
        /\ pending' = pending \ {"transmitOn"}
        /\ UNCHANGED <<timers, shown, link, hellos, used>>
  /\ UNCHANGED <<power, suspended, known, scanning, modal>>

\* didUpdateNotificationStateFor the status characteristic
StatusNotifies ==
  /\ "statusOn" \in pending
  /\ pending' = (pending \ {"statusOn"}) \union {"read"}
  /\ UNCHANGED <<power, suspended, known, link, scanning, timers, gatt, session,
                 shown, modal, hellos, used>>

\* A subscription fails: it is logged, and nothing asks again.
NotifyFails ==
  /\ \E answer \in pending \intersect {"transmitOn", "statusOn"} :
       pending' = pending \ {answer}
  /\ Uses("faults")
  /\ UNCHANGED <<power, suspended, known, link, scanning, timers, gatt, session,
                 shown, modal, hellos>>

\* didUpdateValueFor the status characteristic: a value that was read; one
\* that the device notifies is handled alike.
StatusArrives(encrypted) ==
  LET arrived == pending \ {"read"}
  IN /\ link = "connected"
     /\ gatt # "none"
     /\ "read" \in pending
     /\ session.encrypted => encrypted
     /\ UNCHANGED gatt
     /\ \/ SendsHello(encrypted, arrived)
        \/ /\ session' = [session EXCEPT !.encrypted = encrypted]
           /\ ~ReadyToAuthenticate
           /\ pending' = arrived
           /\ shown' = CASE Authenticated -> "authenticated"
                         [] ~Authenticated /\ session.started -> "authenticating"
                         [] OTHER -> "connected"
           /\ UNCHANGED <<timers, link, hellos, used>>
     /\ UNCHANGED <<power, suspended, known, scanning, modal>>

\* The timer of startSecurityPolling
PollFires ==
  /\ "poll" \in timers
  /\ ~modal
  /\ IF ~session.started /\ CanSend
     THEN pending' = pending \union {"read"} /\ UNCHANGED timers
     ELSE timers' = timers \ {"poll"} /\ UNCHANGED pending
  /\ UNCHANGED <<power, suspended, known, link, scanning, gatt, session, shown,
                 modal, hellos, used>>

-----------------------------------------------------------------------------
(* The session *)

\* handleDeviceFrame, a challenge that can be answered
AnswersChallenge ==
  /\ "deviceFrame" \in pending
  /\ CanSend
  /\ session.stage = "helloSent"
  /\ session' = [session EXCEPT !.stage = "responseSent"]
  /\ UNCHANGED <<power, suspended, known, link, scanning, timers, pending, gatt,
                 shown, modal, hellos, used>>

\* A result of success: startHeartbeat and startSystemTelemetry
BecomesAuthenticated ==
  /\ "deviceFrame" \in pending
  /\ CanSend
  /\ session.stage = "responseSent"
  /\ session' = [session EXCEPT !.stage = "authenticated"]
  /\ pending' = (pending \ {"deviceFrame"}) \union {"sample"}
  /\ \/ /\ shown' = "authenticated"
        /\ timers' = timers \union {"heartbeat", "metrics"}
        /\ UNCHANGED <<link, used>>
     \* A first message is too long: it fails before the telemetry's timer is
     \* armed, and so ends only the heartbeat's.
     \/ /\ Uses("faults")
        /\ shown' = "failed"
        /\ link' = LinkAfterCancel
        /\ timers' = timers \union {"metrics"}
  /\ UNCHANGED <<power, suspended, known, scanning, gatt, modal, hellos>>

\* A challenge that cannot be answered, a result that is a rejection or comes
\* where none is expected, a frame that does not decode, a write that fails.
SessionFails ==
  /\ CanSend
  /\ session.started
  /\ Uses("faults")
  /\ session' = IF session.stage = "responseSent"
                THEN [session EXCEPT !.stage = "idle"] ELSE session
  /\ pending' = pending \ {"deviceFrame"}
  /\ AuthenticationFails(timers)
  /\ UNCHANGED <<power, suspended, known, scanning, gatt, modal, hellos>>

\* The heartbeat's timer, where sending throws; where it does not, nothing
\* changes.
HeartbeatFires ==
  /\ "heartbeat" \in timers
  /\ ~modal
  /\ Authenticated
  /\ ~CanSend
  /\ AuthenticationFails(timers)
  /\ UNCHANGED <<power, suspended, known, scanning, pending, gatt, session,
                 modal, hellos, used>>

\* The telemetry's timer: a sample is asked for, and the other messages are
\* sent at once.
MetricsFires ==
  /\ "metrics" \in timers
  /\ ~modal
  /\ Authenticated
  /\ pending' = pending \union {"sample"}
  /\ \/ CanSend /\ UNCHANGED <<timers, shown, link, used>>
     \/ CanSend /\ Uses("faults") /\ AuthenticationFails(timers)
     \/ ~CanSend /\ AuthenticationFails(timers) /\ UNCHANGED used
  /\ UNCHANGED <<power, suspended, known, scanning, gatt, session, modal, hellos>>

\* The sample comes back to the main queue, perhaps in another session.
SampleArrives ==
  /\ "sample" \in pending
  /\ pending' = pending \ {"sample"}
  /\ IF Authenticated /\ ~CanSend
     THEN AuthenticationFails(timers)
     ELSE UNCHANGED <<timers, shown, link>>
  /\ UNCHANGED <<power, suspended, known, scanning, gatt, session, modal, hellos,
                 used>>

-----------------------------------------------------------------------------
(* The Mac and its user *)

\* macDidLockOrSleep: a LOCK is sent, and the connection cancelled later.
LocksOrSleeps ==
  /\ Uses("suspensions")
  /\ suspended' = TRUE
  /\ timers' = (timers \ {"retry", "heartbeat", "metrics"})
                 \union (IF HasConnection THEN {"lockCancel"} ELSE {})
  /\ UNCHANGED <<power, known, link, scanning, pending, gatt, session, shown,
                 modal, hellos>>

\* The work item of macDidLockOrSleep
LockCancelFires ==
  /\ "lockCancel" \in timers
  /\ timers' = timers \ {"lockCancel"}
  /\ link' = LinkAfterCancel
  /\ UNCHANGED <<power, suspended, known, scanning, pending, gatt, session,
                 shown, modal, hellos, used>>

\* macDidBecomeActive
BecomesActive ==
  /\ suspended
  /\ UNCHANGED power
  /\ ReconnectsNow
  /\ UNCHANGED <<known, pending, modal, hellos, used>>

\* The menu's "reconnect" and the window's "connect"
UserReconnects ==
  /\ Uses("reconnects")
  /\ UNCHANGED power
  /\ ReconnectsNow
  /\ UNCHANGED <<known, pending, modal, hellos>>

\* stop: the window's "disconnect"
UserDisconnects ==
  /\ Uses("suspensions")
  /\ suspended' = TRUE
  /\ timers' = timers \ (SessionTimer \union {"retry"})
  /\ scanning' = FALSE
  /\ link' = IF known THEN LinkAfterCancel ELSE link
  /\ UNCHANGED <<power, known, pending, gatt, session, shown, modal, hellos>>

\* NSAlert.runModal
OpensDialog ==
  /\ ~modal
  /\ Uses("dialogs")
  /\ modal' = TRUE
  /\ UNCHANGED <<power, suspended, known, link, scanning, timers, pending, gatt,
                 session, shown, hellos>>

ClosesDialog ==
  /\ modal
  /\ modal' = FALSE
  /\ UNCHANGED <<power, suspended, known, link, scanning, timers, pending, gatt,
                 session, shown, hellos, used>>

-----------------------------------------------------------------------------
(* The device *)

\* Nothing that would carry the connection on to a session is outstanding.
Stalled ==
  /\ pending \intersect (Answer \ {"read", "statusOn", "sample"}) = {}
  /\ session.started \/ gatt # "notifying"

\* The device ends a connection that does not get authenticated by its own
\* limit (LinkResolves in DeskSession).
DeviceGivesUp ==
  /\ link = "connected"
  /\ ~Authenticated
  /\ Stalled
  /\ ConnectionEnds
  /\ UNCHANGED <<power, suspended, scanning, modal, hellos, used>>

Next ==
  \/ PowersOn \/ PowersOff
  \/ Discovers \/ Connects \/ ConnectionLost \/ Disconnects
  \/ RetryFires \/ TimeoutFires
  \/ DiscoveryFails \/ DiscoversServices \/ DiscoversCharacteristics
  \/ TransmitNotifies \/ StatusNotifies \/ NotifyFails
  \/ \E encrypted \in BOOLEAN : StatusArrives(encrypted)
  \/ PollFires
  \/ AnswersChallenge \/ BecomesAuthenticated \/ SessionFails
  \/ HeartbeatFires \/ MetricsFires \/ SampleArrives
  \/ LocksOrSleeps \/ LockCancelFires \/ BecomesActive
  \/ UserReconnects \/ UserDisconnects
  \/ OpensDialog \/ ClosesDialog
  \/ DeviceGivesUp

Spec == Init /\ [][Next]_vars

\* Armed timers and work items fire, CoreBluetooth reports what was asked for,
\* the device is there and answers or gives up, pairing succeeds in the end
\* (strongly fair, because values read before come in between), and the user
\* closes dialogs.
Fairness ==
  /\ WF_vars(Discovers) /\ WF_vars(Connects) /\ WF_vars(Disconnects)
  /\ WF_vars(RetryFires) /\ WF_vars(LockCancelFires) /\ WF_vars(PollFires)
  /\ WF_vars(HeartbeatFires) /\ WF_vars(SampleArrives)
  /\ WF_vars(DiscoversServices) /\ WF_vars(DiscoversCharacteristics)
  /\ WF_vars(TransmitNotifies) /\ WF_vars(StatusNotifies)
  /\ SF_vars(StatusArrives(TRUE))
  /\ WF_vars(AnswersChallenge) /\ WF_vars(BecomesAuthenticated)
  /\ WF_vars(ClosesDialog) /\ WF_vars(DeviceGivesUp)

FairSpec == Spec /\ Fairness

-----------------------------------------------------------------------------
(* Properties *)

\* Every variable has its type.
TypeOK ==
  /\ power \in BOOLEAN /\ suspended \in BOOLEAN /\ known \in BOOLEAN
  /\ link \in LinkState
  /\ scanning \in BOOLEAN
  /\ timers \subseteq Timer
  /\ pending \subseteq Answer
  /\ gatt \in {"none", "found", "notifying"}
  /\ session \in Session
  /\ shown \in ConnectionState
  /\ modal \in BOOLEAN
  /\ hellos \in 0 .. 1
  /\ \A bound \in DOMAIN Bound : used[bound] \in 0 .. Bound[bound]

\* Whatever the order of lock and wake, power, timers and callbacks
\* (main.swift:239-300, 804-914): a helper that is not suspended is never
\* left with nothing that would find the device again.
NeverIdle ==
  power /\ ~suspended => scanning \/ "retry" \in timers \/ link # "disconnected"

\* No timer outlives the session that armed it (main.swift:308-324, 645-659):
\* the heartbeat's and the telemetry's belong to an authenticated session, the
\* polling to one without a HELLO, and a connection sees one HELLO at most,
\* which the device would take for the start of a new authentication.
TimersBelongToSession ==
  /\ timers \intersect {"heartbeat", "metrics"} # {} => Authenticated
  /\ "poll" \in timers => ~session.started
  /\ hellos <= 1

\* Once the disturbances end with Bluetooth on and the Mac awake, the helper is
\* back in an authenticated session, stays there, and sends heartbeats
\* (main.swift:230-456, 645-675, 804-1044).
Resumes ==
  <>[](power /\ ~suspended)
    => <>[](Authenticated /\ link = "connected" /\ "heartbeat" \in timers)

-----------------------------------------------------------------------------
(* A claim of the documents *)

\* When the Mac is locked or asleep the helper sends LOCK and disconnects
\* (src/macos-helper/README.md:19): as soon as the delayed cancel has been
\* carried out there is no session, by which the device would show the Mac's
\* data.
SuspendedIsOffline ==
  suspended /\ "lockCancel" \notin timers
    => ~(Authenticated /\ link = "connected")
=============================================================================
