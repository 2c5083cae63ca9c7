----------------------------- MODULE DeskSession -----------------------------
(***************************************************************************)
(* A session between the Mac and the device: app_main.c's supervisor_task, *)
(* composed with the Bluetooth link (BleLink), the privacy state machine   *)
(* (PrivacyStateMachine), the anti-replay window (SequenceWindow), the     *)
(* challenge of app_auth.c and the LVGL task, which turns touches into     *)
(* queued actions.                                                         *)
(*                                                                         *)
(* One iteration of the supervisor's loop is                               *)
(*    "receive"  take at most one Bluetooth event and handle it            *)
(*    "handled"  carry out the privacy actions, then read the clock        *)
(*    "drain"    handle every queued touch action, then check the timeouts *)
(* and each step of it interleaves with the NimBLE host task, the LVGL     *)
(* task, the Mac and the clock.  The device is enrolled (AppAuth's topic). *)
(***************************************************************************)
EXTENDS PrivacyStateMachine, BleLink

CONSTANTS
  AuthTimeout,          \* APPLICATION_AUTH_TIMEOUT_MS
  UiQueueLength,        \* length of ui_action_queue
  MaxLoopTicks,         \* bound: clock ticks during one iteration of the loop
  ReconnectDelay,       \* ticks the Mac waits before it connects again
  CatchesUp,            \* TRUE: events wait for less than a tick in the queue
  BacklightMayFail,     \* TRUE: switching the backlight may fail
  MacFollowsProtocol    \* FALSE: the peer writes any frame at any time

ASSUME SessionAssumption ==
  /\ AuthTimeout \in Nat
  /\ UiQueueLength \in Nat
  /\ MaxLoopTicks \in Nat
  /\ ReconnectDelay \in Nat
  /\ {CatchesUp, BacklightMayFail, MacFollowsProtocol} \subseteq BOOLEAN

VARIABLES
  pc,          \* where the supervisor's loop stands
  todo,        \* privacy actions dispatched and not carried out yet
  loopNow,     \* now_ms of this iteration
  privacy,     \* runtime.privacy
  rxWindow,    \* runtime.rx_sequences
  challenge,   \* challenge that app_auth waits for an answer to, or 0
  authStarted, \* runtime.auth_started_ms; 0 stands for "not running"
  app,         \* runtime.app_state
  panel,       \* what the user sees and can touch
  uiQueue,     \* runtime.ui_action_queue: the session each touch was made in
  mac,         \* the Mac's side of the connection
  clock,       \* uptime_ms()
  ghost        \* history that the properties speak about

deskVars == <<pc, todo, loopNow, privacy, rxWindow, challenge, authStarted,
              app, panel, uiQueue>>
vars == <<linkVars, deskVars, mac, clock, ghost>>

Phase == {"receive", "handled", "drain"}

\* DeskAuthenticator.state, and "closing" once the helper has asked
\* CoreBluetooth to cancel the connection.
MacStage == {"idle", "helloSent", "responseSent", "authenticated", "closing"}

\* Bounds: ghost.silence and ghost.down stop counting here.
LongerTimeout == IF HeartbeatTimeout > AuthTimeout THEN HeartbeatTimeout ELSE AuthTimeout
SilenceCap == LongerTimeout + 2 * MaxLoopTicks + 1
DownCap == IF ReconnectDelay = 0 THEN 1 ELSE ReconnectDelay

\* app_state as far as it is private, and the two flags it keeps of the session.
AppState == [private : BOOLEAN, bleConnected : BOOLEAN, macAuthenticated : BOOLEAN]
Panel == [backlight : BOOLEAN, touch : BOOLEAN, private : BOOLEAN]
Mac == [stage : MacStage, seq : Nat, challenge : Nat]

\* session counts the sessions, verified is the connection that answered the
\* last challenge, challenges numbers the challenges, silence counts the ticks
\* since the session or the connection began or a heartbeat came, ticks those
\* of this iteration of the loop, down those since the connection ended.
History == [session : Nat, verified : Nat, challenges : Nat,
            silence : Nat, ticks : Nat, down : Nat]

TypeOK ==
  /\ link \in Link
  /\ bleQueue \in Seq(Event)
  /\ Len(bleQueue) <= QueueLength
  /\ pc \in Phase
  /\ todo \subseteq PrivacyAction
  /\ loopNow \in Time
  /\ privacy \in PrivacyContext
  /\ rxWindow \in Window
  /\ challenge \in Nat
  /\ authStarted \in Time
  /\ app \in AppState
  /\ panel \in Panel
  /\ uiQueue \in Seq(Nat)
  /\ Len(uiQueue) <= UiQueueLength
  /\ mac \in Mac
  /\ clock \in Time
  /\ ghost \in History

NewMac == [stage |-> "idle", seq |-> 0, challenge |-> 0]

Init ==
  /\ LinkInit
  /\ pc = "receive"
  /\ todo = {}
  /\ loopNow = 0
  /\ privacy = InitialContext
  /\ rxWindow = EmptyWindow
  /\ challenge = 0
  /\ authStarted = 0
  /\ app = [private |-> FALSE, bleConnected |-> FALSE, macAuthenticated |-> FALSE]
  /\ panel = [backlight |-> FALSE, touch |-> TRUE, private |-> FALSE]
  /\ uiQueue = <<>>
  /\ mac = NewMac
  /\ clock = 1 % ClockMod
  /\ ghost = [session |-> 0, verified |-> 0, challenges |-> 0,
              silence |-> 0, ticks |-> 0, down |-> DownCap]

------------------------------------------------------------------------------
(* Building blocks of the handlers                                          *)

\* apply_privacy_actions(desk_privacy_dispatch(event, now)): the context now,
\* the actions in the steps of ApplyActions.
DispatchEvent(event, now) ==
  /\ privacy' = Dispatch(privacy, event, now)
  /\ todo' = DispatchActions(privacy, event)

NoDispatch == UNCHANGED <<privacy, todo>>

\* Histories: the silence starts again, a session begins.
Heard(g) == [g EXCEPT !.silence = 0]

\* desk_ble_link_send_frame: fails without a subscribed peer, and may fail for
\* want of memory.
SendOutcome == IF CanNotify THEN BOOLEAN ELSE {FALSE}

\* What the Mac makes of an AUTH_CHALLENGE and of an AUTH_RESULT
\* (handleDeviceFrame): one that it does not wait for ends the connection.
AfterChallenge(m, value) ==
  IF m.stage = "helloSent" \/ ~MacFollowsProtocol
  THEN [m EXCEPT !.challenge = value]
  ELSE [m EXCEPT !.stage = "closing"]

AfterResult(m, succeeded) ==
  IF m.stage = "responseSent" /\ succeeded
  THEN [m EXCEPT !.stage = "authenticated"]
  ELSE [m EXCEPT !.stage = "closing"]

------------------------------------------------------------------------------
(* supervisor_task: desk_ble_link_receive_event and handle_ble_event        *)

Taken == Head(bleQueue)

\* The queue's head is taken and the loop goes on with the clock.
TakeEvent ==
  /\ pc = "receive"
  /\ todo = {}
  /\ bleQueue # <<>>
  /\ bleQueue' = Tail(bleQueue)
  /\ pc' = "handled"
  /\ UNCHANGED <<link, loopNow, uiQueue, clock>>

\* No event within SUPERVISOR_POLL_MS.
ReceiveTimeout ==
  /\ pc = "receive"
  /\ todo = {}
  /\ bleQueue = <<>>
  /\ pc' = "handled"
  /\ UNCHANGED <<linkVars, todo, loopNow, privacy, rxWindow, challenge,
                 authStarted, app, panel, uiQueue, mac, clock, ghost>>

\* rx_sequences once a new connection is handled.
WindowKept == rxWindow  \* mutant: no memset
WindowOnConnect == EmptyWindow

HandleConnected ==
  /\ TakeEvent
  /\ Taken.type = "CONNECTED"
  /\ rxWindow' = WindowOnConnect
  /\ challenge' = 0
  /\ authStarted' = clock
  /\ app' = [app EXCEPT !.bleConnected = TRUE, !.macAuthenticated = FALSE]
  /\ DispatchEvent("BLE_CONNECTED", clock)
  /\ ghost' = Heard(ghost)
  /\ UNCHANGED <<panel, mac>>

\* Mutant: the end of a connection does not reach the privacy state machine.
HandleDisconnectedWithoutLock ==
  /\ TakeEvent
  /\ Taken.type = "DISCONNECTED"
  /\ challenge' = 0
  /\ authStarted' = 0
  /\ NoDispatch
  /\ UNCHANGED <<rxWindow, app, mac, panel, ghost>>

HandleDisconnected ==
  /\ TakeEvent
  /\ Taken.type = "DISCONNECTED"
  /\ challenge' = 0
  /\ authStarted' = 0
  /\ DispatchEvent("BLE_DISCONNECTED", clock)
  /\ UNCHANGED <<rxWindow, app, mac, panel, ghost>>

HandleSecurityChanged ==
  /\ TakeEvent
  /\ Taken.type = "SECURITY_CHANGED"
  /\ IF Taken.secure THEN NoDispatch ELSE DispatchEvent("AUTH_FAILED", clock)
  /\ UNCHANGED <<rxWindow, challenge, authStarted, app, mac, panel, ghost>>

HandleOther ==
  /\ TakeEvent
  /\ Taken.type = "OTHER"
  /\ NoDispatch
  /\ UNCHANGED <<rxWindow, challenge, authStarted, app, mac, panel, ghost>>

------------------------------------------------------------------------------
(* handle_protocol_frame                                                    *)

TakeFrame(message) ==
  /\ TakeEvent
  /\ Taken.type = "FRAME"
  /\ Taken.message = message
  /\ Accepts(rxWindow, Taken.seq)
  /\ rxWindow' = AfterSequence(rxWindow, Taken.seq)

\* "Ignored repeated or expired BLE sequence"
IgnoreFrame ==
  /\ TakeEvent
  /\ Taken.type = "FRAME"
  /\ ~Accepts(rxWindow, Taken.seq)
  /\ NoDispatch
  /\ UNCHANGED <<rxWindow, challenge, authStarted, app, mac, panel, ghost>>

\* DESK_MESSAGE_HELLO: desk_app_auth_begin makes a fresh challenge, which
\* replaces one that is not answered yet.
HandleHello ==
  /\ TakeFrame("HELLO")
  /\ challenge' = ghost.challenges + 1
  /\ ghost' = [ghost EXCEPT !.challenges = @ + 1]
  /\ \E sent \in SendOutcome :
       IF sent
       THEN mac' = AfterChallenge(mac, challenge') /\ NoDispatch
       ELSE DispatchEvent("AUTH_FAILED", clock) /\ UNCHANGED mac
  /\ UNCHANGED <<authStarted, app, panel>>

\* DESK_MESSAGE_HELLO that desk_app_auth_begin rejects: a challenge handed out
\* before stays valid.
HandleMalformedHello ==
  /\ TakeFrame("MALFORMED_HELLO")
  /\ \E sent \in SendOutcome : mac' = IF sent THEN AfterResult(mac, FALSE) ELSE mac
  /\ DispatchEvent("AUTH_FAILED", clock)
  /\ UNCHANGED <<challenge, authStarted, app, panel, ghost>>

\* desk_app_auth_verify succeeds.
Verifies(event) == challenge # 0 /\ event.answers = challenge

\* DESK_MESSAGE_AUTH_RESPONSE: the result is sent before the dispatch, and
\* whatever the dispatch makes of it.
HandleAuthSuccess ==
  /\ TakeFrame("AUTH_RESPONSE")
  /\ Verifies(Taken)
  /\ challenge' = 0
  /\ \E sent \in SendOutcome : mac' = IF sent THEN AfterResult(mac, TRUE) ELSE mac
  /\ authStarted' = 0
  /\ app' = [app EXCEPT !.bleConnected = TRUE, !.macAuthenticated = TRUE]
  /\ DispatchEvent("AUTH_SUCCEEDED", clock)
  /\ ghost' = IF privacy.state = "AUTHENTICATING"
              THEN [Heard(ghost) EXCEPT !.session = @ + 1, !.verified = Taken.conn]
              ELSE ghost
  /\ UNCHANGED panel

HandleAuthFailure ==
  /\ TakeFrame("AUTH_RESPONSE")
  /\ ~Verifies(Taken)
  /\ challenge' = 0
  /\ \E sent \in SendOutcome : mac' = IF sent THEN AfterResult(mac, FALSE) ELSE mac
  /\ DispatchEvent("AUTH_FAILED", clock)
  /\ UNCHANGED <<authStarted, app, panel, ghost>>

HandleHeartbeat ==
  /\ TakeFrame("HEARTBEAT")
  /\ DispatchEvent("HEARTBEAT", clock)
  /\ ghost' = IF privacy.state = "ACTIVE" THEN Heard(ghost) ELSE ghost
  /\ UNCHANGED <<challenge, authStarted, app, mac, panel>>

HandleLock ==
  /\ TakeFrame("LOCK")
  /\ DispatchEvent("MAC_LOCKED", clock)
  /\ UNCHANGED <<challenge, authStarted, app, mac, panel, ghost>>

StateAllowedOnceConnected == app.bleConnected  \* mutant: the wrong flag
StateAllowed == privacy.state = "ACTIVE"

\* The messages that carry the Mac's state (SYSTEM_STATE, CONTROL_LAYOUT,
\* AI_STATE, AI_TASKS, MEDIA_STATE), each with its apply_..._payload.
HandlePrivateState ==
  /\ TakeFrame("PRIVATE_STATE")
  /\ app' = [app EXCEPT !.private = @ \/ StateAllowed]
  /\ panel' = [panel EXCEPT !.private = @ \/ StateAllowed]
  /\ NoDispatch
  /\ UNCHANGED <<challenge, authStarted, mac, ghost>>

HandleEvent ==
  \/ HandleConnected
  \/ HandleDisconnected
  \/ HandleSecurityChanged
  \/ HandleOther
  \/ IgnoreFrame
  \/ HandleHello
  \/ HandleMalformedHello
  \/ HandleAuthSuccess
  \/ HandleAuthFailure
  \/ HandleHeartbeat
  \/ HandleLock
  \/ HandlePrivateState

------------------------------------------------------------------------------
(* apply_privacy_actions: one step per effect, in the order of the code     *)

UnchangedByApply == UNCHANGED <<bleQueue, pc, loopNow, privacy, rxWindow,
                                challenge, authStarted, uiQueue, mac, clock, ghost>>

\* desk_board_backlight_set(false); a failed I2C write is only logged.
BacklightOff ==
  /\ "BACKLIGHT_OFF" \in todo
  /\ todo' = todo \ {"BACKLIGHT_OFF"}
  /\ \E failed \in BOOLEAN :
       /\ failed => BacklightMayFail
       /\ panel' = [panel EXCEPT !.backlight = failed /\ @]
  /\ UNCHANGED <<link, app>>
  /\ UnchangedByApply

\* desk_app_state_clear_private
ClearPrivateData ==
  /\ "CLEAR_PRIVATE_DATA" \in todo
  /\ "BACKLIGHT_OFF" \notin todo
  /\ todo' = todo \ {"CLEAR_PRIVATE_DATA"}
  /\ app' = [private |-> FALSE, bleConnected |-> FALSE, macAuthenticated |-> FALSE]
  /\ UNCHANGED <<link, panel>>
  /\ UnchangedByApply

\* The block under the LVGL lock.
UiActions == {"TOUCH_ENABLE", "TOUCH_DISABLE", "SHOW_HOME"}

UiBeforeClear == "BACKLIGHT_OFF" \notin todo  \* mutant: the UI before the data
UiAfterClear == todo \cap {"BACKLIGHT_OFF", "CLEAR_PRIVATE_DATA"} = {}

UpdateUi ==
  /\ todo \cap UiActions # {}
  /\ UiAfterClear
  /\ todo' = todo \ UiActions
  /\ panel' = [panel EXCEPT !.touch = "TOUCH_ENABLE" \in todo,
                            !.private = app.private]
  /\ UNCHANGED <<link, app>>
  /\ UnchangedByApply

\* desk_board_backlight_set(true)
BacklightOn ==
  /\ "BACKLIGHT_ON" \in todo
  /\ todo \cap UiActions = {}
  /\ todo' = todo \ {"BACKLIGHT_ON"}
  /\ \E failed \in BOOLEAN :
       /\ failed => BacklightMayFail
       /\ panel' = [panel EXCEPT !.backlight = ~failed \/ @]
  /\ UNCHANGED <<link, app>>
  /\ UnchangedByApply

\* desk_ble_link_disconnect
DisconnectBle ==
  /\ todo = {"DISCONNECT_BLE"}
  /\ todo' = {}
  /\ LinkDisconnect
  /\ UNCHANGED <<app, panel>>
  /\ UnchangedByApply

ApplyActions ==
  \/ BacklightOff
  \/ ClearPrivateData
  \/ UpdateUi
  \/ BacklightOn
  \/ DisconnectBle

------------------------------------------------------------------------------
(* The rest of the supervisor's loop                                        *)

ReadClock ==
  /\ pc = "handled"
  /\ todo = {}
  /\ loopNow' = clock
  /\ pc' = "drain"
  /\ UNCHANGED <<linkVars, todo, privacy, rxWindow, challenge, authStarted,
                 app, panel, uiQueue, mac, clock, ghost>>

\* handle_ui_action: outside ACTIVE nothing, inside ACTIVE a command to the
\* peer or a local request, none of which the session's state depends on.
HandleUiAction ==
  /\ pc = "drain"
  /\ uiQueue # <<>>
  /\ uiQueue' = Tail(uiQueue)
  /\ UNCHANGED <<linkVars, pc, todo, loopNow, privacy, rxWindow, challenge,
                 authStarted, app, panel, mac, clock, ghost>>

AuthOverdue ==
  /\ privacy.state = "AUTHENTICATING"
  /\ authStarted # 0
  /\ Elapsed(loopNow, authStarted) > AuthTimeout

\* while (xQueueReceive(...)): the drain goes on until the queue is empty.
DrainedByOne == TRUE  \* mutant: if instead of while
Drained == uiQueue = <<>>

\* desk_privacy_poll and the limit on the authentication; the two exclude
\* each other.
PollTimeouts ==
  /\ pc = "drain"
  /\ todo = {}
  /\ Drained
  /\ pc' = "receive"
  /\ loopNow' = 0
  /\ ghost' = [ghost EXCEPT !.ticks = 0]
  /\ \/ /\ HeartbeatOverdue(privacy, loopNow)
        /\ DispatchEvent("HEARTBEAT_TIMEOUT", loopNow)
        /\ UNCHANGED authStarted
     \/ /\ AuthOverdue
        /\ authStarted' = 0
        /\ DispatchEvent("AUTH_FAILED", loopNow)
     \/ /\ ~HeartbeatOverdue(privacy, loopNow)
        /\ ~AuthOverdue
        /\ UNCHANGED <<privacy, todo, authStarted>>
  /\ UNCHANGED <<linkVars, rxWindow, challenge, app, panel, uiQueue, mac, clock>>

Supervisor ==
  \/ ReceiveTimeout
  \/ HandleEvent
  \/ ApplyActions
  \/ ReadClock
  \/ HandleUiAction
  \/ PollTimeouts

------------------------------------------------------------------------------
(* The other tasks, the Mac and the clock                                   *)

\* A touch that LVGL reports to queue_ui_action; with the queue full it is
\* dropped, which changes nothing.
UiQueueHasRoomForOneMore == Len(uiQueue) <= UiQueueLength  \* mutant: off by one
UiQueueHasRoom == Len(uiQueue) < UiQueueLength

TouchUi ==
  /\ panel.touch
  /\ UiQueueHasRoom
  /\ uiQueue' = Append(uiQueue, ghost.session)
  /\ UNCHANGED <<linkVars, pc, todo, loopNow, privacy, rxWindow, challenge,
                 authStarted, app, panel, mac, clock, ghost>>

\* What DeskMonitorController sends, and when.
MaySend(message) ==
  CASE message = "HELLO" -> mac.stage = "idle" /\ link.subscribed
    [] message = "AUTH_RESPONSE" -> mac.stage = "helloSent" /\ mac.challenge # 0
    [] message \in {"HEARTBEAT", "PRIVATE_STATE", "LOCK"} -> mac.stage = "authenticated"
    [] OTHER -> FALSE

StageAfter(message) ==
  CASE message = "HELLO" -> "helloSent"
    [] message = "AUTH_RESPONSE" -> "responseSent"
    [] message = "LOCK" -> "closing"
    [] OTHER -> mac.stage

\* The Mac writes a frame, with the next sequence number of the connection.
MacSends(message, answers) ==
  /\ mac.seq < MaxFrames
  /\ MacFollowsProtocol => MaySend(message)
  /\ ReceiveFrame(message, mac.seq % SeqMod, answers)
  /\ mac' = [mac EXCEPT !.seq = @ + 1, !.stage = StageAfter(message)]
  /\ UNCHANGED <<deskVars, clock, ghost>>

MacSendsFrame ==
  \/ \E message \in Message \ {"AUTH_RESPONSE", "NONE"} : MacSends(message, 0)
  \/ MacSends("AUTH_RESPONSE", mac.challenge)
  \/ ~MacFollowsProtocol /\ MacSends("AUTH_RESPONSE", 0)

\* The Mac's helper gives the connection up: the screen is locked, or an answer
\* makes no sense.
MacGivesUp ==
  /\ link.connected
  /\ mac.stage # "closing"
  /\ mac' = [mac EXCEPT !.stage = "closing"]
  /\ UNCHANGED <<linkVars, deskVars, clock, ghost>>

LinkUp ==
  /\ ghost.down >= ReconnectDelay
  /\ \E encrypted \in BOOLEAN : GapConnect(encrypted)
  /\ mac' = NewMac
  /\ UNCHANGED <<deskVars, clock, ghost>>

\* Asked for by either side, or lost.
LinkDown ==
  /\ GapDisconnect
  /\ mac' = NewMac
  /\ ghost' = [ghost EXCEPT !.down = 0]
  /\ UNCHANGED <<deskVars, clock>>

LinkChanges ==
  /\ \/ \E succeeded \in BOOLEAN : GapEncChange(succeeded)
     \/ GapSubscribe(TRUE)
     \/ ~MacFollowsProtocol /\ GapSubscribe(FALSE)
     \/ GapOther
  /\ UNCHANGED <<deskVars, mac, clock, ghost>>

Tick ==
  /\ ghost.ticks < MaxLoopTicks
  /\ CatchesUp => bleQueue = <<>>
  /\ clock' = (clock + 1) % ClockMod
  /\ ghost' = [ghost EXCEPT !.ticks = @ + 1,
                            !.silence = IF @ < SilenceCap THEN @ + 1 ELSE @,
                            !.down = IF @ < DownCap /\ ~link.connected THEN @ + 1 ELSE @]
  /\ UNCHANGED <<linkVars, deskVars, mac>>

Environment ==
  \/ TouchUi
  \/ MacSendsFrame
  \/ MacGivesUp
  \/ LinkUp
  \/ LinkDown
  \/ LinkChanges
  \/ Tick

Next == Supervisor \/ Environment

Spec == Init /\ [][Next]_vars

\* The supervisor is a task that FreeRTOS keeps scheduling; time goes on;
\* handling a touch takes less time than making one, so that the draining of
\* the touch queue ends; a connection that either side has asked to end does
\* end (strongly fair, because where nothing is dropped the event has to find
\* room).
LinkEnds == LinkDown /\ (link.terminating \/ mac.stage = "closing")

Fairness ==
  /\ WF_vars(Supervisor)
  /\ SF_vars(PollTimeouts)
  /\ SF_vars(Tick)
  /\ SF_vars(LinkEnds)

FairSpec == Spec /\ Fairness

------------------------------------------------------------------------------
(* Properties                                                               *)

\* A touch action is carried out only in the session in which it was made:
\* when the supervisor drains the queue in ACTIVE, no touch of an earlier
\* session, or from before the first, is left in it (app_main.c:1316-1321
\* with the touch enabled and disabled in apply_privacy_actions).
UiActionsBelongToSession ==
  pc = "drain" /\ privacy.state = "ACTIVE" =>
    \A i \in 1 .. Len(uiQueue) : uiQueue[i] = ghost.session

\* Once the actions of a lock are carried out, nothing private is left, neither
\* in app_state nor in the copy that the UI draws, and the screen is dark unless
\* writing to the backlight failed; whatever events were lost.
LockedIsClear ==
  privacy.state = "LOCKED" /\ todo = {} =>
    /\ ~app.private /\ ~panel.private
    /\ ~BacklightMayFail => ~panel.backlight

\* As long as no transport event is lost, the panel is lit exactly in ACTIVE,
\* private data exists only in ACTIVE, the UI's copy is in step, and from the
\* first session on the panel takes touches exactly in ACTIVE.
PanelFollowsState ==
  todo = {} =>
    /\ panel.backlight <=> privacy.state = "ACTIVE"
    /\ app.private => privacy.state = "ACTIVE"
    /\ panel.private <=> app.private
    /\ ghost.session > 0 => (panel.touch <=> privacy.state = "ACTIVE")

\* As long as no transport event is lost, what the device shows of the Mac
\* came over the very connection that answered the challenge, however late
\* the supervisor reads it.
PrivateDataFromVerifiedPeer ==
  [][~app.private /\ app'.private => Taken.conn = ghost.verified]_vars

\* The poll locks a session, or gives up an authentication, only after the
\* full timeout, although the counter wraps and loopNow is older than clock.
NoSpuriousTimeout ==
  [][pc = "drain" /\ privacy.state # "LOCKED" /\ privacy'.state = "LOCKED" =>
       ghost.silence > IF privacy.state = "ACTIVE" THEN HeartbeatTimeout
                                                   ELSE AuthTimeout]_vars

\* A session never outlives its last heartbeat by more than the timeout and
\* two rounds of the loop, whatever events were lost.
SilenceBounded ==
  privacy.state = "ACTIVE" => ghost.silence <= HeartbeatTimeout + 2 * MaxLoopTicks

\* As long as no transport event is lost, no frame of a Mac that counts its
\* frames from 0 in each connection is taken for a replay.
NoFrameIgnored ==
  [][bleQueue # <<>> /\ Taken.type = "FRAME" /\ bleQueue' = Tail(bleQueue) =>
       Accepts(rxWindow, Taken.seq)]_vars

\* A touch action handled in ACTIVE goes to the Mac that answered the
\* challenge, never to one that connected since (send_ui_action sends over
\* whichever connection is current).
ActionReachesVerifiedPeer ==
  [][pc = "drain" /\ uiQueue' # uiQueue /\ Len(uiQueue') < Len(uiQueue)
       /\ privacy.state = "ACTIVE" /\ CanNotify =>
       link.conn = ghost.verified]_vars

\* The session as the user has it.  What a lost DISCONNECTED leaves uncleared, and
\* a backlight that could not be switched off, a later session may find.
Shown ==
  (IF panel.backlight THEN {"light"} ELSE {})
    \cup (IF panel.touch THEN {"touch"} ELSE {})
    \cup (IF app.private \/ panel.private THEN {"data"} ELSE {})

Left ==
  (IF DropsAllowed THEN {"data"} ELSE {}) \cup (IF BacklightMayFail THEN {"light"} ELSE {})

Gate == INSTANCE PrivacyGate
          WITH Leftover <- Left,
               peer <- IF privacy.state = "ACTIVE" THEN ghost.verified ELSE 0,
               latest <- ghost.verified,
               shown <- Shown

\* The supervisor's loop with all that runs beside it keeps the gate: nothing is
\* switched on or shown outside a session, no connection opens a second one, and
\* none begins over what another has left, but for a loss that Left names.
KeepsGate == Gate!GateSpec

\* A peer that connects is either authenticated or gone in the end, provided
\* that no connection is handled in the very millisecond in which the counter
\* reads 0: auth_started_ms would say that no limit runs (app_main.c:956, 1343).
LinkResolves ==
  [](privacy.state = "AUTHENTICATING" => authStarted # 0)
    => (link.connected ~> (privacy.state = "ACTIVE" \/ ~link.connected))

\* A Mac that was told of success by a device that is locked does not go on
\* believing so.
BeliefHeals ==
  mac.stage = "authenticated" /\ privacy.state # "ACTIVE"
    ~> (mac.stage # "authenticated" \/ privacy.state = "ACTIVE")
==============================================================================
