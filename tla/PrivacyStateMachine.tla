------------------------- MODULE PrivacyStateMachine -------------------------
(***************************************************************************)
(* The privacy state machine of the firmware, privacy_state_machine.c: the *)
(* pure functions desk_privacy_dispatch and desk_privacy_poll, as          *)
(* operators on a context record.  The supervisor (DeskSession) owns the   *)
(* context and carries out the actions these operators ask for.            *)
(*                                                                         *)
(* Time is the 32-bit millisecond counter of uptime_ms(), which wraps: a   *)
(* value of 0 .. ClockMod-1, with unsigned subtraction in Elapsed.         *)
(***************************************************************************)
EXTENDS Integers

CONSTANTS
  HeartbeatTimeout,  \* heartbeat_timeout_ms; 0 disables the poll
  ClockMod           \* number of values of the uptime counter (2^32 in the code)

ASSUME PrivacyAssumption ==
  /\ HeartbeatTimeout \in Nat
  /\ ClockMod \in Nat \ {0}

Time == 0 .. ClockMod - 1

\* (uint32_t)(later - earlier)
Elapsed(later, earlier) == (later - earlier) % ClockMod

PrivacyState == {"LOCKED", "AUTHENTICATING", "ACTIVE"}

PrivacyContext == [state : PrivacyState, lastHeartbeat : Time]

PrivacyEvent ==
  {"BOOT", "BLE_CONNECTED", "AUTH_SUCCEEDED", "AUTH_FAILED", "HEARTBEAT",
   "HEARTBEAT_TIMEOUT", "MAC_SLEEPING", "BLE_DISCONNECTED", "MAC_LOCKED"}

PrivacyAction ==
  {"BACKLIGHT_OFF", "BACKLIGHT_ON", "TOUCH_ENABLE", "TOUCH_DISABLE",
   "CLEAR_PRIVATE_DATA", "SHOW_HOME", "DISCONNECT_BLE"}

\* LOCK_ACTIONS
LockActionsWithoutClear == {"BACKLIGHT_OFF", "TOUCH_DISABLE"}        \* mutant
LockActions == {"BACKLIGHT_OFF", "TOUCH_DISABLE", "CLEAR_PRIVATE_DATA"}

InitialContext == [state |-> "LOCKED", lastHeartbeat |-> 0]

\* enter_locked
Locked == [state |-> "LOCKED", lastHeartbeat |-> 0]

LockingEvent ==
  {"BOOT", "AUTH_FAILED", "HEARTBEAT_TIMEOUT", "MAC_SLEEPING",
   "BLE_DISCONNECTED", "MAC_LOCKED"}

\* Those that also end the connection.
DisconnectingEventButAuthFailed == {"HEARTBEAT_TIMEOUT", "MAC_SLEEPING"}  \* mutant
DisconnectingEventButTimeout == {"AUTH_FAILED", "MAC_SLEEPING"}           \* mutant
DisconnectingEvent == {"AUTH_FAILED", "HEARTBEAT_TIMEOUT", "MAC_SLEEPING"}

\* Mutant: AUTH_SUCCEEDED opens a session in any state.
DispatchSucceedsAnywhere(context, event, now) ==
  CASE event \in LockingEvent -> Locked
    [] event = "BLE_CONNECTED" -> [state |-> "AUTHENTICATING", lastHeartbeat |-> 0]
    [] event = "AUTH_SUCCEEDED" -> [state |-> "ACTIVE", lastHeartbeat |-> now]
    [] event = "HEARTBEAT" /\ context.state = "ACTIVE" ->
         [context EXCEPT !.lastHeartbeat = now]
    [] OTHER -> context

\* The context desk_privacy_dispatch leaves behind.
Dispatch(context, event, now) ==
  CASE event \in LockingEvent -> Locked
    [] event = "BLE_CONNECTED" -> [state |-> "AUTHENTICATING", lastHeartbeat |-> 0]
    [] event = "AUTH_SUCCEEDED" /\ context.state = "AUTHENTICATING" ->
         [state |-> "ACTIVE", lastHeartbeat |-> now]
    [] event = "HEARTBEAT" /\ context.state = "ACTIVE" ->
         [context EXCEPT !.lastHeartbeat = now]
    [] OTHER -> context

\* The actions desk_privacy_dispatch returns.
DispatchActions(context, event) ==
  CASE event \in LockingEvent ->
         LockActions \cup (IF event \in DisconnectingEvent THEN {"DISCONNECT_BLE"} ELSE {})
    [] event = "BLE_CONNECTED" -> {"BACKLIGHT_OFF", "TOUCH_DISABLE"}
    [] event = "AUTH_SUCCEEDED" /\ context.state = "AUTHENTICATING" ->
         {"BACKLIGHT_ON", "TOUCH_ENABLE", "SHOW_HOME"}
    [] OTHER -> {}

\* Mutants: the operands of the subtraction swapped; 0 taken for "no heartbeat".
HeartbeatOverdueSwapped(context, now) ==
  /\ context.state = "ACTIVE"
  /\ HeartbeatTimeout # 0
  /\ Elapsed(context.lastHeartbeat, now) > HeartbeatTimeout
HeartbeatOverdueUnlessZero(context, now) ==
  /\ context.state = "ACTIVE" /\ context.lastHeartbeat # 0
  /\ HeartbeatTimeout # 0
  /\ Elapsed(now, context.lastHeartbeat) > HeartbeatTimeout

\* desk_privacy_poll dispatches HEARTBEAT_TIMEOUT exactly when this holds.
HeartbeatOverdue(context, now) ==
  /\ context.state = "ACTIVE"
  /\ HeartbeatTimeout # 0
  /\ Elapsed(now, context.lastHeartbeat) > HeartbeatTimeout
==============================================================================
