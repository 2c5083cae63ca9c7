------------------------------- MODULE BleLink -------------------------------
(***************************************************************************)
(* The device's end of the Bluetooth link, ble_link.c: the link state that *)
(* the NimBLE host task updates in gap_event, and the bounded queue of     *)
(* transport events from which the supervisor task reads.  post_event      *)
(* never waits: when the queue is full the event is dropped.               *)
(*                                                                         *)
(* A connection is identified by a number that is never reused, which      *)
(* stands for connection_handle and lets the properties tell connections   *)
(* apart; the supervisor never looks at the handle of an event.  GATT      *)
(* fragments are not represented: a FRAME event is a whole decoded frame.  *)
(***************************************************************************)
EXTENDS SequenceWindow, Sequences

CONSTANTS
  QueueLength,     \* EVENT_QUEUE_LENGTH
  MaxConnections,  \* bound: connections in a behaviour
  MaxFrames,       \* bound: frames the Mac writes in one connection
  DropsAllowed     \* FALSE: the host never posts to a full queue

ASSUME LinkAssumption ==
  /\ QueueLength \in Nat \ {0}
  /\ MaxConnections \in Nat
  /\ MaxFrames \in Nat
  /\ DropsAllowed \in BOOLEAN

VARIABLES
  link,      \* ble_link_state_t
  bleQueue   \* link_state.event_queue

linkVars == <<link, bleQueue>>

Link == [connected : BOOLEAN, encrypted : BOOLEAN, subscribed : BOOLEAN,
         terminating : BOOLEAN,  \* ble_gap_terminate is under way
         conn : Nat]             \* number of the current or the last connection

NoLink == [connected |-> FALSE, encrypted |-> FALSE, subscribed |-> FALSE,
           terminating |-> FALSE, conn |-> 0]

EventType == {"CONNECTED", "DISCONNECTED", "SECURITY_CHANGED", "FRAME", "OTHER"}

Message == {"HELLO", "MALFORMED_HELLO", "AUTH_RESPONSE", "HEARTBEAT", "LOCK",
            "PRIVATE_STATE", "NONE"}

\* desk_ble_event_t: secure is status == 0 && encrypted; answers is the
\* challenge that an AUTH_RESPONSE was computed for.
Event == [type : EventType, conn : Nat, secure : BOOLEAN,
          message : Message, seq : SequenceNumber, answers : Nat]

SimpleEvent(type, state, secure) ==
  [type |-> type, conn |-> state.conn, secure |-> secure,
   message |-> "NONE", seq |-> 0, answers |-> 0]

\* post_event
Post(queue, event) ==
  IF Len(queue) < QueueLength THEN Append(queue, event) ELSE queue

\* Holds where DropsAllowed is FALSE only if count events find room.
HasRoom(count) == DropsAllowed \/ Len(bleQueue) + count <= QueueLength

LinkInit ==
  /\ link = NoLink
  /\ bleQueue = <<>>

------------------------------------------------------------------------------
\* BLE_GAP_EVENT_CONNECT: subscribed is kept, because NimBLE may report the
\* subscription of a bonded Mac before the connection itself.
GapConnect(encrypted) ==
  /\ ~link.connected
  /\ link.conn < MaxConnections
  /\ HasRoom(IF encrypted THEN 2 ELSE 1)
  /\ link' = [link EXCEPT !.connected = TRUE, !.encrypted = encrypted,
                          !.conn = @ + 1]
  /\ LET posted == Post(bleQueue, SimpleEvent("CONNECTED", link', encrypted))
     IN  bleQueue' = IF encrypted
                     THEN Post(posted, SimpleEvent("SECURITY_CHANGED", link', TRUE))
                     ELSE posted

\* BLE_GAP_EVENT_DISCONNECT: reported however the connection ended.
GapDisconnect ==
  /\ link.connected
  /\ HasRoom(1)
  /\ link' = [NoLink EXCEPT !.conn = link.conn]
  /\ bleQueue' = Post(bleQueue, SimpleEvent("DISCONNECTED", link, FALSE))

\* BLE_GAP_EVENT_ENC_CHANGE of the current connection.
GapEncChange(succeeded) ==
  /\ link.connected
  /\ ~link.encrypted
  /\ HasRoom(1)
  /\ link' = [link EXCEPT !.encrypted = succeeded]
  /\ bleQueue' = Post(bleQueue, SimpleEvent("SECURITY_CHANGED", link', succeeded))

\* BLE_GAP_EVENT_SUBSCRIBE for the notify characteristic.
GapSubscribe(enabled) ==
  /\ link.subscribed # enabled
  /\ ~enabled => link.connected
  /\ HasRoom(1)
  /\ link' = [link EXCEPT !.subscribed = enabled]
  /\ bleQueue' = Post(bleQueue, SimpleEvent("OTHER", link', FALSE))

\* MTU changes, Codex task lights and transport errors: events that only
\* occupy the queue as far as the session is concerned.  Bound: one at a time.
GapOther ==
  /\ link.connected
  /\ \A i \in 1 .. Len(bleQueue) : bleQueue[i].type # "OTHER"
  /\ HasRoom(1)
  /\ bleQueue' = Post(bleQueue, SimpleEvent("OTHER", link, FALSE))
  /\ UNCHANGED link

\* A complete frame written to the RX characteristic (handle_rx_fragment);
\* the characteristic requires an encrypted link.
ReceiveFrame(message, seq, answers) ==
  /\ link.connected
  /\ link.encrypted
  /\ HasRoom(1)
  /\ bleQueue' = Post(bleQueue,
                   [type |-> "FRAME", conn |-> link.conn, secure |-> TRUE,
                    message |-> message, seq |-> seq, answers |-> answers])
  /\ UNCHANGED link

------------------------------------------------------------------------------
\* desk_ble_link_send_frame may notify the peer.
CanNotify == link.connected /\ link.encrypted /\ link.subscribed

\* desk_ble_link_disconnect: whichever connection is current is terminated.
LinkDisconnect ==
  link' = [link EXCEPT !.terminating = link.connected]
==============================================================================
