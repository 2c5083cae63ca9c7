-------------------------- MODULE DeskSession_proofs --------------------------
(***************************************************************************)
(* Proofs about DeskSession, for every value of its constants: type        *)
(* correctness, that a locked device is clear, that a touch action never   *)
(* crosses into another session, that the timeouts come neither too early  *)
(* nor too late; and, as long as no transport event is lost, that the      *)
(* panel follows the state, that private data comes from, and actions go   *)
(* to, the peer that was verified, and that no frame is ignored; that no   *)
(* frame is taken twice; and that the whole implements PrivacyGate.        *)
(***************************************************************************)
EXTENDS DeskSession, SequenceTheorems, TLAPS

(***************************************************************************)
(* The strengthening that makes the two safety properties inductive.       *)
(***************************************************************************)

\* Touches in the queue are of the session that is open, and none are left
\* over when an authentication may succeed.
TouchInv ==
  /\ privacy.state = "ACTIVE" =>
       \A i \in 1 .. Len(uiQueue) : uiQueue[i] = ghost.session
  /\ privacy.state = "AUTHENTICATING" =>
       /\ "TOUCH_ENABLE" \notin todo
       /\ "TOUCH_DISABLE" \in todo \/ ~panel.touch
       /\ pc = "receive" => uiQueue = <<>> /\ todo = {}
  /\ pc = "drain" => todo = {}

\* What a locked device still shows, an action of todo is going to clear, in
\* the order data, UI.
ClearInv ==
  privacy.state = "LOCKED" =>
    /\ "BACKLIGHT_ON" \notin todo
    /\ app.private => "CLEAR_PRIVATE_DATA" \in todo
    /\ panel.private => "TOUCH_DISABLE" \in todo
    /\ "CLEAR_PRIVATE_DATA" \in todo => "TOUCH_DISABLE" \in todo
    /\ panel.backlight /\ ~BacklightMayFail => "BACKLIGHT_OFF" \in todo

SessionInv == TypeOK /\ TouchInv /\ ClearInv

------------------------------------------------------------------------------
(* Lemmas about the operators of the components                             *)

\* A dispatch yields a context and actions of the state machine.
LEMMA DispatchType ==
  ASSUME NEW context \in PrivacyContext, NEW event \in PrivacyEvent, NEW now \in Time
  PROVE  /\ Dispatch(context, event, now) \in PrivacyContext
         /\ DispatchActions(context, event) \subseteq PrivacyAction
<1>1. 0 \in Time
  BY PrivacyAssumption DEF Time
<1>2. Dispatch(context, event, now) \in PrivacyContext
  BY <1>1 DEF Dispatch, PrivacyContext, PrivacyState, Locked
<1>3. DispatchActions(context, event) \subseteq PrivacyAction
  BY DEF DispatchActions, PrivacyAction, LockActions, DisconnectingEvent
<1>4. QED BY <1>2, <1>3

\* Every event but a connection, a success and a heartbeat locks.
LEMMA DispatchLocks ==
  ASSUME NEW context, NEW event \in LockingEvent, NEW now
  PROVE  /\ Dispatch(context, event, now) = Locked
         /\ LockActions \subseteq DispatchActions(context, event)
         /\ DispatchActions(context, event) \subseteq LockActions \cup {"DISCONNECT_BLE"}
BY DEF Dispatch, DispatchActions, DisconnectingEvent, LockingEvent

\* The window stays a window.
LEMMA WindowType ==
  ASSUME NEW window \in Window, NEW seq \in SequenceNumber
  PROVE  AfterSequence(window, seq) \in Window
<1>1. 0 \in 0 .. WindowSize - 1
  BY SequenceAssumption
<1>2. Shift(window.seen, Forward(window, seq)) \subseteq 0 .. WindowSize - 1
  BY DEF Shift
<1>3. Age(window, seq) \in Nat
  BY SequenceAssumption DEF Age, Window, SequenceNumber
<1>4. FillsGap(window, seq) => Age(window, seq) \in 0 .. WindowSize - 1
  BY <1>3, SequenceAssumption DEF FillsGap
<1>5. QED
  BY <1>1, <1>2, <1>4 DEF AfterSequence, Window

LEMMA EmptyWindowType == EmptyWindow \in Window
BY SequenceAssumption DEF EmptyWindow, Window, SequenceNumber

\* post_event keeps the queue within its length.
LEMMA PostType ==
  ASSUME NEW queue \in Seq(Event), Len(queue) <= QueueLength, NEW event \in Event
  PROVE  /\ Post(queue, event) \in Seq(Event)
         /\ Len(Post(queue, event)) <= QueueLength
BY LinkAssumption DEF Post

LEMMA SimpleEventType ==
  ASSUME NEW state \in Link, NEW type \in EventType, NEW secure \in BOOLEAN
  PROVE  SimpleEvent(type, state, secure) \in Event
BY SequenceAssumption DEF SimpleEvent, Event, Link, Message, SequenceNumber

\* Taking the head of a nonempty sequence.
LEMMA TakeType ==
  ASSUME NEW S, NEW queue \in Seq(S), queue # <<>>
  PROVE  /\ Head(queue) \in S
         /\ Tail(queue) \in Seq(S)
         /\ Len(Tail(queue)) = Len(queue) - 1
         /\ \A i \in 1 .. Len(Tail(queue)) : i + 1 \in 1 .. Len(queue)
                                             /\ Tail(queue)[i] = queue[i + 1]
OBVIOUS

------------------------------------------------------------------------------
(* Type correctness                                                         *)

USE DEF Time

\* Updating a field with a value of its type.
LEMMA HistoryUpdate ==
  ASSUME NEW h \in History, NEW n \in Nat
  PROVE  /\ [h EXCEPT !.session = n] \in History
         /\ [h EXCEPT !.verified = n] \in History
         /\ [h EXCEPT !.challenges = n] \in History
         /\ [h EXCEPT !.silence = n] \in History
         /\ [h EXCEPT !.ticks = n] \in History
         /\ [h EXCEPT !.down = n] \in History
BY DEF History

LEMMA HistoryFields ==
  ASSUME NEW h \in History
  PROVE  /\ h.session \in Nat /\ h.verified \in Nat /\ h.challenges \in Nat
         /\ h.silence \in Nat /\ h.ticks \in Nat /\ h.down \in Nat
BY DEF History

LEMMA HeardType ==
  ASSUME NEW h \in History
  PROVE  Heard(h) \in History
BY HistoryUpdate DEF Heard

LEMMA MacUpdate ==
  ASSUME NEW m \in Mac, NEW n \in Nat, NEW stage \in MacStage
  PROVE  /\ [m EXCEPT !.seq = n, !.stage = stage] \in Mac
         /\ [m EXCEPT !.stage = stage] \in Mac
         /\ [m EXCEPT !.challenge = n] \in Mac
BY DEF Mac

LEMMA NewMacType == NewMac \in Mac
BY DEF NewMac, Mac, MacStage

\* What TakeEvent leaves of the types.
LEMMA TakenType ==
  ASSUME TypeOK, TakeEvent
  PROVE  /\ Taken \in Event
         /\ bleQueue' \in Seq(Event)
         /\ Len(bleQueue') <= QueueLength
         /\ pc' \in Phase
<1>1. bleQueue \in Seq(Event) /\ bleQueue # <<>> /\ Len(bleQueue) <= QueueLength
  BY DEF TypeOK, TakeEvent
<1>2. QueueLength \in Nat
  BY LinkAssumption
<1>3. Head(bleQueue) \in Event /\ Tail(bleQueue) \in Seq(Event)
      /\ Len(Tail(bleQueue)) = Len(bleQueue) - 1
  BY <1>1
<1>4. QED
  BY <1>1, <1>2, <1>3 DEF TakeEvent, Taken, Phase

\* What DispatchEvent leaves of the types.
LEMMA DispatchEventType ==
  ASSUME TypeOK, NEW event \in PrivacyEvent, NEW now \in Time, DispatchEvent(event, now)
  PROVE  privacy' \in PrivacyContext /\ todo' \subseteq PrivacyAction
BY DispatchType DEF TypeOK, DispatchEvent

\* TypeOK is inductive: one step per action.
LEMMA TypeInductive == TypeOK /\ [Next]_vars => TypeOK'
<1> SUFFICES ASSUME TypeOK, [Next]_vars PROVE TypeOK'
  OBVIOUS
<1> USE PrivacyAssumption, SequenceAssumption, LinkAssumption, SessionAssumption
<1>1. CASE ReceiveTimeout
  BY <1>1 DEF ReceiveTimeout, TypeOK, linkVars, Phase
<1>2. CASE HandleConnected
  <2>1. privacy' \in PrivacyContext /\ todo' \subseteq PrivacyAction
    BY <1>2, DispatchEventType DEF HandleConnected, TypeOK, PrivacyEvent
  <2>2. QED
    BY <1>2, <2>1, TakenType, EmptyWindowType, HeardType
    DEF HandleConnected, WindowOnConnect, TakeEvent, TypeOK, AppState
<1>3. CASE HandleDisconnected
  <2>1. privacy' \in PrivacyContext /\ todo' \subseteq PrivacyAction
    BY <1>3, DispatchEventType DEF HandleDisconnected, TypeOK, PrivacyEvent
  <2>2. QED
    BY <1>3, <2>1, TakenType DEF HandleDisconnected, TakeEvent, TypeOK
<1>4. CASE HandleSecurityChanged
  <2>1. privacy' \in PrivacyContext /\ todo' \subseteq PrivacyAction
    BY <1>4, DispatchEventType DEF HandleSecurityChanged, NoDispatch, TypeOK, PrivacyEvent
  <2>2. QED
    BY <1>4, <2>1, TakenType DEF HandleSecurityChanged, TakeEvent, TypeOK
<1>5. CASE HandleOther \/ IgnoreFrame
  BY <1>5, TakenType DEF HandleOther, IgnoreFrame, NoDispatch, TakeEvent, TypeOK
<1>6. ASSUME NEW message, TakeFrame(message)
      PROVE  /\ TakeEvent
             /\ rxWindow' \in Window
  BY <1>6, TakenType, WindowType DEF TakeFrame, TypeOK, Event
<1>7. ASSUME NEW m \in Mac,
             NEW value \in Nat, NEW succeeded
      PROVE  /\ AfterChallenge(m, value) \in Mac
             /\ AfterResult(m, succeeded) \in Mac
  <2>1. {"closing", "authenticated"} \subseteq MacStage
    BY DEF MacStage
  <2>2. QED
    BY <2>1, MacUpdate DEF AfterChallenge, AfterResult
<1>8. CASE HandleHello
  <2>1. TakeEvent /\ rxWindow' \in Window
    BY <1>8, <1>6 DEF HandleHello
  <2>2. challenge' \in Nat /\ ghost' \in History
    <3>1. challenge' = ghost.challenges + 1 /\ ghost' = [ghost EXCEPT !.challenges = @ + 1]
      BY <1>8 DEF HandleHello
    <3>2. ghost \in History /\ ghost.challenges + 1 \in Nat
      BY HistoryFields DEF TypeOK
    <3>3. QED
      BY <3>1, <3>2, HistoryUpdate
  <2>3. mac' \in Mac /\ privacy' \in PrivacyContext /\ todo' \subseteq PrivacyAction
    <3>1. CASE mac' = AfterChallenge(mac, challenge') /\ NoDispatch
      BY <3>1, <2>2, <1>7 DEF NoDispatch, TypeOK
    <3>2. CASE DispatchEvent("AUTH_FAILED", clock) /\ UNCHANGED mac
      BY <3>2, DispatchEventType DEF TypeOK, PrivacyEvent
    <3>3. QED
      BY <1>8, <3>1, <3>2 DEF HandleHello
  <2>4. UNCHANGED <<authStarted, app, panel>>
    BY <1>8 DEF HandleHello
  <2>5. QED
    BY <2>1, <2>2, <2>3, <2>4, TakenType DEF TakeEvent, TypeOK
<1>9. ASSUME HandleMalformedHello \/ HandleAuthFailure
      PROVE  TypeOK'
  <2>1. TakeEvent /\ rxWindow' \in Window
    BY <1>9, <1>6 DEF HandleMalformedHello, HandleAuthFailure
  <2>2. privacy' \in PrivacyContext /\ todo' \subseteq PrivacyAction
    BY <1>9, DispatchEventType DEF HandleMalformedHello, HandleAuthFailure, TypeOK, PrivacyEvent
  <2>3. PICK sent : mac' = IF sent THEN AfterResult(mac, FALSE) ELSE mac
    BY <1>9 DEF HandleMalformedHello, HandleAuthFailure
  <2>4. mac' \in Mac
    BY <2>3, <1>7 DEF TypeOK
  <2>5. challenge' \in Nat /\ UNCHANGED <<authStarted, app, panel, ghost>>
    <3>1. CASE HandleMalformedHello
      BY <3>1 DEF HandleMalformedHello, TypeOK
    <3>2. CASE HandleAuthFailure
      BY <3>2 DEF HandleAuthFailure
    <3>3. QED
      BY <1>9, <3>1, <3>2
  <2>6. QED
    BY <2>1, <2>2, <2>4, <2>5, TakenType DEF TakeEvent, TypeOK
<1>10. CASE HandleAuthSuccess
  <2>1. TakeEvent /\ rxWindow' \in Window
    BY <1>10, <1>6 DEF HandleAuthSuccess
  <2>2. privacy' \in PrivacyContext /\ todo' \subseteq PrivacyAction
    BY <1>10, DispatchEventType DEF HandleAuthSuccess, TypeOK, PrivacyEvent
  <2>3. PICK sent : mac' = IF sent THEN AfterResult(mac, TRUE) ELSE mac
    BY <1>10 DEF HandleAuthSuccess
  <2>4. mac' \in Mac
    BY <2>3, <1>7 DEF TypeOK
  <2>5. ghost' \in History
    <3>1. Taken.conn \in Nat
      BY <2>1, TakenType DEF Event
    <3>2. ghost' = ghost
          \/ ghost' = [Heard(ghost) EXCEPT !.session = @ + 1, !.verified = Taken.conn]
      BY <1>10 DEF HandleAuthSuccess
    <3>3. Heard(ghost) \in History
      BY HeardType DEF TypeOK
    <3>4. Heard(ghost).session + 1 \in Nat
      BY <3>3, HistoryFields
    <3>5. [Heard(ghost) EXCEPT !.session = @ + 1, !.verified = Taken.conn] \in History
      BY <3>1, <3>3, <3>4 DEF History
    <3>6. QED
      BY <3>2, <3>5 DEF TypeOK
  <2>6. challenge' = 0 /\ authStarted' = 0 /\ panel' = panel
        /\ app' = [app EXCEPT !.bleConnected = TRUE, !.macAuthenticated = TRUE]
    BY <1>10 DEF HandleAuthSuccess
  <2>7. app' \in AppState
    BY <2>6 DEF TypeOK, AppState
  <2>8. challenge' \in Nat /\ authStarted' \in Time /\ panel' \in Panel
    BY <2>6, SMTT(30) DEF TypeOK
  <2>9. QED
    BY <2>1, <2>2, <2>4, <2>5, <2>7, <2>8, TakenType DEF TakeEvent, TypeOK
<1>11. ASSUME HandleHeartbeat \/ HandleLock
       PROVE  TypeOK'
  <2>1. TakeEvent /\ rxWindow' \in Window
    BY <1>11, <1>6 DEF HandleHeartbeat, HandleLock
  <2>2. privacy' \in PrivacyContext /\ todo' \subseteq PrivacyAction
    BY <1>11, DispatchEventType DEF HandleHeartbeat, HandleLock, TypeOK, PrivacyEvent
  <2>3. /\ ghost' = ghost \/ ghost' = Heard(ghost)
        /\ UNCHANGED <<challenge, authStarted, app, mac, panel>>
    BY <1>11 DEF HandleHeartbeat, HandleLock
  <2>4. ghost' \in History
    BY <2>3, HeardType DEF TypeOK
  <2>5. QED
    BY <2>1, <2>2, <2>3, <2>4, TakenType DEF TakeEvent, TypeOK
<1>12. CASE HandlePrivateState
  <2>1. TakeEvent /\ rxWindow' \in Window
    BY <1>12, <1>6 DEF HandlePrivateState
  <2>2. /\ app' \in AppState
        /\ panel' \in Panel
    BY <1>12 DEF HandlePrivateState, StateAllowed, TypeOK, Panel, AppState
  <2>3. UNCHANGED <<privacy, todo, challenge, authStarted, mac, ghost>>
    BY <1>12 DEF HandlePrivateState, NoDispatch
  <2>4. QED
    BY <2>1, <2>2, <2>3, TakenType DEF TakeEvent, TypeOK
<1>13. ASSUME BacklightOff \/ BacklightOn
       PROVE  TypeOK'
  <2>1. PICK lit \in BOOLEAN : panel' = [panel EXCEPT !.backlight = lit]
    BY <1>13 DEF BacklightOff, BacklightOn, TypeOK
  <2>2. panel' \in Panel
    BY <2>1 DEF TypeOK, Panel
  <2>3. todo' \subseteq PrivacyAction /\ UNCHANGED <<link, app>> /\ UnchangedByApply
    BY <1>13 DEF BacklightOff, BacklightOn, TypeOK
  <2>4. QED
    BY <2>2, <2>3 DEF UnchangedByApply, TypeOK, linkVars
<1>14. CASE ClearPrivateData
  BY <1>14 DEF ClearPrivateData, UnchangedByApply, TypeOK, AppState
<1>141. CASE UpdateUi
  <2>1. panel' \in Panel
    <3>1. ("TOUCH_ENABLE" \in todo) \in BOOLEAN /\ app.private \in BOOLEAN
      BY DEF TypeOK, AppState
    <3>2. PICK touch \in BOOLEAN : panel' = [panel EXCEPT !.touch = touch,
                                                       !.private = app.private]
      BY <1>141, <3>1 DEF UpdateUi
    <3>3. QED
      BY <3>1, <3>2 DEF TypeOK, Panel
  <2>2. QED
    BY <1>141, <2>1 DEF UpdateUi, UnchangedByApply, TypeOK
<1>142. CASE DisconnectBle
  <2>1. link' \in Link
    BY <1>142 DEF DisconnectBle, LinkDisconnect, TypeOK, Link
  <2>2. QED
    BY <1>142, <2>1 DEF DisconnectBle, UnchangedByApply, TypeOK
<1>15. CASE ReadClock
  BY <1>15 DEF ReadClock, TypeOK, linkVars, Phase
<1>16. CASE HandleUiAction
  <2>1. uiQueue' \in Seq(Nat) /\ Len(uiQueue') <= UiQueueLength
    BY <1>16, TakeType DEF HandleUiAction, TypeOK
  <2>2. QED
    BY <1>16, <2>1 DEF HandleUiAction, TypeOK, linkVars
<1>17. CASE PollTimeouts
  <2>1. privacy' \in PrivacyContext /\ todo' \subseteq PrivacyAction
    BY <1>17, DispatchEventType DEF PollTimeouts, TypeOK, PrivacyEvent
  <2>2. loopNow' \in Time /\ authStarted' \in Time /\ pc' \in Phase
    BY <1>17, SMTT(30) DEF PollTimeouts, TypeOK, Phase
  <2>3. ghost' \in History
    BY <1>17, HistoryUpdate DEF PollTimeouts, TypeOK
  <2>4. QED
    BY <1>17, <2>1, <2>2, <2>3 DEF PollTimeouts, TypeOK, linkVars
<1>18. CASE TouchUi
  <2>1. uiQueue' \in Seq(Nat) /\ Len(uiQueue') <= UiQueueLength
    BY <1>18, HistoryFields DEF TouchUi, UiQueueHasRoom, TypeOK
  <2>2. QED
    BY <1>18, <2>1 DEF TouchUi, TypeOK, linkVars
<1>19. CASE MacSendsFrame
  <2>1. PICK message \in Message, answers \in Nat : MacSends(message, answers)
    BY <1>19 DEF MacSendsFrame, Message, TypeOK, Mac
  <2>2. mac.seq % SeqMod \in SequenceNumber
    BY DEF TypeOK, SequenceNumber, Mac
  <2>3. bleQueue' \in Seq(Event) /\ Len(bleQueue') <= QueueLength /\ link' = link
    <3>1. [type |-> "FRAME", conn |-> link.conn, secure |-> TRUE, message |-> message,
           seq |-> mac.seq % SeqMod, answers |-> answers] \in Event
      BY <2>2 DEF Event, EventType, TypeOK, Link
    <3>2. QED
      BY <2>1, <3>1, PostType DEF MacSends, ReceiveFrame, TypeOK
  <2>4. mac' \in Mac
    <3>1. StageAfter(message) \in MacStage
      BY DEF StageAfter, MacStage, TypeOK, Mac
    <3>2. mac' = [mac EXCEPT !.seq = @ + 1, !.stage = StageAfter(message)]
      BY <2>1 DEF MacSends
    <3>3. mac \in Mac /\ mac.seq + 1 \in Nat
      BY DEF TypeOK, Mac
    <3>4. QED
      BY <3>1, <3>2, <3>3, MacUpdate
  <2>5. UNCHANGED <<deskVars, clock, ghost>>
    BY <2>1 DEF MacSends
  <2>6. QED
    BY <2>3, <2>4, <2>5 DEF TypeOK, deskVars
<1>20. CASE MacGivesUp
  <2>1. mac' \in Mac
    BY <1>20, MacUpdate DEF MacGivesUp, TypeOK, MacStage
  <2>2. QED
    BY <1>20, <2>1 DEF MacGivesUp, TypeOK, linkVars, deskVars
<1>21. CASE LinkUp
  <2>1. PICK encrypted \in BOOLEAN : GapConnect(encrypted)
    BY <1>21 DEF LinkUp
  <2>2. link' \in Link
    <3>1. link.conn + 1 \in Nat
      BY DEF Link, TypeOK
    <3>2. link' = [link EXCEPT !.connected = TRUE, !.encrypted = encrypted,
                               !.conn = link.conn + 1]
      BY <2>1 DEF GapConnect
    <3>3. QED
      BY <3>1, <3>2 DEF TypeOK, Link
  <2>3. bleQueue' \in Seq(Event) /\ Len(bleQueue') <= QueueLength
    <3> DEFINE posted == Post(bleQueue, SimpleEvent("CONNECTED", link', encrypted))
    <3>1. posted \in Seq(Event) /\ Len(posted) <= QueueLength
      BY <2>2, PostType, SimpleEventType DEF EventType, TypeOK
    <3> HIDE DEF posted
    <3>2. Post(posted, SimpleEvent("SECURITY_CHANGED", link', TRUE)) \in Seq(Event)
          /\ Len(Post(posted, SimpleEvent("SECURITY_CHANGED", link', TRUE))) <= QueueLength
      BY <2>2, <3>1, PostType, SimpleEventType DEF EventType
    <3>3. bleQueue' = posted
          \/ bleQueue' = Post(posted, SimpleEvent("SECURITY_CHANGED", link', TRUE))
      BY <2>1 DEF GapConnect, posted
    <3>4. QED
      BY <3>1, <3>2, <3>3
  <2>4. QED
    BY <1>21, <2>2, <2>3, NewMacType DEF LinkUp, TypeOK, deskVars
<1>22. CASE LinkDown
  <2>1. link' \in Link
    BY <1>22 DEF LinkDown, GapDisconnect, NoLink, Link, TypeOK
  <2>2. bleQueue' \in Seq(Event) /\ Len(bleQueue') <= QueueLength
    BY <1>22, PostType, SimpleEventType DEF LinkDown, GapDisconnect, EventType, TypeOK
  <2>3. ghost' \in History
    BY <1>22, HistoryUpdate DEF LinkDown, TypeOK
  <2>4. QED
    BY <1>22, <2>1, <2>2, <2>3, NewMacType DEF LinkDown, TypeOK, deskVars
<1>23. CASE LinkChanges
  <2>1. link' \in Link
    <3>1. CASE \E succeeded \in BOOLEAN : GapEncChange(succeeded)
      BY <3>1 DEF GapEncChange, Link, TypeOK
    <3>2. CASE GapSubscribe(TRUE) \/ GapSubscribe(FALSE) \/ GapOther
      BY <3>2 DEF GapSubscribe, GapOther, Link, TypeOK
    <3>3. QED
      BY <1>23, <3>1, <3>2 DEF LinkChanges
  <2>2. PICK type \in EventType, state \in Link, secure \in BOOLEAN :
          bleQueue' = Post(bleQueue, SimpleEvent(type, state, secure))
    BY <1>23, <2>1 DEF LinkChanges, GapEncChange, GapSubscribe, GapOther, EventType, TypeOK
  <2>3. bleQueue' \in Seq(Event) /\ Len(bleQueue') <= QueueLength
    BY <2>2, PostType, SimpleEventType DEF TypeOK
  <2>4. QED
    BY <1>23, <2>1, <2>3 DEF LinkChanges, TypeOK, deskVars
<1>24. CASE Tick
  <2>1. clock' \in Time
    <3>1. clock \in Int /\ ClockMod \in Nat \ {0}
      BY DEF TypeOK
    <3>2. (clock + 1) % ClockMod \in 0 .. ClockMod - 1
      BY <3>1
    <3>3. QED
      BY <1>24, <3>2 DEF Tick
  <2>2. ghost' \in History
    <3> DEFINE silence == IF ghost.silence < SilenceCap THEN ghost.silence + 1
                                                        ELSE ghost.silence
               down == IF ghost.down < DownCap /\ ~link.connected
                       THEN ghost.down + 1 ELSE ghost.down
    <3>1. ghost \in History
      BY DEF TypeOK
    <3>2. ghost.ticks + 1 \in Nat /\ silence \in Nat /\ down \in Nat
      BY <3>1, HistoryFields
    <3>3. ghost' = [ghost EXCEPT !.ticks = ghost.ticks + 1, !.silence = silence,
                                 !.down = down]
      BY <1>24 DEF Tick
    <3> HIDE DEF silence, down
    <3>4. QED
      BY <3>1, <3>2, <3>3 DEF History
  <2>3. QED
    BY <1>24, <2>1, <2>2 DEF Tick, TypeOK, linkVars, deskVars
<1>25. CASE UNCHANGED vars
  BY <1>25 DEF vars, linkVars, deskVars, TypeOK
<1>26. QED
  BY <1>1, <1>2, <1>3, <1>4, <1>5, <1>8, <1>9, <1>10, <1>11, <1>12, <1>13, <1>14, <1>141, <1>142,
     <1>15, <1>16, <1>17, <1>18, <1>19, <1>20, <1>21, <1>22, <1>23, <1>24, <1>25
  DEF Next, Supervisor, HandleEvent, ApplyActions, Environment

LEMMA TypeInit == Init => TypeOK
<1> SUFFICES ASSUME Init PROVE TypeOK
  OBVIOUS
<1> USE PrivacyAssumption, SequenceAssumption, LinkAssumption, SessionAssumption
<1>1. link \in Link /\ bleQueue \in Seq(Event) /\ Len(bleQueue) <= QueueLength
  BY DEF Init, LinkInit, NoLink, Link
<1>2. privacy \in PrivacyContext /\ rxWindow \in Window
  BY EmptyWindowType DEF Init, InitialContext, PrivacyContext, PrivacyState
<1>3. clock \in Time
  BY DEF Init
<1>4. ghost \in History
  BY SessionAssumption DEF Init, DownCap, History
<1>5. QED
  BY <1>1, <1>2, <1>3, <1>4, NewMacType DEF Init, TypeOK, Phase, AppState, Panel

\* The variables of a session keep their types: the queues stay within their
\* lengths, and the 32-bit times and the sequence window within their ranges.
THEOREM TypeCorrect == Spec => []TypeOK
<1>1. Init => TypeOK
  BY TypeInit
<1>2. TypeOK /\ [Next]_vars => TypeOK'
  BY TypeInductive
<1>3. QED
  BY <1>1, <1>2, PTL DEF Spec

------------------------------------------------------------------------------
(* A locked device is clear                                                 *)

\* A dispatch that locks asks for everything ClearInv wants.
LEMMA LockClears ==
  ASSUME NEW event \in LockingEvent, NEW now, DispatchEvent(event, now)
  PROVE  ClearInv' /\ privacy'.state = "LOCKED" /\ "TOUCH_ENABLE" \notin todo'
<1>1. privacy' = Locked /\ LockActions \subseteq todo'
      /\ todo' \subseteq LockActions \cup {"DISCONNECT_BLE"}
  BY DispatchLocks DEF DispatchEvent
<1>2. QED
  BY <1>1 DEF ClearInv, LockActions, Locked

LEMMA ClearKept ==
  ASSUME ClearInv, UNCHANGED <<privacy, todo, app, panel>>
  PROVE  ClearInv'
BY DEF ClearInv

\* A state of the machine that is not LOCKED has nothing to clear.
LEMMA OpenIsClear ==
  ASSUME privacy'.state # "LOCKED"
  PROVE  ClearInv'
BY DEF ClearInv

LEMMA ClearInductive == TypeOK /\ ClearInv /\ [Next]_vars => ClearInv'
<1> SUFFICES ASSUME TypeOK, ClearInv, [Next]_vars PROVE ClearInv'
  OBVIOUS
<1>1. CASE ReceiveTimeout \/ ReadClock \/ HandleUiAction \/ TouchUi
  BY <1>1, ClearKept DEF ReceiveTimeout, ReadClock, HandleUiAction, TouchUi
<1>2. CASE HandleConnected
  <2>1. privacy'.state = "AUTHENTICATING"
    BY <1>2 DEF HandleConnected, DispatchEvent, Dispatch, LockingEvent
  <2>2. QED
    BY <2>1, OpenIsClear
<1>3. CASE HandleDisconnected \/ HandleMalformedHello \/ HandleAuthFailure \/ HandleLock
  BY <1>3, LockClears
  DEF HandleDisconnected, HandleMalformedHello, HandleAuthFailure, HandleLock, LockingEvent
<1>4. CASE HandleSecurityChanged \/ HandleHello
  <2>1. CASE DispatchEvent("AUTH_FAILED", clock)
    BY <2>1, LockClears DEF LockingEvent
  <2>2. CASE NoDispatch /\ UNCHANGED <<app, panel>>
    BY <2>2, ClearKept DEF NoDispatch
  <2>3. QED
    BY <1>4, <2>1, <2>2 DEF HandleSecurityChanged, HandleHello
<1>5. CASE HandleOther \/ IgnoreFrame
  BY <1>5, ClearKept DEF HandleOther, IgnoreFrame, NoDispatch
<1>6. CASE HandleAuthSuccess
  <2>1. todo = {} /\ panel' = panel /\ app'.private = app.private
        /\ DispatchEvent("AUTH_SUCCEEDED", clock)
    BY <1>6 DEF HandleAuthSuccess, TakeFrame, TakeEvent, TypeOK, AppState
  <2>2. CASE privacy.state = "AUTHENTICATING"
    BY <2>1, <2>2, OpenIsClear DEF DispatchEvent, Dispatch, LockingEvent
  <2>3. CASE privacy.state # "AUTHENTICATING"
    <3>1. privacy' = privacy /\ todo' = {}
      BY <2>1, <2>3 DEF DispatchEvent, Dispatch, DispatchActions, LockingEvent
    <3>2. QED
      BY <2>1, <3>1 DEF ClearInv
  <2>4. QED
    BY <2>2, <2>3
<1>7. CASE HandleHeartbeat
  <2>1. todo = {} /\ UNCHANGED <<app, panel>> /\ DispatchEvent("HEARTBEAT", clock)
    BY <1>7 DEF HandleHeartbeat, TakeFrame, TakeEvent
  <2>2. todo' = {} /\ privacy'.state = privacy.state
    BY <2>1 DEF DispatchEvent, Dispatch, DispatchActions, LockingEvent, TypeOK, PrivacyContext
  <2>3. QED
    BY <2>1, <2>2 DEF ClearInv
<1>8. CASE HandlePrivateState
  <2>1. /\ todo = {} /\ UNCHANGED <<privacy, todo>>
        /\ app' = [app EXCEPT !.private = @ \/ StateAllowed]
        /\ panel' = [panel EXCEPT !.private = @ \/ StateAllowed]
    BY <1>8 DEF HandlePrivateState, TakeFrame, TakeEvent, NoDispatch
  <2>2. ASSUME privacy.state = "LOCKED"
        PROVE  /\ app'.private => app.private
               /\ panel'.private => panel.private
               /\ panel'.backlight = panel.backlight
    BY <2>1, <2>2 DEF StateAllowed, TypeOK, AppState, Panel
  <2>3. QED
    BY <2>1, <2>2 DEF ClearInv
<1>9. CASE BacklightOff
  <2>1. PICK failed \in BOOLEAN :
          /\ failed => BacklightMayFail
          /\ panel' = [panel EXCEPT !.backlight = failed /\ @]
    BY <1>9 DEF BacklightOff
  <2>2. panel'.private = panel.private /\ (panel'.backlight => BacklightMayFail)
    BY <2>1 DEF TypeOK, Panel
  <2>3. UNCHANGED <<privacy, app>> /\ todo' = todo \ {"BACKLIGHT_OFF"}
    BY <1>9 DEF BacklightOff, UnchangedByApply
  <2>4. QED
    BY <2>2, <2>3 DEF ClearInv
<1>10. CASE ClearPrivateData
  <2>1. UNCHANGED <<privacy, panel>> /\ todo' = todo \ {"CLEAR_PRIVATE_DATA"}
        /\ ~app'.private /\ "CLEAR_PRIVATE_DATA" \in todo
    BY <1>10 DEF ClearPrivateData, UnchangedByApply
  <2>2. QED
    BY <2>1 DEF ClearInv
<1>11. CASE UpdateUi
  <2>1. UNCHANGED <<privacy, app>> /\ todo' = todo \ UiActions
        /\ "CLEAR_PRIVATE_DATA" \notin todo /\ "BACKLIGHT_OFF" \notin todo
    BY <1>11 DEF UpdateUi, UnchangedByApply, UiAfterClear
  <2>2. panel'.private = app.private /\ panel'.backlight = panel.backlight
    BY <1>11 DEF UpdateUi, TypeOK, Panel
  <2>3. QED
    BY <2>1, <2>2 DEF ClearInv
<1>12. CASE BacklightOn
  BY <1>12 DEF BacklightOn, ClearInv, UnchangedByApply
<1>13. CASE DisconnectBle
  <2>1. UNCHANGED <<privacy, app, panel>> /\ todo = {"DISCONNECT_BLE"} /\ todo' = {}
    BY <1>13 DEF DisconnectBle, UnchangedByApply
  <2>2. QED
    BY <2>1 DEF ClearInv
<1>14. CASE PollTimeouts
  <2>1. CASE DispatchEvent("HEARTBEAT_TIMEOUT", loopNow) \/ DispatchEvent("AUTH_FAILED", loopNow)
    BY <2>1, LockClears DEF LockingEvent
  <2>2. CASE UNCHANGED <<privacy, todo>>
    BY <1>14, <2>2, ClearKept DEF PollTimeouts
  <2>3. QED
    BY <1>14, <2>1, <2>2 DEF PollTimeouts
<1>15. CASE \/ MacSendsFrame \/ MacGivesUp \/ LinkUp \/ LinkDown \/ LinkChanges \/ Tick
  <2>1. UNCHANGED deskVars
    BY <1>15 DEF MacSendsFrame, MacSends, MacGivesUp, LinkUp, LinkDown, LinkChanges, Tick
  <2>2. QED
    BY <2>1, ClearKept DEF deskVars
<1>16. CASE UNCHANGED vars
  BY <1>16, ClearKept DEF vars, deskVars
<1>17. QED
  BY <1>1, <1>2, <1>3, <1>4, <1>5, <1>6, <1>7, <1>8, <1>9, <1>10, <1>11, <1>12,
     <1>13, <1>14, <1>15, <1>16
  DEF Next, Supervisor, HandleEvent, ApplyActions, Environment

\* Once a lock is carried out, nothing private is left and the screen is dark
\* unless writing to it failed; for any queue lengths and however many events
\* are dropped (apply_privacy_actions with desk_privacy_dispatch).
THEOREM LockedClear == Spec => []LockedIsClear
<1>1. Init => TypeOK /\ ClearInv
  BY TypeInit DEF Init, ClearInv
<1>2. TypeOK /\ ClearInv /\ [Next]_vars => TypeOK' /\ ClearInv'
  BY TypeInductive, ClearInductive
<1>3. TypeOK /\ ClearInv => LockedIsClear
  BY DEF ClearInv, LockedIsClear
<1>4. QED
  BY <1>1, <1>2, <1>3, PTL DEF Spec

------------------------------------------------------------------------------
(* A touch action stays in its session                                      *)

\* A locking dispatch leaves nothing to show about the touch queue.
LEMMA LockTouch ==
  ASSUME NEW event \in LockingEvent, NEW now, DispatchEvent(event, now), pc' # "drain"
  PROVE  TouchInv'
<1>1. privacy'.state = "LOCKED"
  BY LockClears
<1>2. QED
  BY <1>1 DEF TouchInv

\* A handler that keeps the state, the touch, the queue and the session.
LEMMA TouchKept ==
  ASSUME TouchInv, privacy'.state = privacy.state, UNCHANGED <<todo, uiQueue>>,
         panel'.touch = panel.touch, ghost'.session = ghost.session,
         pc' = pc \/ pc' = "handled"
  PROVE  TouchInv'
BY DEF TouchInv

LEMMA TouchInductive == TypeOK /\ TouchInv /\ [Next]_vars => TouchInv'
<1> SUFFICES ASSUME TypeOK, TouchInv, [Next]_vars PROVE TouchInv'
  OBVIOUS
<1>1. CASE ReceiveTimeout
  BY <1>1, TouchKept DEF ReceiveTimeout
<1>2. CASE HandleConnected
  <2>1. privacy'.state = "AUTHENTICATING" /\ todo' = {"BACKLIGHT_OFF", "TOUCH_DISABLE"}
    BY <1>2 DEF HandleConnected, DispatchEvent, Dispatch, DispatchActions, LockingEvent
  <2>2. pc' = "handled"
    BY <1>2 DEF HandleConnected, TakeEvent
  <2>3. QED
    BY <2>1, <2>2 DEF TouchInv
<1>3. CASE HandleDisconnected \/ HandleMalformedHello \/ HandleAuthFailure \/ HandleLock
  <2>1. pc' = "handled"
    BY <1>3 DEF HandleDisconnected, HandleMalformedHello, HandleAuthFailure, HandleLock,
                TakeFrame, TakeEvent
  <2>2. QED
    BY <1>3, <2>1, LockTouch
    DEF HandleDisconnected, HandleMalformedHello, HandleAuthFailure, HandleLock, LockingEvent
<1>4. CASE HandleSecurityChanged \/ HandleHello
  <2>1. pc' = "handled" /\ UNCHANGED <<uiQueue, panel>>
    BY <1>4 DEF HandleSecurityChanged, HandleHello, TakeFrame, TakeEvent
  <2>2. ghost'.session = ghost.session
    BY <1>4 DEF HandleSecurityChanged, HandleHello, TypeOK, History
  <2>3. CASE DispatchEvent("AUTH_FAILED", clock)
    BY <2>1, <2>3, LockTouch DEF LockingEvent
  <2>4. CASE NoDispatch
    BY <2>1, <2>2, <2>4, TouchKept DEF NoDispatch
  <2>5. QED
    BY <1>4, <2>3, <2>4 DEF HandleSecurityChanged, HandleHello
<1>5. CASE HandleOther \/ IgnoreFrame
  BY <1>5, TouchKept DEF HandleOther, IgnoreFrame, NoDispatch, TakeEvent
<1>6. CASE HandleAuthSuccess
  <2>1. pc = "receive" /\ todo = {} /\ pc' = "handled" /\ UNCHANGED <<uiQueue, panel>>
        /\ DispatchEvent("AUTH_SUCCEEDED", clock)
    BY <1>6 DEF HandleAuthSuccess, TakeFrame, TakeEvent
  <2>2. CASE privacy.state = "AUTHENTICATING"
    <3>1. uiQueue' = <<>>
      BY <2>1, <2>2 DEF TouchInv
    <3>2. privacy'.state = "ACTIVE"
      BY <2>1, <2>2 DEF DispatchEvent, Dispatch, LockingEvent
    <3>3. QED
      BY <2>1, <3>1, <3>2 DEF TouchInv
  <2>3. CASE privacy.state # "AUTHENTICATING"
    <3>1. privacy' = privacy /\ todo' = {}
      BY <2>1, <2>3 DEF DispatchEvent, Dispatch, DispatchActions, LockingEvent
    <3>2. ghost' = ghost
      BY <1>6, <2>3 DEF HandleAuthSuccess
    <3>3. QED
      BY <2>1, <3>1, <3>2, TouchKept
  <2>4. QED
    BY <2>2, <2>3
<1>7. CASE HandleHeartbeat
  <2>1. todo = {} /\ pc' = "handled" /\ UNCHANGED <<uiQueue, panel>>
        /\ DispatchEvent("HEARTBEAT", clock)
    BY <1>7 DEF HandleHeartbeat, TakeFrame, TakeEvent
  <2>2. todo' = {} /\ privacy'.state = privacy.state
    BY <2>1 DEF DispatchEvent, Dispatch, DispatchActions, LockingEvent, TypeOK, PrivacyContext
  <2>3. ghost'.session = ghost.session
    BY <1>7 DEF HandleHeartbeat, Heard, TypeOK, History
  <2>4. QED
    BY <2>1, <2>2, <2>3, TouchKept
<1>8. CASE HandlePrivateState
  <2>1. pc' = "handled" /\ UNCHANGED <<privacy, todo, uiQueue, ghost>>
    BY <1>8 DEF HandlePrivateState, TakeFrame, TakeEvent, NoDispatch
  <2>2. panel'.touch = panel.touch
    BY <1>8 DEF HandlePrivateState, TypeOK, Panel
  <2>3. QED
    BY <2>1, <2>2, TouchKept
<1>9. CASE BacklightOff \/ BacklightOn \/ ClearPrivateData \/ DisconnectBle
  <2>1. /\ todo # {}
        /\ todo' \subseteq todo
        /\ "TOUCH_DISABLE" \in todo => "TOUCH_DISABLE" \in todo'
        /\ UNCHANGED <<pc, privacy, uiQueue, ghost>>
    BY <1>9 DEF BacklightOff, BacklightOn, ClearPrivateData, DisconnectBle, UnchangedByApply
  <2>2. panel'.touch = panel.touch
    BY <1>9 DEF BacklightOff, BacklightOn, ClearPrivateData, DisconnectBle, TypeOK, Panel
  <2>3. QED
    BY <2>1, <2>2 DEF TouchInv
<1>10. CASE UpdateUi
  <2>1. todo # {} /\ todo' = todo \ UiActions /\ UNCHANGED <<pc, privacy, uiQueue, ghost>>
    BY <1>10 DEF UpdateUi, UnchangedByApply
  <2>2. "TOUCH_ENABLE" \notin todo => ~panel'.touch
    BY <1>10 DEF UpdateUi, TypeOK, Panel
  <2>3. QED
    BY <2>1, <2>2 DEF TouchInv
<1>11. CASE ReadClock
  BY <1>11 DEF ReadClock, TouchInv
<1>12. CASE HandleUiAction
  <2>1. /\ \A i \in 1 .. Len(uiQueue') : i + 1 \in 1 .. Len(uiQueue)
                                        /\ uiQueue'[i] = uiQueue[i + 1]
    BY <1>12, TakeType DEF HandleUiAction, TypeOK
  <2>2. pc = "drain" /\ UNCHANGED <<pc, privacy, todo, panel, ghost>>
    BY <1>12 DEF HandleUiAction
  <2>3. QED
    BY <2>1, <2>2 DEF TouchInv
<1>13. CASE PollTimeouts
  <2>1. pc' = "receive" /\ todo = {} /\ uiQueue = <<>> /\ UNCHANGED <<uiQueue, panel>>
    BY <1>13 DEF PollTimeouts, Drained
  <2>2. CASE DispatchEvent("HEARTBEAT_TIMEOUT", loopNow) \/ DispatchEvent("AUTH_FAILED", loopNow)
    BY <2>1, <2>2, LockTouch DEF LockingEvent
  <2>3. CASE UNCHANGED <<privacy, todo>>
    BY <2>1, <2>3 DEF TouchInv
  <2>4. QED
    BY <1>13, <2>2, <2>3 DEF PollTimeouts
<1>14. CASE TouchUi
  <2>1. /\ panel.touch
        /\ uiQueue' = Append(uiQueue, ghost.session)
        /\ UNCHANGED <<pc, privacy, todo, panel, ghost>>
    BY <1>14 DEF TouchUi
  <2>2. /\ Len(uiQueue') = Len(uiQueue) + 1
        /\ \A i \in 1 .. Len(uiQueue') : uiQueue'[i] = IF i <= Len(uiQueue)
                                                       THEN uiQueue[i] ELSE ghost.session
    BY <2>1 DEF TypeOK
  <2>3. QED
    BY <2>1, <2>2 DEF TouchInv, TypeOK
<1>15. CASE \/ MacSendsFrame \/ MacGivesUp \/ LinkUp \/ LinkDown \/ LinkChanges \/ Tick
  <2>1. UNCHANGED deskVars
    BY <1>15 DEF MacSendsFrame, MacSends, MacGivesUp, LinkUp, LinkDown, LinkChanges, Tick
  <2>2. ghost'.session = ghost.session
    BY <1>15 DEF MacSendsFrame, MacSends, MacGivesUp, LinkUp, LinkDown, LinkChanges, Tick,
                 TypeOK, History
  <2>3. QED
    BY <2>1, <2>2, TouchKept DEF deskVars
<1>16. CASE UNCHANGED vars
  BY <1>16, TouchKept DEF vars, deskVars
<1>17. QED
  BY <1>1, <1>2, <1>3, <1>4, <1>5, <1>6, <1>7, <1>8, <1>9, <1>10, <1>11, <1>12,
     <1>13, <1>14, <1>15, <1>16
  DEF Next, Supervisor, HandleEvent, ApplyActions, Environment

\* A touch that the supervisor handles in ACTIVE was made in the session that is
\* open, for any queue lengths and whatever the Mac does: the drain comes before
\* the next event is taken, and no touch is accepted in AUTHENTICATING
\* (supervisor_task with queue_ui_action and apply_privacy_actions).
THEOREM TouchesBelong == Spec => []UiActionsBelongToSession
<1>1. Init => TypeOK /\ TouchInv
  BY TypeInit DEF Init, InitialContext, TouchInv
<1>2. TypeOK /\ TouchInv /\ [Next]_vars => TypeOK' /\ TouchInv'
  BY TypeInductive, TouchInductive
<1>3. TypeOK /\ TouchInv => UiActionsBelongToSession
  BY DEF TouchInv, UiActionsBelongToSession
<1>4. QED
  BY <1>1, <1>2, <1>3, PTL DEF Spec
------------------------------------------------------------------------------
(* The order of connections in the event queue                              *)

\* The places where a connection begins: in the queue, before it if the
\* supervisor has one open, and after it if the next one is still to come.
Begins(queue, open, idle, i) ==
  \/ i = 0 /\ open
  \/ i \in 1 .. Len(queue) /\ queue[i].type = "CONNECTED"
  \/ i = Len(queue) + 1 /\ idle

\* Between two beginnings the queue holds an end.
Alternates(queue, open, idle) ==
  \A i, k \in 0 .. Len(queue) + 1 :
    i < k /\ Begins(queue, open, idle, i) /\ Begins(queue, open, idle, k) =>
      \E j \in i + 1 .. k - 1 : queue[j].type = "DISCONNECTED"

OrderInv == Alternates(bleQueue, privacy.state # "LOCKED", ~link.connected)

LEMMA AppendedEvent ==
  ASSUME NEW S, NEW queue \in Seq(S), NEW event \in S
  PROVE  /\ Append(queue, event) \in Seq(S)
         /\ Len(queue) \in Nat
         /\ Len(Append(queue, event)) = Len(queue) + 1
         /\ \A i \in 1 .. Len(queue) : Append(queue, event)[i] = queue[i]
         /\ Append(queue, event)[Len(queue) + 1] = event
  OBVIOUS

\* An event that neither begins nor ends a connection.
LEMMA AppendsOther ==
  ASSUME NEW queue \in Seq(Event), NEW event \in Event, NEW open, NEW idle,
         event.type # "CONNECTED",
         Alternates(queue, open, idle)
  PROVE  Alternates(Append(queue, event), open, idle)
<1> DEFINE longer == Append(queue, event)
           n == Len(queue)
<1>1. /\ n \in Nat /\ Len(longer) = n + 1
      /\ \A i \in 1 .. n : longer[i] = queue[i]
      /\ longer[n + 1] = event
  BY AppendedEvent
<1>2. n = Len(queue)
  OBVIOUS
<1> HIDE DEF longer, n
<1>3. ASSUME NEW i \in 0 .. n + 2, NEW k \in 0 .. n + 2, i < k,
             Begins(longer, open, idle, i), Begins(longer, open, idle, k)
      PROVE  \E j \in i + 1 .. k - 1 : longer[j].type = "DISCONNECTED"
  <2> DEFINE last == IF k = n + 2 THEN n + 1 ELSE k
  <2>1. i \in 0 .. n /\ Begins(queue, open, idle, i)
    BY <1>1, <1>2, <1>3 DEF Begins
  <2>2. last \in 0 .. n + 1 /\ last <= k /\ i < last /\ Begins(queue, open, idle, last)
    BY <1>1, <1>2, <1>3, <2>1 DEF Begins
  <2>3. PICK j \in i + 1 .. last - 1 : queue[j].type = "DISCONNECTED"
    <3> HIDE DEF last
    <3> QED BY <1>1, <1>2, <2>1, <2>2 DEF Alternates
  <2>4. j \in 1 .. n /\ j \in i + 1 .. k - 1
    BY <1>1, <2>1, <2>2, <2>3
  <2> QED BY <1>1, <2>3, <2>4
<1>4. Len(longer) + 1 = n + 2
  BY <1>1
<1>5. Alternates(longer, open, idle)
  BY <1>3, <1>4 DEF Alternates
<1> QED BY <1>5 DEF longer

\* The next connection begins.
LEMMA AppendsBegin ==
  ASSUME NEW queue \in Seq(Event), NEW event \in Event, NEW open, NEW idle, NEW later, idle, ~later,
         event.type = "CONNECTED",
         Alternates(queue, open, idle)
  PROVE  Alternates(Append(queue, event), open, later)
<1> DEFINE longer == Append(queue, event)
           n == Len(queue)
<1>1. /\ n \in Nat /\ Len(longer) = n + 1
      /\ \A i \in 1 .. n : longer[i] = queue[i]
      /\ longer[n + 1] = event
  BY AppendedEvent
<1>2. n = Len(queue)
  OBVIOUS
<1> HIDE DEF longer, n
<1>3. ASSUME NEW i \in 0 .. n + 2, NEW k \in 0 .. n + 2, i < k,
             Begins(longer, open, later, i), Begins(longer, open, later, k)
      PROVE  \E j \in i + 1 .. k - 1 : longer[j].type = "DISCONNECTED"
  <2>1. i \in 0 .. n /\ Begins(queue, open, idle, i)
    BY <1>1, <1>2, <1>3 DEF Begins
  <2>2. k \in 0 .. n + 1 /\ Begins(queue, open, idle, k)
    BY <1>1, <1>2, <1>3 DEF Begins
  <2>3. PICK j \in i + 1 .. k - 1 : queue[j].type = "DISCONNECTED"
    <3>1. i \in 0 .. Len(queue) + 1 /\ k \in 0 .. Len(queue) + 1
      BY <1>1, <1>2, <2>1, <2>2
    <3> QED BY <1>3, <2>1, <2>2, <3>1, Zenon DEF Alternates
  <2>4. j \in 1 .. n
    BY <1>1, <2>1, <2>2, <2>3
  <2> QED BY <1>1, <2>3, <2>4
<1> QED BY <1>1, <1>3 DEF Alternates, longer

\* The connection ends.
LEMMA AppendsEnd ==
  ASSUME NEW queue \in Seq(Event), NEW event \in Event, NEW open, NEW idle, NEW later, ~idle,
         event.type = "DISCONNECTED",
         Alternates(queue, open, idle)
  PROVE  Alternates(Append(queue, event), open, later)
<1> DEFINE longer == Append(queue, event)
           n == Len(queue)
<1>1. /\ n \in Nat /\ Len(longer) = n + 1
      /\ \A i \in 1 .. n : longer[i] = queue[i]
      /\ longer[n + 1] = event
  BY AppendedEvent
<1>2. n = Len(queue)
  OBVIOUS
<1> HIDE DEF longer, n
<1>3. ASSUME NEW i \in 0 .. n + 2, NEW k \in 0 .. n + 2, i < k,
             Begins(longer, open, later, i), Begins(longer, open, later, k)
      PROVE  \E j \in i + 1 .. k - 1 : longer[j].type = "DISCONNECTED"
  <2>1. i \in 0 .. n /\ Begins(queue, open, idle, i)
    BY <1>1, <1>2, <1>3 DEF Begins
  <2>2. CASE k = n + 2
    <3>1. n + 1 \in i + 1 .. k - 1
      BY <1>1, <2>1, <2>2
    <3> QED BY <1>1, <3>1
  <2>3. CASE k # n + 2
    <3>1. k \in 0 .. n /\ Begins(queue, open, idle, k)
      BY <1>1, <1>2, <1>3, <2>3 DEF Begins
    <3>2. PICK j \in i + 1 .. k - 1 : queue[j].type = "DISCONNECTED"
      BY <1>1, <1>2, <1>3, <2>1, <3>1 DEF Alternates
    <3>3. j \in 1 .. n
      BY <1>1, <2>1, <3>1, <3>2
    <3> QED BY <1>1, <3>2, <3>3
  <2> QED BY <2>2, <2>3
<1> QED BY <1>1, <1>3 DEF Alternates, longer

\* The head is taken: what it begins is open, what it ends is not.
LEMMA TakesHead ==
  ASSUME NEW queue \in Seq(Event), queue # <<>>, NEW open \in BOOLEAN, NEW idle,
         NEW opened \in BOOLEAN,
         Head(queue).type = "CONNECTED" \/ (opened => open),
         Head(queue).type = "DISCONNECTED" => ~opened,
         Alternates(queue, open, idle)
  PROVE  Alternates(Tail(queue), opened, idle)
<1> DEFINE rest == Tail(queue)
           n == Len(rest)
<1>1. /\ n \in Nat /\ Len(queue) = n + 1
      /\ \A i \in 1 .. n : rest[i] = queue[i + 1]
      /\ Head(queue) = queue[1]
  BY TakeType
<1>2. n = Len(rest)
  OBVIOUS
<1> HIDE DEF rest, n
<1>3. ASSUME NEW i \in 0 .. n + 1, NEW k \in 0 .. n + 1, i < k,
             Begins(rest, opened, idle, i), Begins(rest, opened, idle, k)
      PROVE  \E j \in i + 1 .. k - 1 : rest[j].type = "DISCONNECTED"
  <2>0. \A m \in 1 .. n : m + 1 \in 1 .. Len(queue) /\ rest[m] = queue[m + 1]
    BY <1>1
  <2>1. Begins(queue, open, idle, k + 1)
    <3>1. CASE k \in 1 .. n
      BY <1>1, <1>2, <1>3, <2>0, <3>1 DEF Begins
    <3>2. CASE k = n + 1
      BY <1>1, <1>2, <1>3, <3>2 DEF Begins
    <3> QED BY <1>1, <1>3, <3>1, <3>2
  <2> DEFINE first == IF i = 0 /\ Head(queue).type # "CONNECTED" THEN 0 ELSE i + 1
  <2>2. first \in 0 .. n + 2 /\ first <= i + 1 /\ Begins(queue, open, idle, first)
    <3>1. CASE i \in 1 .. n
      BY <1>1, <1>2, <1>3, <2>0, <3>1 DEF Begins
    <3>2. CASE i = 0 /\ queue[1].type = "CONNECTED"
      BY <1>1, <3>2 DEF Begins
    <3>3. CASE i = 0 /\ queue[1].type # "CONNECTED"
      <4>1. opened
        BY <1>1, <1>2, <1>3, <3>3 DEF Begins
      <4>2. open
        BY <1>1, <3>3, <4>1
      <4> QED BY <1>1, <3>3, <4>2 DEF Begins
    <3> QED BY <1>1, <1>3, <3>1, <3>2, <3>3
  <2>3. first = i + 1 \/ (first = 0 /\ i = 0 /\ queue[1].type # "DISCONNECTED")
    <3>1. i = 0 => opened
      BY <1>1, <1>2, <1>3 DEF Begins
    <3>2. i = 0 => queue[1].type # "DISCONNECTED"
      BY <1>1, <3>1
    <3>3. first = i + 1 \/ (first = 0 /\ i = 0)
      BY <1>3
    <3> HIDE DEF first
    <3> QED BY <3>2, <3>3
  <2>4. PICK j \in first + 1 .. k : queue[j].type = "DISCONNECTED"
    <3> HIDE DEF first
    <3>1. first \in 0 .. Len(queue) + 1 /\ k + 1 \in 0 .. Len(queue) + 1 /\ first < k + 1
      BY <1>1, <1>3, <2>2
    <3>2. (k + 1) - 1 = k
      BY <1>3
    <3> QED BY <2>1, <2>2, <3>1, <3>2 DEF Alternates
  <2>5. j - 1 \in i + 1 .. k - 1 /\ j - 1 \in 1 .. n /\ rest[j - 1] = queue[j]
    <3>1. j \in Int /\ j >= first + 1 /\ j <= k
      BY <1>3, <2>2, <2>4
    <3>2. j >= i + 2
      BY <1>1, <1>3, <2>2, <2>3, <2>4, <3>1
    <3>3. j - 1 \in i + 1 .. k - 1 /\ j - 1 \in 1 .. n
      BY <1>1, <1>3, <3>1, <3>2
    <3> QED BY <1>1, <3>1, <3>3
  <2> QED BY <2>4, <2>5
<1> QED BY <1>1, <1>3 DEF Alternates, rest

LEMMA Locking ==
  ASSUME NEW queue, NEW open \in BOOLEAN, NEW idle, NEW opened \in BOOLEAN, opened => open,
         Alternates(queue, open, idle)
  PROVE  Alternates(queue, opened, idle)
  BY DEF Alternates, Begins

\* What comes next does not begin a connection while one is open.
LEMMA HeadIsNoBegin ==
  ASSUME NEW queue \in Seq(Event), queue # <<>>, NEW open, NEW idle, open,
         Alternates(queue, open, idle)
  PROVE  Head(queue).type # "CONNECTED"
<1>1. Len(queue) \in Nat /\ Len(queue) >= 1 /\ Head(queue) = queue[1]
  BY TakeType
<1>2. ASSUME Head(queue).type = "CONNECTED" PROVE FALSE
  <2>1. Begins(queue, open, idle, 0) /\ Begins(queue, open, idle, 1)
    BY <1>1, <1>2 DEF Begins
  <2>2. 0 \in 0 .. Len(queue) + 1 /\ 1 \in 0 .. Len(queue) + 1 /\ 0 < 1
    BY <1>1
  <2>3. \E j \in 0 + 1 .. 1 - 1 : queue[j].type = "DISCONNECTED"
    BY <2>1, <2>2, Zenon DEF Alternates
  <2> QED BY <2>3
<1> QED BY <1>2

------------------------------------------------------------------------------
(* The queue keeps the order of the connections                             *)

\* Where no event is dropped, posting appends.
LEMMA PostAppends ==
  ASSUME TypeOK, ~DropsAllowed, HasRoom(1), NEW event
  PROVE  Post(bleQueue, event) = Append(bleQueue, event)
<1>1. Len(bleQueue) \in Nat /\ QueueLength \in Nat
  BY LinkAssumption DEF TypeOK
<1> QED BY <1>1 DEF Post, HasRoom

LEMMA PostsOther ==
  ASSUME TypeOK, ~DropsAllowed, OrderInv, HasRoom(1), NEW event \in Event,
         event.type # "CONNECTED", bleQueue' = Post(bleQueue, event),
         link'.connected = link.connected, privacy' = privacy
  PROVE  OrderInv'
<1>1. bleQueue' = Append(bleQueue, event) /\ bleQueue \in Seq(Event)
  BY PostAppends DEF TypeOK
<1>2. Alternates(bleQueue', privacy.state # "LOCKED", ~link.connected)
  BY <1>1, AppendsOther DEF OrderInv
<1> QED BY <1>2 DEF OrderInv

LEMMA OrderKept ==
  ASSUME OrderInv, bleQueue' = bleQueue, link'.connected = link.connected,
         privacy'.state # "LOCKED" => privacy.state # "LOCKED"
  PROVE  OrderInv'
<1> DEFINE open == privacy.state # "LOCKED"
           opened == privacy'.state # "LOCKED"
           idle == ~link.connected
<1>1. open \in BOOLEAN /\ opened \in BOOLEAN /\ (opened => open)
  OBVIOUS
<1>2. Alternates(bleQueue, open, idle)
  BY DEF OrderInv
<1>3. (~link'.connected) = idle
  OBVIOUS
<1> HIDE DEF open, opened, idle
<1>4. Alternates(bleQueue, opened, idle)
  BY <1>1, <1>2, Locking
<1> QED BY <1>3, <1>4 DEF OrderInv, opened

LEMMA TakesOrder ==
  ASSUME TypeOK, OrderInv, TakeEvent,
         Taken.type = "CONNECTED" \/ (privacy'.state # "LOCKED" => privacy.state # "LOCKED"),
         Taken.type = "DISCONNECTED" => privacy'.state = "LOCKED"
  PROVE  OrderInv'
<1> DEFINE open == privacy.state # "LOCKED"
           opened == privacy'.state # "LOCKED"
           idle == ~link.connected
<1>1. open \in BOOLEAN /\ opened \in BOOLEAN
  OBVIOUS
<1>2. Alternates(bleQueue, open, idle)
  BY DEF OrderInv
<1>3. /\ bleQueue \in Seq(Event) /\ bleQueue # <<>>
      /\ bleQueue' = Tail(bleQueue) /\ link' = link
  BY DEF TypeOK, TakeEvent
<1>4. /\ Head(bleQueue).type = "CONNECTED" \/ (opened => open)
      /\ Head(bleQueue).type = "DISCONNECTED" => ~opened
  BY DEF Taken
<1>5. (~link'.connected) = idle
  BY <1>3
<1> HIDE DEF open, opened, idle
<1>6. Alternates(Tail(bleQueue), opened, idle)
  BY <1>1, <1>2, <1>3, <1>4, TakesHead
<1> QED BY <1>3, <1>5, <1>6 DEF OrderInv, opened

\* Only a connection takes the machine out of LOCKED.
LEMMA StaysLocked ==
  ASSUME TypeOK, NEW event \in PrivacyEvent \ {"BLE_CONNECTED"}, NEW now,
         DispatchEvent(event, now)
  PROVE  privacy'.state # "LOCKED" => privacy.state # "LOCKED"
  BY DEF DispatchEvent, Dispatch, LockingEvent, Locked, TypeOK, PrivacyContext, PrivacyEvent

LEMMA ConnectedLink ==
  ASSUME NEW old \in Link, NEW encrypted \in BOOLEAN
  PROVE  LET new == [old EXCEPT !.connected = TRUE, !.encrypted = encrypted, !.conn = @ + 1]
         IN  new \in Link /\ new.connected
<1>1. old.conn + 1 \in Nat
  BY DEF Link
<1> DEFINE n == old.conn + 1
<1> HIDE DEF n
<1>2. LET new == [old EXCEPT !.connected = TRUE, !.encrypted = encrypted, !.conn = n]
      IN  new \in Link /\ new.connected = TRUE
  BY <1>1 DEF Link, n
<1> QED BY <1>2 DEF n

LEMMA OrderInductive == TypeOK /\ ~DropsAllowed /\ OrderInv /\ [Next]_vars => OrderInv'
<1> SUFFICES ASSUME TypeOK, ~DropsAllowed, OrderInv, [Next]_vars PROVE OrderInv'
  OBVIOUS
<1>1. CASE HandleConnected
  BY <1>1, TakesOrder DEF HandleConnected
<1>2. CASE HandleDisconnected
  <2>1. privacy'.state = "LOCKED"
    BY <1>2 DEF HandleDisconnected, DispatchEvent, Dispatch, LockingEvent, Locked
  <2> QED BY <1>2, <2>1, TakesOrder DEF HandleDisconnected
<1>3. ASSUME TakeEvent, Taken.type # "DISCONNECTED",
             \/ NoDispatch
             \/ \E event \in PrivacyEvent \ {"BLE_CONNECTED"} : DispatchEvent(event, clock)
      PROVE  OrderInv'
  <2>1. privacy'.state # "LOCKED" => privacy.state # "LOCKED"
    BY <1>3, StaysLocked DEF NoDispatch
  <2> QED BY <1>3, <2>1, TakesOrder
<1>4. CASE HandleSecurityChanged \/ HandleOther \/ IgnoreFrame \/ HandlePrivateState
  BY <1>3, <1>4
  DEF HandleSecurityChanged, HandleOther, IgnoreFrame, HandlePrivateState, TakeFrame,
      PrivacyEvent
<1>5. CASE HandleHello \/ HandleMalformedHello \/ HandleAuthFailure
  BY <1>3, <1>5
  DEF HandleHello, HandleMalformedHello, HandleAuthFailure, TakeFrame, PrivacyEvent
<1>6. CASE HandleAuthSuccess \/ HandleHeartbeat \/ HandleLock
  BY <1>3, <1>6 DEF HandleAuthSuccess, HandleHeartbeat, HandleLock, TakeFrame, PrivacyEvent
<1>7. CASE ReceiveTimeout \/ ReadClock \/ HandleUiAction \/ TouchUi
  BY <1>7, OrderKept DEF ReceiveTimeout, ReadClock, HandleUiAction, TouchUi, linkVars
<1>8. CASE BacklightOff \/ ClearPrivateData \/ UpdateUi \/ BacklightOn
  BY <1>8, OrderKept
  DEF BacklightOff, ClearPrivateData, UpdateUi, BacklightOn, UnchangedByApply
<1>9. CASE DisconnectBle
  <2>1. link'.connected = link.connected
    BY <1>9 DEF DisconnectBle, LinkDisconnect, TypeOK, Link
  <2> QED BY <1>9, <2>1, OrderKept DEF DisconnectBle, UnchangedByApply
<1>10. CASE PollTimeouts
  <2>1. privacy'.state # "LOCKED" => privacy.state # "LOCKED"
    BY <1>10, StaysLocked DEF PollTimeouts, PrivacyEvent
  <2> QED BY <1>10, <2>1, OrderKept DEF PollTimeouts, linkVars
<1>11. CASE MacGivesUp \/ Tick \/ UNCHANGED vars
  BY <1>11, OrderKept DEF MacGivesUp, Tick, vars, linkVars, deskVars
<1>12. CASE MacSendsFrame
  <2>1. PICK message \in Message, answers \in Nat : MacSends(message, answers)
    BY <1>12 DEF MacSendsFrame, Message, TypeOK, Mac
  <2> DEFINE event == [type |-> "FRAME", conn |-> link.conn, secure |-> TRUE,
                       message |-> message, seq |-> mac.seq % SeqMod, answers |-> answers]
  <2>2. event \in Event
    BY SequenceAssumption DEF Event, EventType, TypeOK, Link, Mac, SequenceNumber
  <2>3. HasRoom(1) /\ bleQueue' = Post(bleQueue, event) /\ UNCHANGED <<link, privacy>>
    BY <2>1 DEF MacSends, ReceiveFrame, deskVars
  <2>4. event.type # "CONNECTED"
    OBVIOUS
  <2> HIDE DEF event
  <2> QED BY <2>2, <2>3, <2>4, PostsOther
<1>13. CASE LinkUp
  <2>1. PICK encrypted \in BOOLEAN : GapConnect(encrypted)
    BY <1>13 DEF LinkUp
  <2> DEFINE begin == SimpleEvent("CONNECTED", link', encrypted)
             secured == SimpleEvent("SECURITY_CHANGED", link', TRUE)
             open == privacy.state # "LOCKED"
             idle == ~link.connected
             later == ~link'.connected
  <2>2. link' \in Link /\ link'.connected /\ ~link.connected /\ privacy' = privacy
    <3>1. /\ link' = [link EXCEPT !.connected = TRUE, !.encrypted = encrypted, !.conn = @ + 1]
          /\ ~link.connected
      BY <2>1 DEF GapConnect
    <3>2. privacy' = privacy
      BY <1>13 DEF LinkUp, deskVars
    <3>3. link \in Link
      BY DEF TypeOK
    <3> QED BY <3>1, <3>2, <3>3, ConnectedLink
  <2>3. begin \in Event /\ secured \in Event
    BY <2>2, SimpleEventType DEF EventType
  <2>4. begin.type = "CONNECTED" /\ secured.type = "SECURITY_CHANGED"
    BY DEF SimpleEvent
  <2>5. /\ bleQueue \in Seq(Event) /\ Append(bleQueue, begin) \in Seq(Event)
        /\ Len(bleQueue) \in Nat /\ Len(Append(bleQueue, begin)) = Len(bleQueue) + 1
    BY <2>3 DEF TypeOK
  <2>6. bleQueue' = IF encrypted THEN Append(Append(bleQueue, begin), secured)
                                 ELSE Append(bleQueue, begin)
    <3>1. QueueLength \in Nat
      BY LinkAssumption
    <3>2. Len(bleQueue) + (IF encrypted THEN 2 ELSE 1) <= QueueLength
      BY <2>1 DEF GapConnect, HasRoom
    <3>3. bleQueue' = IF encrypted THEN Post(Post(bleQueue, begin), secured)
                                   ELSE Post(bleQueue, begin)
      BY <2>1 DEF GapConnect
    <3> HIDE DEF begin, secured
    <3> QED BY <2>5, <3>1, <3>2, <3>3 DEF Post
  <2>7. idle /\ ~later /\ Alternates(bleQueue, open, idle)
    BY <2>2 DEF OrderInv
  <2>8. OrderInv' <=> Alternates(bleQueue', open, later)
    BY <2>2 DEF OrderInv
  <2> HIDE DEF begin, secured, open, idle, later
  <2>9. Alternates(Append(bleQueue, begin), open, later)
    BY <2>3, <2>4, <2>5, <2>7, AppendsBegin
  <2>10. Alternates(Append(Append(bleQueue, begin), secured), open, later)
    BY <2>3, <2>4, <2>5, <2>9, AppendsOther
  <2> QED BY <2>6, <2>8, <2>9, <2>10
<1>14. CASE LinkDown
  <2> DEFINE end == SimpleEvent("DISCONNECTED", link, FALSE)
             open == privacy.state # "LOCKED"
             idle == ~link.connected
             later == ~link'.connected
  <2>1. end \in Event /\ end.type = "DISCONNECTED"
    BY SimpleEventType DEF EventType, TypeOK, SimpleEvent
  <2>2. HasRoom(1) /\ bleQueue' = Post(bleQueue, end) /\ link.connected /\ privacy' = privacy
    BY <1>14 DEF LinkDown, GapDisconnect, deskVars
  <2>3. bleQueue' = Append(bleQueue, end) /\ bleQueue \in Seq(Event)
    BY <2>2, PostAppends DEF TypeOK
  <2>4. ~idle /\ Alternates(bleQueue, open, idle)
    BY <2>2 DEF OrderInv
  <2>5. OrderInv' <=> Alternates(bleQueue', open, later)
    BY <2>2 DEF OrderInv
  <2> HIDE DEF end, open, idle, later
  <2> QED BY <2>1, <2>3, <2>4, <2>5, AppendsEnd
<1>15. CASE LinkChanges
  <2>1. PICK event : /\ HasRoom(1) /\ bleQueue' = Post(bleQueue, event)
                     /\ event \in Event /\ event.type # "CONNECTED"
                     /\ link'.connected = link.connected
    <3>1. ASSUME NEW succeeded \in BOOLEAN, GapEncChange(succeeded)
          PROVE  LET event == SimpleEvent("SECURITY_CHANGED", link', succeeded)
                 IN  /\ HasRoom(1) /\ bleQueue' = Post(bleQueue, event)
                     /\ event \in Event /\ event.type # "CONNECTED"
                     /\ link'.connected = link.connected
      <4>1. link' \in Link /\ link'.connected = link.connected
        BY <3>1 DEF GapEncChange, TypeOK, Link
      <4> QED BY <3>1, <4>1, SimpleEventType DEF GapEncChange, EventType, SimpleEvent
    <3>2. ASSUME NEW enabled \in BOOLEAN, GapSubscribe(enabled)
          PROVE  LET event == SimpleEvent("OTHER", link', FALSE)
                 IN  /\ HasRoom(1) /\ bleQueue' = Post(bleQueue, event)
                     /\ event \in Event /\ event.type # "CONNECTED"
                     /\ link'.connected = link.connected
      <4>1. link' \in Link /\ link'.connected = link.connected
        BY <3>2 DEF GapSubscribe, TypeOK, Link
      <4> QED BY <3>2, <4>1, SimpleEventType DEF GapSubscribe, EventType, SimpleEvent
    <3>3. ASSUME GapOther
          PROVE  LET event == SimpleEvent("OTHER", link, FALSE)
                 IN  /\ HasRoom(1) /\ bleQueue' = Post(bleQueue, event)
                     /\ event \in Event /\ event.type # "CONNECTED"
                     /\ link'.connected = link.connected
      BY <3>3, SimpleEventType DEF GapOther, EventType, SimpleEvent, TypeOK
    <3> QED BY <1>15, <3>1, <3>2, <3>3 DEF LinkChanges
  <2>2. privacy' = privacy
    BY <1>15 DEF LinkChanges, deskVars
  <2> QED BY <2>1, <2>2, PostsOther
<1> QED
  BY <1>1, <1>2, <1>4, <1>5, <1>6, <1>7, <1>8, <1>9, <1>10, <1>11, <1>12, <1>13, <1>14, <1>15
  DEF Next, Supervisor, HandleEvent, ApplyActions, Environment

------------------------------------------------------------------------------
(* The panel follows the state                                              *)

Opening == {"BACKLIGHT_ON", "TOUCH_ENABLE", "SHOW_HOME"}

\* What the panel does not have of the state yet, an action of todo is going
\* to bring: in ACTIVE the actions that open, else those that lock.
PanelInv ==
  /\ "SHOW_HOME" \in todo => "TOUCH_ENABLE" \in todo
  /\ panel.private => app.private \/ "TOUCH_DISABLE" \in todo
  /\ app.private => panel.private \/ "TOUCH_DISABLE" \in todo
  /\ privacy.state = "ACTIVE" =>
       /\ todo \subseteq Opening
       /\ panel.backlight \/ "BACKLIGHT_ON" \in todo
       /\ panel.touch \/ "TOUCH_ENABLE" \in todo
  /\ privacy.state # "ACTIVE" =>
       /\ todo \subseteq LockActions \cup {"DISCONNECT_BLE"}
       /\ panel.backlight => "BACKLIGHT_OFF" \in todo
       /\ app.private => "CLEAR_PRIVATE_DATA" \in todo
       /\ "CLEAR_PRIVATE_DATA" \in todo => "TOUCH_DISABLE" \in todo
       /\ ghost.session > 0 /\ panel.touch => "TOUCH_DISABLE" \in todo

LEMMA PanelLocks ==
  ASSUME PanelInv, todo = {}, NEW event \in LockingEvent, NEW now,
         DispatchEvent(event, now), UNCHANGED <<app, panel, ghost>>
  PROVE  PanelInv'
<1>1. privacy'.state = "LOCKED" /\ LockActions \subseteq todo'
      /\ todo' \subseteq LockActions \cup {"DISCONNECT_BLE"}
  BY DispatchLocks DEF DispatchEvent, Locked
<1> QED BY <1>1 DEF PanelInv, LockActions

LEMMA PanelKept ==
  ASSUME PanelInv, UNCHANGED <<todo, app, panel>>, privacy'.state = privacy.state,
         ghost'.session = ghost.session
  PROVE  PanelInv'
  BY DEF PanelInv

LEMMA PanelInductive ==
  TypeOK /\ ~BacklightMayFail /\ OrderInv /\ PanelInv /\ [Next]_vars => PanelInv'
<1> SUFFICES ASSUME TypeOK, ~BacklightMayFail, OrderInv, PanelInv, [Next]_vars
             PROVE  PanelInv'
  OBVIOUS
<1>1. CASE HandleConnected
  <2>1. privacy.state # "ACTIVE"
    <3> DEFINE open == privacy.state # "LOCKED"
               idle == ~link.connected
    <3>1. bleQueue \in Seq(Event) /\ bleQueue # <<>> /\ Head(bleQueue).type = "CONNECTED"
      BY <1>1 DEF HandleConnected, TakeEvent, Taken, TypeOK
    <3>2. Alternates(bleQueue, open, idle)
      BY DEF OrderInv
    <3> HIDE DEF open, idle
    <3>3. ~open
      BY <3>1, <3>2, HeadIsNoBegin
    <3> QED BY <3>3 DEF open
  <2>2. /\ todo = {} /\ panel' = panel /\ app'.private = app.private
        /\ privacy'.state = "AUTHENTICATING"
        /\ todo' = {"BACKLIGHT_OFF", "TOUCH_DISABLE"}
    BY <1>1 DEF HandleConnected, TakeEvent, DispatchEvent, Dispatch, DispatchActions,
       LockingEvent, TypeOK, AppState
  <2> QED BY <2>1, <2>2 DEF PanelInv, LockActions
<1>2. CASE HandleDisconnected \/ HandleMalformedHello \/ HandleAuthFailure \/ HandleLock
  BY <1>2, PanelLocks
  DEF HandleDisconnected, HandleMalformedHello, HandleAuthFailure, HandleLock, LockingEvent,
      TakeFrame, TakeEvent
<1>3. CASE HandleSecurityChanged \/ HandleHello
  <2>1. todo = {} /\ UNCHANGED <<app, panel>> /\ ghost'.session = ghost.session
    BY <1>3 DEF HandleSecurityChanged, HandleHello, TakeFrame, TakeEvent, TypeOK, History
  <2>2. CASE DispatchEvent("AUTH_FAILED", clock)
    <3>1. privacy'.state = "LOCKED" /\ LockActions \subseteq todo'
          /\ todo' \subseteq LockActions \cup {"DISCONNECT_BLE"}
      BY <2>2, DispatchLocks DEF DispatchEvent, Locked, LockingEvent
    <3> QED BY <2>1, <3>1 DEF PanelInv, LockActions
  <2>3. CASE NoDispatch
    BY <2>1, <2>3, PanelKept DEF NoDispatch
  <2> QED BY <1>3, <2>2, <2>3 DEF HandleSecurityChanged, HandleHello
<1>4. CASE HandleOther \/ IgnoreFrame
  BY <1>4, PanelKept DEF HandleOther, IgnoreFrame, NoDispatch
<1>5. CASE HandleAuthSuccess
  <2>1. todo = {} /\ panel' = panel /\ app'.private = app.private
        /\ DispatchEvent("AUTH_SUCCEEDED", clock)
    BY <1>5 DEF HandleAuthSuccess, TakeFrame, TakeEvent, TypeOK, AppState
  <2>2. CASE privacy.state = "AUTHENTICATING"
    <3>1. privacy'.state = "ACTIVE" /\ todo' = Opening
      BY <2>1, <2>2 DEF DispatchEvent, Dispatch, DispatchActions, LockingEvent, Opening
    <3> QED BY <2>1, <2>2, <3>1 DEF PanelInv, Opening
  <2>3. CASE privacy.state # "AUTHENTICATING"
    <3>1. privacy' = privacy /\ todo' = {} /\ ghost' = ghost
      BY <1>5, <2>1, <2>3
      DEF HandleAuthSuccess, DispatchEvent, Dispatch, DispatchActions, LockingEvent
    <3> QED BY <2>1, <3>1 DEF PanelInv
  <2> QED BY <2>2, <2>3
<1>6. CASE HandleHeartbeat
  <2>1. todo = {} /\ UNCHANGED <<app, panel>> /\ DispatchEvent("HEARTBEAT", clock)
        /\ ghost'.session = ghost.session
    BY <1>6 DEF HandleHeartbeat, TakeFrame, TakeEvent, Heard, TypeOK, History
  <2>2. todo' = {} /\ privacy'.state = privacy.state
    BY <2>1 DEF DispatchEvent, Dispatch, DispatchActions, LockingEvent, TypeOK, PrivacyContext
  <2> QED BY <2>1, <2>2, PanelKept
<1>7. CASE HandlePrivateState
  <2>1. /\ todo = {} /\ UNCHANGED <<privacy, todo, ghost>>
        /\ app' = [app EXCEPT !.private = @ \/ StateAllowed]
        /\ panel' = [panel EXCEPT !.private = @ \/ StateAllowed]
    BY <1>7 DEF HandlePrivateState, TakeFrame, TakeEvent, NoDispatch
  <2>2. /\ panel'.backlight = panel.backlight /\ panel'.touch = panel.touch
        /\ app'.private <=> app.private \/ StateAllowed
        /\ panel'.private <=> panel.private \/ StateAllowed
    BY <2>1 DEF TypeOK, AppState, Panel
  <2> QED BY <2>1, <2>2 DEF PanelInv, StateAllowed
<1>8. CASE BacklightOff
  <2>1. /\ "BACKLIGHT_OFF" \in todo /\ todo' = todo \ {"BACKLIGHT_OFF"}
        /\ UNCHANGED <<app, privacy, ghost>>
        /\ ~panel'.backlight /\ panel'.private = panel.private /\ panel'.touch = panel.touch
    BY <1>8 DEF BacklightOff, UnchangedByApply, TypeOK, Panel
  <2> QED BY <2>1 DEF PanelInv, Opening
<1>9. CASE ClearPrivateData
  <2>1. /\ "CLEAR_PRIVATE_DATA" \in todo /\ todo' = todo \ {"CLEAR_PRIVATE_DATA"}
        /\ UNCHANGED <<panel, privacy, ghost>> /\ ~app'.private
    BY <1>9 DEF ClearPrivateData, UnchangedByApply
  <2> QED BY <2>1 DEF PanelInv, Opening
<1>10. CASE UpdateUi
  <2>1. /\ todo \intersect UiActions # {} /\ todo' = todo \ UiActions
        /\ "CLEAR_PRIVATE_DATA" \notin todo /\ "BACKLIGHT_OFF" \notin todo
        /\ UNCHANGED <<app, privacy, ghost>>
    BY <1>10 DEF UpdateUi, UnchangedByApply, UiAfterClear
  <2>2. /\ panel'.backlight = panel.backlight /\ panel'.private = app.private
        /\ panel'.touch <=> "TOUCH_ENABLE" \in todo
    BY <1>10 DEF UpdateUi, TypeOK, Panel
  <2> QED BY <2>1, <2>2 DEF PanelInv, UiActions, Opening, LockActions
<1>11. CASE BacklightOn
  <2>1. /\ "BACKLIGHT_ON" \in todo /\ todo' = todo \ {"BACKLIGHT_ON"}
        /\ UNCHANGED <<app, privacy, ghost>>
        /\ panel'.backlight /\ panel'.private = panel.private /\ panel'.touch = panel.touch
    BY <1>11 DEF BacklightOn, UnchangedByApply, TypeOK, Panel
  <2> QED BY <2>1 DEF PanelInv, LockActions
<1>12. CASE DisconnectBle
  BY <1>12 DEF DisconnectBle, UnchangedByApply, PanelInv, Opening
<1>13. CASE ReceiveTimeout \/ ReadClock \/ HandleUiAction \/ TouchUi
  BY <1>13, PanelKept DEF ReceiveTimeout, ReadClock, HandleUiAction, TouchUi
<1>14. CASE PollTimeouts
  <2>1. todo = {} /\ UNCHANGED <<app, panel>> /\ ghost'.session = ghost.session
    BY <1>14 DEF PollTimeouts, TypeOK, History
  <2>2. ASSUME NEW event \in LockingEvent, DispatchEvent(event, loopNow)
        PROVE  PanelInv'
    <3>1. privacy'.state = "LOCKED" /\ LockActions \subseteq todo'
          /\ todo' \subseteq LockActions \cup {"DISCONNECT_BLE"}
      BY <2>2, DispatchLocks DEF DispatchEvent, Locked
    <3> QED BY <2>1, <3>1 DEF PanelInv, LockActions
  <2>3. CASE UNCHANGED <<privacy, todo>>
    BY <2>1, <2>3, PanelKept
  <2> QED BY <1>14, <2>2, <2>3 DEF PollTimeouts, LockingEvent
<1>15. CASE MacSendsFrame \/ MacGivesUp \/ LinkUp \/ LinkDown \/ LinkChanges \/ Tick
  <2>1. UNCHANGED <<todo, app, panel, privacy>>
    BY <1>15 DEF MacSendsFrame, MacSends, MacGivesUp, LinkUp, LinkDown, LinkChanges, Tick,
       deskVars
  <2>2. ghost'.session = ghost.session
    BY <1>15
    DEF MacSendsFrame, MacSends, MacGivesUp, LinkUp, LinkDown, LinkChanges, Tick, TypeOK, History
  <2> QED BY <2>1, <2>2, PanelKept
<1>16. CASE UNCHANGED vars
  BY <1>16, PanelKept DEF vars, deskVars
<1> QED
  BY <1>1, <1>2, <1>3, <1>4, <1>5, <1>6, <1>7, <1>8, <1>9, <1>10, <1>11, <1>12, <1>13,
     <1>14, <1>15, <1>16
  DEF Next, Supervisor, HandleEvent, ApplyActions, Environment

LEMMA FollowInit == Init => OrderInv /\ PanelInv
<1> SUFFICES ASSUME Init PROVE OrderInv /\ PanelInv
  OBVIOUS
<1>1. bleQueue = <<>> /\ privacy.state = "LOCKED" /\ Len(bleQueue) = 0
  BY DEF Init, LinkInit, InitialContext
<1>2. OrderInv
  BY <1>1 DEF OrderInv, Alternates, Begins
<1>3. PanelInv
  BY <1>1 DEF Init, PanelInv
<1> QED BY <1>2, <1>3

\* As long as the event queue has room and the backlight's switch works: once
\* the actions of an event are carried out, the screen is lit, private data is
\* there and the touch is live exactly in ACTIVE, for both kinds of peer and
\* any timeouts (supervisor_task, desk_privacy_dispatch, apply_privacy_actions).
THEOREM PanelFollows ==
  ~DropsAllowed /\ ~BacklightMayFail => (Spec => []PanelFollowsState)
<1> SUFFICES ASSUME ~DropsAllowed, ~BacklightMayFail PROVE Spec => []PanelFollowsState
  OBVIOUS
<1>1. Init => TypeOK /\ OrderInv /\ PanelInv
  BY TypeInit, FollowInit
<1>2. TypeOK /\ OrderInv /\ PanelInv /\ [Next]_vars => TypeOK' /\ OrderInv' /\ PanelInv'
  BY TypeInductive, OrderInductive, PanelInductive
<1>3. TypeOK /\ PanelInv => PanelFollowsState
  BY DEF PanelInv, PanelFollowsState
<1> QED BY <1>1, <1>2, <1>3, PTL DEF Spec
------------------------------------------------------------------------------
(* Timeouts on a counter that wraps                                         *)

LEMMA Modulo ==
  ASSUME NEW m \in Nat \ {0}, NEW x \in 0 .. m - 1
  PROVE  x % m = x /\ (x - m) % m = x /\ m % m = 0
  OBVIOUS

\* The subtraction modulo the counter's width.
LEMMA ElapsedValue ==
  ASSUME NEW later \in Time, NEW earlier \in Time
  PROVE  Elapsed(later, earlier) = IF earlier <= later THEN later - earlier
                                   ELSE later - earlier + ClockMod
<1>1. ClockMod \in Nat \ {0}
  BY PrivacyAssumption
<1>2. CASE earlier <= later
  <2>1. later - earlier \in 0 .. ClockMod - 1
    BY <1>1, <1>2
  <2> QED BY <1>1, <1>2, <2>1, Modulo DEF Elapsed
<1>3. CASE ~(earlier <= later)
  <2> DEFINE d == later - earlier + ClockMod
  <2>1. d \in 0 .. ClockMod - 1 /\ d - ClockMod = later - earlier
    BY <1>1, <1>3
  <2>2. (d - ClockMod) % ClockMod = d
    <3> HIDE DEF d
    <3> QED BY <1>1, <2>1, Modulo
  <2> QED BY <1>3, <2>1, <2>2 DEF Elapsed
<1> QED BY <1>2, <1>3

LEMMA NextTime ==
  ASSUME NEW now \in Time
  PROVE  (now + 1) % ClockMod = IF now + 1 = ClockMod THEN 0 ELSE now + 1
<1>1. ClockMod \in Nat \ {0}
  BY PrivacyAssumption
<1>2. CASE now + 1 = ClockMod
  BY <1>1, <1>2, Modulo
<1>3. CASE now + 1 # ClockMod
  <2>1. now + 1 \in 0 .. ClockMod - 1
    BY <1>1, <1>3
  <2> QED BY <1>1, <1>3, <2>1, Modulo
<1> QED BY <1>2, <1>3

\* A tick later, the time elapsed is one more, or 0 because the counter wrapped.
LEMMA ElapsedTick ==
  ASSUME NEW now \in Time, NEW since \in Time
  PROVE  LET next == (now + 1) % ClockMod
         IN  /\ next \in Time
             /\ Elapsed(next, since) \in Nat
             /\ Elapsed(next, since) <= Elapsed(now, since) + 1
             /\ Elapsed(now, since) + 1 < ClockMod =>
                  Elapsed(next, since) = Elapsed(now, since) + 1
<1>1. ClockMod \in Nat \ {0}
  BY PrivacyAssumption
<1> DEFINE next == (now + 1) % ClockMod
<1>2. next = IF now + 1 = ClockMod THEN 0 ELSE now + 1
  BY NextTime
<1> HIDE DEF next
<1>3. next \in Time
  BY <1>1, <1>2
<1>4. /\ Elapsed(next, since) = IF since <= next THEN next - since ELSE next - since + ClockMod
      /\ Elapsed(now, since) = IF since <= now THEN now - since ELSE now - since + ClockMod
  BY <1>3, ElapsedValue
<1>5. Elapsed(next, since) \in Nat
  BY <1>1, <1>3, <1>4
<1>6. Elapsed(next, since) <= Elapsed(now, since) + 1
  BY <1>1, <1>2, <1>3, <1>4
<1>7. Elapsed(now, since) + 1 < ClockMod => Elapsed(next, since) = Elapsed(now, since) + 1
  BY <1>1, <1>2, <1>3, <1>4
<1> QED BY <1>3, <1>5, <1>6, <1>7 DEF next

LEMMA ElapsedNat ==
  ASSUME NEW later \in Time, NEW earlier \in Time
  PROVE  Elapsed(later, earlier) \in Nat
  BY ElapsedValue, PrivacyAssumption

LEMMA NoneElapsed ==
  ASSUME NEW now \in Time
  PROVE  Elapsed(now, now) = 0
  BY ElapsedValue, PrivacyAssumption

------------------------------------------------------------------------------
(* What a step does to the times                                            *)

\* A session or a connection begins, or a heartbeat comes.
Restarts ==
  /\ clock' = clock
  /\ pc' = "handled"
  /\ ghost'.silence = 0
  /\ ghost'.ticks = ghost.ticks
  /\ privacy'.state = "ACTIVE" => privacy'.lastHeartbeat = clock
  /\ privacy'.state = "AUTHENTICATING" => authStarted' = clock

\* Nothing begins; what ran before goes on, or ends.
GoesOn ==
  /\ clock' = clock
  /\ pc' = "drain" => pc = "drain" /\ loopNow' = loopNow
  /\ ghost'.silence = ghost.silence
  /\ ghost'.ticks = ghost.ticks
  /\ \/ privacy'.state = "LOCKED"
     \/ privacy' = privacy /\ authStarted' \in {0, authStarted}

LEMMA LockedState == Locked.state = "LOCKED"
BY DEF Locked

LEMMA OnTaken ==
  ASSUME TakeEvent
  PROVE  clock' = clock /\ pc' = "handled"
BY DEF TakeEvent

LEMMA HeardTimes ==
  ASSUME NEW h \in History
  PROVE  Heard(h).silence = 0 /\ Heard(h).ticks = h.ticks
BY DEF Heard, History

LEMMA OtherTimes ==
  ASSUME NEW h \in History, NEW n
  PROVE  /\ [h EXCEPT !.challenges = n].silence = h.silence
         /\ [h EXCEPT !.challenges = n].ticks = h.ticks
         /\ [h EXCEPT !.down = n].silence = h.silence
         /\ [h EXCEPT !.down = n].ticks = h.ticks
BY DEF History

LEMMA TimeStep ==
  ASSUME TypeOK, [Next]_vars
  PROVE  Restarts \/ GoesOn \/ ReadClock \/ PollTimeouts \/ Tick
<1>1. ghost \in History /\ privacy \in PrivacyContext
  BY DEF TypeOK
<1>2. CASE HandleConnected
  <2>1. ghost'.silence = 0 /\ ghost'.ticks = ghost.ticks
    BY <1>1, <1>2, HeardTimes DEF HandleConnected
  <2>2. privacy'.state = "AUTHENTICATING" /\ authStarted' = clock
    BY <1>2 DEF HandleConnected, DispatchEvent, Dispatch, LockingEvent
  <2> QED BY <1>2, <2>1, <2>2, OnTaken DEF HandleConnected, Restarts
<1>3. CASE HandleDisconnected
  <2>1. privacy'.state = "LOCKED"
    BY <1>3, DispatchLocks, LockedState DEF HandleDisconnected, DispatchEvent, LockingEvent
  <2> QED BY <1>3, <2>1, OnTaken DEF HandleDisconnected, GoesOn
<1>4. CASE HandleSecurityChanged
  <2>1. privacy'.state = "LOCKED" \/ (privacy' = privacy /\ authStarted' = authStarted)
    BY <1>4, DispatchLocks, LockedState
    DEF HandleSecurityChanged, DispatchEvent, NoDispatch, LockingEvent
  <2> QED BY <1>4, <2>1, OnTaken DEF HandleSecurityChanged, GoesOn
<1>5. CASE HandleOther \/ IgnoreFrame
  BY <1>5, OnTaken DEF HandleOther, IgnoreFrame, NoDispatch, GoesOn
<1>6. CASE HandleHello
  <2>1. ghost'.silence = ghost.silence /\ ghost'.ticks = ghost.ticks
    BY <1>1, <1>6, OtherTimes DEF HandleHello
  <2>2. privacy'.state = "LOCKED" \/ (privacy' = privacy /\ authStarted' = authStarted)
    BY <1>6, DispatchLocks, LockedState
    DEF HandleHello, DispatchEvent, NoDispatch, LockingEvent
  <2> QED BY <1>6, <2>1, <2>2, OnTaken DEF HandleHello, TakeFrame, GoesOn
<1>7. CASE HandleMalformedHello \/ HandleAuthFailure \/ HandleLock
  <2>1. privacy'.state = "LOCKED" /\ TakeEvent /\ ghost' = ghost
    BY <1>7, DispatchLocks, LockedState
    DEF HandleMalformedHello, HandleAuthFailure, HandleLock, TakeFrame, DispatchEvent,
        LockingEvent
  <2> QED BY <2>1, OnTaken DEF GoesOn
<1>8. CASE HandleAuthSuccess
  <2>1. TakeEvent /\ authStarted' = 0 /\ privacy' = Dispatch(privacy, "AUTH_SUCCEEDED", clock)
    BY <1>8 DEF HandleAuthSuccess, TakeFrame, DispatchEvent
  <2>2. CASE privacy.state = "AUTHENTICATING"
    <3>1. privacy' = [state |-> "ACTIVE", lastHeartbeat |-> clock]
      BY <2>1, <2>2 DEF Dispatch, LockingEvent
    <3>2. ghost' = [Heard(ghost) EXCEPT !.session = @ + 1, !.verified = Taken.conn]
      BY <1>8, <2>2 DEF HandleAuthSuccess
    <3>3. Heard(ghost) \in History
      BY <1>1, HeardType
    <3>4. ghost'.silence = 0 /\ ghost'.ticks = ghost.ticks
      BY <1>1, <3>2, <3>3, HeardTimes DEF History
    <3> QED BY <2>1, <3>1, <3>4, OnTaken DEF Restarts
  <2>3. CASE privacy.state # "AUTHENTICATING"
    <3>1. privacy' = privacy /\ ghost' = ghost
      BY <1>8, <2>1, <2>3 DEF HandleAuthSuccess, Dispatch, LockingEvent
    <3> QED BY <2>1, <3>1, OnTaken DEF GoesOn
  <2> QED BY <2>2, <2>3
<1>9. CASE HandleHeartbeat
  <2>1. TakeEvent /\ authStarted' = authStarted
        /\ privacy' = Dispatch(privacy, "HEARTBEAT", clock)
    BY <1>9 DEF HandleHeartbeat, TakeFrame, DispatchEvent
  <2>2. CASE privacy.state = "ACTIVE"
    <3>1. privacy'.state = "ACTIVE" /\ privacy'.lastHeartbeat = clock
      BY <1>1, <2>1, <2>2 DEF Dispatch, LockingEvent, PrivacyContext
    <3>2. ghost'.silence = 0 /\ ghost'.ticks = ghost.ticks
      BY <1>1, <1>9, <2>2, HeardTimes DEF HandleHeartbeat
    <3> QED BY <2>1, <3>1, <3>2, OnTaken DEF Restarts
  <2>3. CASE privacy.state # "ACTIVE"
    <3>1. privacy' = privacy /\ ghost' = ghost
      BY <1>9, <2>1, <2>3 DEF HandleHeartbeat, Dispatch, LockingEvent
    <3> QED BY <2>1, <3>1, OnTaken DEF GoesOn
  <2> QED BY <2>2, <2>3
<1>10. CASE HandlePrivateState
  BY <1>10, OnTaken DEF HandlePrivateState, TakeFrame, NoDispatch, GoesOn
<1>11. CASE ApplyActions
  BY <1>11 DEF ApplyActions, BacklightOff, ClearPrivateData, UpdateUi, BacklightOn,
               DisconnectBle, UnchangedByApply, GoesOn
<1>12. CASE ReceiveTimeout \/ HandleUiAction
  BY <1>12 DEF ReceiveTimeout, HandleUiAction, GoesOn
<1>13. CASE TouchUi \/ MacSendsFrame \/ MacGivesUp \/ LinkUp \/ LinkChanges
  <2>1. UNCHANGED <<deskVars, clock, ghost>> \/ TouchUi
    BY <1>13 DEF MacSendsFrame, MacSends, MacGivesUp, LinkUp, LinkChanges
  <2> QED BY <2>1 DEF TouchUi, deskVars, GoesOn
<1>14. CASE LinkDown
  <2>1. ghost'.silence = ghost.silence /\ ghost'.ticks = ghost.ticks
    BY <1>1, <1>14, OtherTimes DEF LinkDown
  <2> QED BY <1>14, <2>1 DEF LinkDown, deskVars, GoesOn
<1>15. CASE UNCHANGED vars
  BY <1>15 DEF vars, deskVars, GoesOn
<1> QED
  BY <1>2, <1>3, <1>4, <1>5, <1>6, <1>7, <1>8, <1>9, <1>10, <1>11, <1>12, <1>13, <1>14, <1>15
  DEF Next, Supervisor, HandleEvent, Environment

------------------------------------------------------------------------------
(* No poll comes too early                                                  *)

\* What has gone by since a time is no more than the silence, as long as the
\* silence is counted.
NotEarly(since) ==
  \/ ghost.silence >= SilenceCap
  \/ /\ Elapsed(clock, since) <= ghost.silence
     /\ pc = "drain" => Elapsed(loopNow, since) <= ghost.silence

SilenceInv ==
  /\ privacy.state = "ACTIVE" => NotEarly(privacy.lastHeartbeat)
  /\ privacy.state = "AUTHENTICATING" /\ authStarted # 0 => NotEarly(authStarted)

\* The times, and the cap on the silence.
LEMMA TimesType ==
  ASSUME TypeOK
  PROVE  /\ clock \in Time /\ loopNow \in Time /\ authStarted \in Time
         /\ privacy.lastHeartbeat \in Time
         /\ ghost.silence \in Nat /\ ghost.ticks \in Nat
         /\ SilenceCap \in Nat
         /\ HeartbeatTimeout + 2 * MaxLoopTicks < SilenceCap
         /\ AuthTimeout < SilenceCap
<1>1. privacy.lastHeartbeat \in Time
  BY DEF TypeOK, PrivacyContext
<1>2. /\ SilenceCap \in Nat
      /\ HeartbeatTimeout + 2 * MaxLoopTicks < SilenceCap
      /\ AuthTimeout < SilenceCap
  BY PrivacyAssumption, SessionAssumption DEF SilenceCap, LongerTimeout
<1> QED BY <1>1, <1>2, HistoryFields DEF TypeOK

LEMMA TickTimes ==
  ASSUME TypeOK, Tick
  PROVE  /\ clock' = (clock + 1) % ClockMod
         /\ ghost.ticks < MaxLoopTicks /\ ghost'.ticks = ghost.ticks + 1
         /\ ghost'.silence = IF ghost.silence < SilenceCap THEN ghost.silence + 1
                             ELSE ghost.silence
         /\ UNCHANGED <<pc, privacy, authStarted, loopNow>>
<1> DEFINE silence == IF ghost.silence < SilenceCap THEN ghost.silence + 1 ELSE ghost.silence
           down == IF ghost.down < DownCap /\ ~link.connected THEN ghost.down + 1
                   ELSE ghost.down
<1>1. ghost' = [ghost EXCEPT !.ticks = ghost.ticks + 1, !.silence = silence, !.down = down]
  BY DEF Tick
<1> HIDE DEF silence, down
<1>2. ghost'.ticks = ghost.ticks + 1 /\ ghost'.silence = silence
  BY <1>1 DEF TypeOK, History
<1> QED BY <1>2 DEF Tick, silence, deskVars

LEMMA SilenceInductive == TypeOK /\ SilenceInv /\ [Next]_vars => SilenceInv'
<1> SUFFICES ASSUME TypeOK, SilenceInv, [Next]_vars PROVE SilenceInv'
  OBVIOUS
<1>1. CASE Restarts
  <2>1. Elapsed(clock', clock) = 0 /\ ghost'.silence = 0 /\ pc' # "drain"
    BY <1>1, TimesType, NoneElapsed DEF Restarts
  <2>2. ASSUME NEW since, since = clock PROVE NotEarly(since)'
    BY <2>1, <2>2, <1>1 DEF NotEarly, Restarts
  <2> QED BY <1>1, <2>2 DEF Restarts, SilenceInv, NotEarly
<1>2. CASE GoesOn
  BY <1>2 DEF GoesOn, SilenceInv, NotEarly, SilenceCap, LongerTimeout
<1>3. CASE ReadClock
  BY <1>3 DEF ReadClock, SilenceInv, NotEarly, SilenceCap, LongerTimeout
<1>4. CASE PollTimeouts
  <2>1. clock' = clock /\ pc' # "drain" /\ ghost'.silence = ghost.silence
    BY <1>4 DEF PollTimeouts, TypeOK, History
  <2>2. privacy'.state = "LOCKED" \/ (privacy' = privacy /\ authStarted' = authStarted)
    BY <1>4, DispatchLocks, LockedState DEF PollTimeouts, DispatchEvent, LockingEvent
  <2> QED BY <2>1, <2>2 DEF SilenceInv, NotEarly, SilenceCap, LongerTimeout
<1>5. CASE Tick
  <2>1. ASSUME NEW since \in Time, NotEarly(since) PROVE NotEarly(since)'
    <3>1. /\ Elapsed(clock', since) <= Elapsed(clock, since) + 1
          /\ Elapsed(clock', since) \in Nat
          /\ Elapsed(clock, since) \in Nat /\ Elapsed(loopNow, since) \in Nat
      BY <1>5, TimesType, TickTimes, ElapsedTick, ElapsedNat
    <3>2. UNCHANGED <<pc, loopNow>> /\ SilenceCap' = SilenceCap
      BY <1>5, TickTimes DEF SilenceCap, LongerTimeout
    <3>3. CASE ghost.silence >= SilenceCap
      BY <1>5, <3>2, <3>3, TimesType, TickTimes DEF NotEarly
    <3>4. CASE ghost.silence < SilenceCap
      <4>1. ghost'.silence = ghost.silence + 1 /\ ghost.silence \in Nat /\ SilenceCap \in Nat
        BY <1>5, <3>4, TimesType, TickTimes
      <4>2. Elapsed(clock', since) <= ghost'.silence
        BY <2>1, <3>1, <3>4, <4>1 DEF NotEarly
      <4>3. pc' = "drain" => Elapsed(loopNow', since) <= ghost'.silence
        BY <2>1, <3>1, <3>2, <3>4, <4>1 DEF NotEarly
      <4> QED BY <4>2, <4>3 DEF NotEarly
    <3> QED BY <3>3, <3>4, TimesType
  <2>2. UNCHANGED <<privacy, authStarted>>
    BY <1>5, TickTimes
  <2> QED BY <2>1, <2>2, TimesType DEF SilenceInv
<1> QED BY <1>1, <1>2, <1>3, <1>4, <1>5, TimeStep

\* Only the poll locks at the end of a round.
LEMMA PollLocks ==
  ASSUME TypeOK, SilenceInv, [Next]_vars, pc = "drain",
         privacy.state # "LOCKED", privacy'.state = "LOCKED"
  PROVE  ghost.silence > IF privacy.state = "ACTIVE" THEN HeartbeatTimeout ELSE AuthTimeout
<1>1. CASE PollTimeouts
  <2>1. CASE HeartbeatOverdue(privacy, loopNow)
    BY <2>1, TimesType, ElapsedNat, PrivacyAssumption, SessionAssumption
    DEF HeartbeatOverdue, SilenceInv, NotEarly
  <2>2. CASE AuthOverdue
    BY <2>2, TimesType, ElapsedNat, PrivacyAssumption, SessionAssumption
    DEF AuthOverdue, SilenceInv, NotEarly
  <2>3. CASE UNCHANGED privacy
    BY <2>3
  <2> QED BY <1>1, <2>1, <2>2, <2>3 DEF PollTimeouts
<1>2. CASE UNCHANGED privacy
  BY <1>2
<1>3. ~TakeEvent
  BY DEF TakeEvent
<1>4. PollTimeouts \/ UNCHANGED privacy
  BY <1>3
  DEF Next, Supervisor, HandleEvent, Environment, vars, deskVars,
      HandleConnected, HandleDisconnected, HandleSecurityChanged, HandleOther, IgnoreFrame,
      TakeFrame, HandleHello, HandleMalformedHello, HandleAuthSuccess, HandleAuthFailure,
      HandleHeartbeat, HandleLock, HandlePrivateState,
      ApplyActions, BacklightOff, ClearPrivateData, UpdateUi, BacklightOn, DisconnectBle,
      UnchangedByApply, ReceiveTimeout, ReadClock, HandleUiAction, TouchUi, MacSendsFrame,
      MacSends, MacGivesUp, LinkUp, LinkDown, LinkChanges, Tick
<1> QED BY <1>1, <1>2, <1>4

\* The poll never locks before the full timeout, although the counter wraps
\* and now_ms is older than the clock: for all timeouts and every width of
\* the counter (desk_privacy_poll and the limit on the authentication,
\* app_main.c).
THEOREM NoneTooEarly == Spec => NoSpuriousTimeout
<1>1. Init => TypeOK /\ SilenceInv
  BY TypeInit DEF Init, InitialContext, SilenceInv
<1>2. TypeOK /\ SilenceInv /\ [Next]_vars => TypeOK' /\ SilenceInv'
  BY TypeInductive, SilenceInductive
<1>3. TypeOK /\ SilenceInv /\ [Next]_vars =>
        [pc = "drain" /\ privacy.state # "LOCKED" /\ privacy'.state = "LOCKED" =>
           ghost.silence > IF privacy.state = "ACTIVE" THEN HeartbeatTimeout
                                                       ELSE AuthTimeout]_vars
  BY PollLocks
<1> QED BY <1>1, <1>2, <1>3, PTL DEF Spec, NoSpuriousTimeout
------------------------------------------------------------------------------
(* No poll comes too late                                                   *)

\* In a session the silence is what has gone by since the last heartbeat, and
\* loopNow is behind by no more than the ticks of the round.
OverdueInv ==
  /\ ghost.ticks <= MaxLoopTicks
  /\ privacy.state = "ACTIVE" =>
       /\ Elapsed(clock, privacy.lastHeartbeat) = ghost.silence
       /\ ghost.silence <= HeartbeatTimeout + MaxLoopTicks + ghost.ticks
       /\ pc = "drain" =>
            ghost.silence <= Elapsed(loopNow, privacy.lastHeartbeat) + ghost.ticks

LEMMA OverdueInductive ==
  ASSUME HeartbeatTimeout # 0, ClockMod > HeartbeatTimeout + 2 * MaxLoopTicks
  PROVE  TypeOK /\ OverdueInv /\ [Next]_vars => OverdueInv'
<1> SUFFICES ASSUME TypeOK, OverdueInv, [Next]_vars PROVE OverdueInv'
  OBVIOUS
<1> USE PrivacyAssumption, SessionAssumption
<1>1. CASE Restarts
  <2>1. Elapsed(clock', clock) = 0 /\ ghost'.silence = 0 /\ pc' # "drain"
        /\ ghost'.ticks = ghost.ticks
    BY <1>1, TimesType, NoneElapsed DEF Restarts
  <2> QED BY <1>1, <2>1, TimesType DEF Restarts, OverdueInv
<1>2. CASE GoesOn
  BY <1>2 DEF GoesOn, OverdueInv
<1>3. CASE ReadClock
  <2>1. UNCHANGED <<clock, privacy, ghost>> /\ loopNow' = clock
    BY <1>3 DEF ReadClock
  <2> QED BY <2>1, TimesType DEF OverdueInv
<1>4. CASE PollTimeouts
  <2>1. clock' = clock /\ pc' # "drain" /\ ghost'.silence = ghost.silence
        /\ ghost'.ticks = 0
    BY <1>4 DEF PollTimeouts, TypeOK, History
  <2>2. privacy'.state = "LOCKED"
        \/ (privacy' = privacy /\ ~HeartbeatOverdue(privacy, loopNow))
    BY <1>4, DispatchLocks, LockedState DEF PollTimeouts, DispatchEvent, LockingEvent
  <2>3. CASE privacy'.state = "LOCKED"
    BY <2>1, <2>3 DEF OverdueInv
  <2>4. CASE privacy' = privacy /\ ~HeartbeatOverdue(privacy, loopNow) /\ privacy.state = "ACTIVE"
    <3>1. Elapsed(loopNow, privacy.lastHeartbeat) <= HeartbeatTimeout
      BY <2>4, TimesType, ElapsedNat DEF HeartbeatOverdue
    <3>2. ghost.silence <= HeartbeatTimeout + MaxLoopTicks
      BY <1>4, <2>4, <3>1, TimesType, ElapsedNat DEF OverdueInv, PollTimeouts
    <3> QED BY <2>1, <2>4, <3>2, TimesType DEF OverdueInv
  <2> QED BY <2>1, <2>2, <2>3, <2>4 DEF OverdueInv
<1>5. CASE Tick
  <2>1. /\ ghost.ticks < MaxLoopTicks /\ ghost'.ticks = ghost.ticks + 1
        /\ UNCHANGED <<pc, privacy, loopNow>>
    BY <1>5, TickTimes
  <2>2. CASE privacy.state = "ACTIVE"
    <3> DEFINE since == privacy.lastHeartbeat
    <3>1. /\ Elapsed(clock, since) = ghost.silence
          /\ ghost.silence <= HeartbeatTimeout + MaxLoopTicks + ghost.ticks
      BY <2>2 DEF OverdueInv
    <3>2. ghost.silence < SilenceCap /\ ghost.silence + 1 < ClockMod
      BY <2>1, <3>1, TimesType
    <3>3. ghost'.silence = ghost.silence + 1
      BY <1>5, <3>2, TickTimes
    <3>4. Elapsed(clock', since) = ghost.silence + 1
      BY <1>5, <3>1, <3>2, TimesType, TickTimes, ElapsedTick, SMTT(30)
    <3>5. pc' = "drain" => ghost'.silence <= Elapsed(loopNow', since) + ghost'.ticks
      BY <2>1, <2>2, <3>3, TimesType, ElapsedNat DEF OverdueInv
    <3> QED BY <2>1, <3>1, <3>3, <3>4, <3>5, TimesType DEF OverdueInv
  <2> QED BY <2>1, <2>2, TimesType DEF OverdueInv
<1> QED BY <1>1, <1>2, <1>3, <1>4, <1>5, TimeStep

\* A session ends at most the timeout and two rounds of the loop after its last
\* heartbeat, if there is a timeout and the counter is wide enough to tell that
\* much time from none; whatever events were lost (the poll at the end of
\* supervisor_task's loop, app_main.c).
THEOREM SilenceEnds ==
  HeartbeatTimeout # 0 /\ ClockMod > HeartbeatTimeout + 2 * MaxLoopTicks
    => (Spec => []SilenceBounded)
<1> SUFFICES ASSUME HeartbeatTimeout # 0, ClockMod > HeartbeatTimeout + 2 * MaxLoopTicks
             PROVE  Spec => []SilenceBounded
  OBVIOUS
<1>1. Init => TypeOK /\ OverdueInv
  BY TypeInit, SessionAssumption DEF Init, InitialContext, OverdueInv
<1>2. TypeOK /\ OverdueInv /\ [Next]_vars => TypeOK' /\ OverdueInv'
  BY TypeInductive, OverdueInductive
<1>3. TypeOK /\ OverdueInv => SilenceBounded
  BY TimesType, PrivacyAssumption, SessionAssumption DEF OverdueInv, SilenceBounded
<1> QED BY <1>1, <1>2, <1>3, PTL DEF Spec
------------------------------------------------------------------------------
(* Frames and the connections they came over                                *)

FrameAt(queue, i) == i \in 1 .. Len(queue) /\ queue[i].type = "FRAME"

\* From i to k no connection ends.
Unbroken(queue, i, k) == \A j \in i .. k : queue[j].type # "DISCONNECTED"

\* Frames that no end of a connection separates came over one connection: the
\* current one if none follows, and the verified one if a session is active
\* and none comes before.
OneConnection(queue, now, active, verified) ==
  /\ \A i, k \in 1 .. Len(queue) :
       i < k /\ FrameAt(queue, i) /\ FrameAt(queue, k) /\ Unbroken(queue, i, k) =>
         queue[i].conn = queue[k].conn
  /\ \A i \in 1 .. Len(queue) :
       FrameAt(queue, i) /\ Unbroken(queue, i, Len(queue)) =>
         now.connected /\ queue[i].conn = now.conn
  /\ active =>
       \A k \in 1 .. Len(queue) :
         FrameAt(queue, k) /\ Unbroken(queue, 1, k) => queue[k].conn = verified
  /\ active /\ Unbroken(queue, 1, Len(queue)) => now.connected /\ now.conn = verified

ConnInv == OneConnection(bleQueue, link, privacy.state = "ACTIVE", ghost.verified)

\* What Append leaves of the queue.
LEMMA LongerQueue ==
  ASSUME NEW queue \in Seq(Event), NEW event \in Event
  PROVE  LET longer == Append(queue, event)
             n == Len(queue)
         IN  /\ n \in Nat /\ Len(longer) = n + 1
             /\ longer[n + 1] = event
             /\ \A i \in 1 .. n : FrameAt(longer, i) <=> FrameAt(queue, i)
             /\ \A i \in 1 .. n : longer[i] = queue[i]
             /\ FrameAt(longer, n + 1) <=> event.type = "FRAME"
             /\ \A i \in 1 .. n, k \in 1 .. n : Unbroken(longer, i, k) <=> Unbroken(queue, i, k)
             /\ \A i \in 1 .. n + 1 : Unbroken(longer, i, n + 1) <=>
                  Unbroken(queue, i, n) /\ event.type # "DISCONNECTED"
<1> DEFINE longer == Append(queue, event)
           n == Len(queue)
<1>1. /\ n \in Nat /\ Len(longer) = n + 1
      /\ \A i \in 1 .. n : longer[i] = queue[i]
      /\ longer[n + 1] = event
  BY AppendedEvent
<1>2. n = Len(queue)
  OBVIOUS
<1> HIDE DEF longer, n
<1>3. \A i \in 1 .. n : FrameAt(longer, i) <=> FrameAt(queue, i)
  BY <1>1, <1>2 DEF FrameAt
<1>4. FrameAt(longer, n + 1) <=> event.type = "FRAME"
  BY <1>1 DEF FrameAt
<1>5. \A i \in 1 .. n, k \in 1 .. n : Unbroken(longer, i, k) <=> Unbroken(queue, i, k)
  BY <1>1 DEF Unbroken
<1>6. ASSUME NEW i \in 1 .. n + 1
      PROVE  Unbroken(longer, i, n + 1) <=>
               Unbroken(queue, i, n) /\ event.type # "DISCONNECTED"
  <2>1. ASSUME Unbroken(longer, i, n + 1)
        PROVE  Unbroken(queue, i, n) /\ event.type # "DISCONNECTED"
    BY <1>1, <2>1 DEF Unbroken
  <2>2. ASSUME Unbroken(queue, i, n), event.type # "DISCONNECTED"
        PROVE  Unbroken(longer, i, n + 1)
    <3> SUFFICES ASSUME NEW j \in i .. n + 1 PROVE longer[j].type # "DISCONNECTED"
      BY DEF Unbroken
    <3>1. CASE j = n + 1
      BY <1>1, <2>2, <3>1
    <3>2. CASE j # n + 1
      BY <1>1, <2>2, <3>2 DEF Unbroken
    <3> QED BY <3>1, <3>2
  <2> QED BY <2>1, <2>2
<1> QED BY <1>1, <1>2, <1>3, <1>4, <1>5, <1>6 DEF longer, n

\* An event of the current connection, or one that is no frame.
LEMMA AppendsSame ==
  ASSUME NEW queue \in Seq(Event), NEW event \in Event, NEW now, NEW new,
         NEW active, NEW verified,
         event.type # "DISCONNECTED",
         event.type = "FRAME" => now.connected /\ event.conn = now.conn,
         now.connected => new.connected /\ new.conn = now.conn,
         OneConnection(queue, now, active, verified)
  PROVE  OneConnection(Append(queue, event), new, active, verified)
<1> DEFINE longer == Append(queue, event)
           n == Len(queue)
<1>1. /\ n \in Nat /\ Len(longer) = n + 1
      /\ longer[n + 1] = event
      /\ \A i \in 1 .. n : FrameAt(longer, i) <=> FrameAt(queue, i)
      /\ \A i \in 1 .. n : longer[i] = queue[i]
      /\ FrameAt(longer, n + 1) <=> event.type = "FRAME"
      /\ \A i \in 1 .. n, k \in 1 .. n : Unbroken(longer, i, k) <=> Unbroken(queue, i, k)
      /\ \A i \in 1 .. n + 1 : Unbroken(longer, i, n + 1) <=> Unbroken(queue, i, n)
  BY LongerQueue
<1>2. /\ \A i, k \in 1 .. n :
           i < k /\ FrameAt(queue, i) /\ FrameAt(queue, k) /\ Unbroken(queue, i, k) =>
             queue[i].conn = queue[k].conn
      /\ \A i \in 1 .. n :
           FrameAt(queue, i) /\ Unbroken(queue, i, n) =>
             now.connected /\ queue[i].conn = now.conn
      /\ active =>
           \A k \in 1 .. n :
             FrameAt(queue, k) /\ Unbroken(queue, 1, k) => queue[k].conn = verified
      /\ active /\ Unbroken(queue, 1, n) => now.connected /\ now.conn = verified
  BY DEF OneConnection
<1> HIDE DEF longer, n
<1>3. ASSUME NEW i \in 1 .. n + 1, NEW k \in 1 .. n + 1,
             i < k, FrameAt(longer, i), FrameAt(longer, k), Unbroken(longer, i, k)
      PROVE  longer[i].conn = longer[k].conn
  <2>1. i \in 1 .. n
    BY <1>1, <1>3
  <2>2. CASE k = n + 1
    BY <1>1, <1>2, <1>3, <2>1, <2>2
  <2>3. CASE k # n + 1
    <3>1. k \in 1 .. n
      BY <1>1, <2>3
    <3> QED BY <1>1, <1>2, <1>3, <2>1, <3>1
  <2> QED BY <2>2, <2>3
<1>4. ASSUME NEW i \in 1 .. n + 1, FrameAt(longer, i), Unbroken(longer, i, n + 1)
      PROVE  new.connected /\ longer[i].conn = new.conn
  <2>1. CASE i = n + 1
    BY <1>1, <1>4, <2>1
  <2>2. CASE i # n + 1
    <3>1. i \in 1 .. n
      BY <1>1, <2>2
    <3> QED BY <1>1, <1>2, <1>4, <3>1
  <2> QED BY <2>1, <2>2
<1>5. ASSUME active, NEW k \in 1 .. n + 1, FrameAt(longer, k), Unbroken(longer, 1, k)
      PROVE  longer[k].conn = verified
  <2>1. CASE k = n + 1
    <3>1. Unbroken(queue, 1, n)
      BY <1>1, <1>5, <2>1
    <3> QED BY <1>1, <1>2, <1>5, <2>1, <3>1
  <2>2. CASE k # n + 1
    <3>1. k \in 1 .. n /\ 1 \in 1 .. n
      BY <1>1, <2>2
    <3> QED BY <1>1, <1>2, <1>5, <3>1
  <2> QED BY <2>1, <2>2
<1>6. ASSUME active, Unbroken(longer, 1, n + 1)
      PROVE  new.connected /\ new.conn = verified
  <2>1. Unbroken(queue, 1, n)
    BY <1>1, <1>6
  <2> QED BY <1>2, <1>6, <2>1
<1>7. OneConnection(longer, new, active, verified)
  BY <1>1, <1>3, <1>4, <1>5, <1>6 DEF OneConnection
<1> QED BY <1>7 DEF longer

\* The end of a connection.
LEMMA AppendsBreak ==
  ASSUME NEW queue \in Seq(Event), NEW event \in Event, NEW now, NEW new,
         NEW active, NEW verified,
         event.type = "DISCONNECTED",
         OneConnection(queue, now, active, verified)
  PROVE  OneConnection(Append(queue, event), new, active, verified)
<1> DEFINE longer == Append(queue, event)
           n == Len(queue)
<1>1. /\ n \in Nat /\ Len(longer) = n + 1
      /\ \A i \in 1 .. n : FrameAt(longer, i) <=> FrameAt(queue, i)
      /\ \A i \in 1 .. n : longer[i] = queue[i]
      /\ ~FrameAt(longer, n + 1)
      /\ \A i \in 1 .. n, k \in 1 .. n : Unbroken(longer, i, k) <=> Unbroken(queue, i, k)
      /\ \A i \in 1 .. n + 1 : ~Unbroken(longer, i, n + 1)
  BY LongerQueue
<1>2. /\ \A i, k \in 1 .. n :
           i < k /\ FrameAt(queue, i) /\ FrameAt(queue, k) /\ Unbroken(queue, i, k) =>
             queue[i].conn = queue[k].conn
      /\ active =>
           \A k \in 1 .. n :
             FrameAt(queue, k) /\ Unbroken(queue, 1, k) => queue[k].conn = verified
  BY DEF OneConnection
<1> HIDE DEF longer, n
<1>3. \A i \in 1 .. n + 1 : FrameAt(longer, i) => i \in 1 .. n
  BY <1>1
<1>4. \A i, k \in 1 .. n + 1 :
        i < k /\ FrameAt(longer, i) /\ FrameAt(longer, k) /\ Unbroken(longer, i, k) =>
          longer[i].conn = longer[k].conn
  BY <1>1, <1>2, <1>3
<1>5. ASSUME active, NEW k \in 1 .. n + 1, FrameAt(longer, k), Unbroken(longer, 1, k)
      PROVE  longer[k].conn = verified
  <2>1. k \in 1 .. n /\ 1 \in 1 .. n
    BY <1>1, <1>3, <1>5
  <2> QED BY <1>1, <1>2, <1>5, <2>1
<1>6. OneConnection(longer, new, active, verified)
  BY <1>1, <1>4, <1>5 DEF OneConnection
<1> QED BY <1>6 DEF longer

\* Taking the head.
LEMMA TakesOne ==
  ASSUME NEW queue \in Seq(Event), queue # <<>>, NEW now,
         NEW active, NEW verified, NEW later, NEW verifiedLater,
         OneConnection(queue, now, active, verified),
         later => \/ /\ active /\ verifiedLater = verified
                     /\ Head(queue).type # "DISCONNECTED"
                  \/ Head(queue).type = "FRAME" /\ verifiedLater = Head(queue).conn
  PROVE  OneConnection(Tail(queue), now, later, verifiedLater)
<1> DEFINE rest == Tail(queue)
           n == Len(queue)
           first == Head(queue)
<1>1. /\ n \in Nat \ {0} /\ Len(rest) = n - 1
      /\ \A i \in 1 .. n - 1 : rest[i] = queue[i + 1]
      /\ first = queue[1]
  BY TakeType
<1>2. n = Len(queue)
  OBVIOUS
<1>3. later => \/ active /\ verifiedLater = verified /\ first.type # "DISCONNECTED"
               \/ first.type = "FRAME" /\ verifiedLater = first.conn
  OBVIOUS
<1> HIDE DEF rest, n, first
<1>4. /\ \A i, k \in 1 .. n :
           i < k /\ FrameAt(queue, i) /\ FrameAt(queue, k) /\ Unbroken(queue, i, k) =>
             queue[i].conn = queue[k].conn
      /\ \A i \in 1 .. n :
           FrameAt(queue, i) /\ Unbroken(queue, i, n) =>
             now.connected /\ queue[i].conn = now.conn
      /\ active =>
           \A k \in 1 .. n :
             FrameAt(queue, k) /\ Unbroken(queue, 1, k) => queue[k].conn = verified
      /\ active /\ Unbroken(queue, 1, n) => now.connected /\ now.conn = verified
  BY <1>2 DEF OneConnection
<1>5. \A i \in 1 .. n - 1 : FrameAt(rest, i) => FrameAt(queue, i + 1) /\ i + 1 \in 1 .. n
  BY <1>1, <1>2 DEF FrameAt
<1>6. ASSUME NEW i \in 1 .. n, NEW k \in 0 .. n - 1, Unbroken(rest, i, k)
      PROVE  Unbroken(queue, i + 1, k + 1)
  <2> SUFFICES ASSUME NEW j \in i + 1 .. k + 1 PROVE queue[j].type # "DISCONNECTED"
    BY DEF Unbroken
  <2>1. j - 1 \in i .. k /\ j - 1 \in 1 .. n - 1 /\ (j - 1) + 1 = j
    BY <1>1, <1>6
  <2>2. rest[j - 1] = queue[j]
    BY <1>1, <2>1
  <2>3. rest[j - 1].type # "DISCONNECTED"
    BY <1>6, <2>1 DEF Unbroken
  <2> QED BY <2>2, <2>3
<1>7. ASSUME later, NEW k \in 0 .. n - 1, Unbroken(rest, 1, k)
      PROVE  Unbroken(queue, 1, k + 1)
  <2> SUFFICES ASSUME NEW j \in 1 .. k + 1 PROVE queue[j].type # "DISCONNECTED"
    BY DEF Unbroken
  <2>1. Unbroken(queue, 2, k + 1)
    BY <1>1, <1>6, <1>7
  <2>2. CASE j = 1
    BY <1>1, <1>3, <1>7, <2>2
  <2>3. CASE j # 1
    <3>1. j \in 2 .. k + 1
      BY <2>3
    <3> QED BY <2>1, <3>1 DEF Unbroken
  <2> QED BY <2>2, <2>3
<1>8. ASSUME NEW i \in 1 .. n - 1, NEW k \in 1 .. n - 1,
             i < k, FrameAt(rest, i), FrameAt(rest, k), Unbroken(rest, i, k)
      PROVE  rest[i].conn = rest[k].conn
  <2>1. Unbroken(queue, i + 1, k + 1) /\ i + 1 < k + 1
    BY <1>1, <1>6, <1>8
  <2> QED BY <1>1, <1>4, <1>5, <1>8, <2>1, SMTT(30)
<1>9. ASSUME NEW i \in 1 .. n - 1, FrameAt(rest, i), Unbroken(rest, i, n - 1)
      PROVE  now.connected /\ rest[i].conn = now.conn
  <2>1. Unbroken(queue, i + 1, n)
    BY <1>1, <1>6, <1>9
  <2> QED BY <1>1, <1>4, <1>5, <1>9, <2>1
<1>10. ASSUME later, NEW k \in 1 .. n - 1, FrameAt(rest, k), Unbroken(rest, 1, k)
       PROVE  rest[k].conn = verifiedLater
  <2>1. Unbroken(queue, 1, k + 1)
    BY <1>7, <1>10
  <2>2. FrameAt(queue, k + 1) /\ k + 1 \in 1 .. n /\ 1 \in 1 .. n /\ 1 < k + 1
        /\ rest[k] = queue[k + 1]
    BY <1>1, <1>5, <1>10
  <2>3. CASE active /\ verifiedLater = verified
    BY <1>4, <2>1, <2>2, <2>3
  <2>4. CASE first.type = "FRAME" /\ verifiedLater = first.conn
    <3>1. FrameAt(queue, 1)
      BY <1>1, <1>2, <2>2, <2>4 DEF FrameAt
    <3> QED BY <1>1, <1>4, <2>1, <2>2, <2>4, <3>1
  <2> QED BY <1>3, <1>10, <2>3, <2>4
<1>11. ASSUME later, Unbroken(rest, 1, n - 1)
       PROVE  now.connected /\ now.conn = verifiedLater
  <2>1. Unbroken(queue, 1, n)
    BY <1>1, <1>7, <1>11
  <2>2. CASE active /\ verifiedLater = verified
    BY <1>4, <2>1, <2>2
  <2>3. CASE first.type = "FRAME" /\ verifiedLater = first.conn
    <3>1. FrameAt(queue, 1) /\ 1 \in 1 .. n
      BY <1>1, <1>2, <2>3 DEF FrameAt
    <3> QED BY <1>1, <1>4, <2>1, <2>3, <3>1
  <2> QED BY <1>3, <1>11, <2>2, <2>3
<1>12. OneConnection(rest, now, later, verifiedLater)
  BY <1>1, <1>8, <1>9, <1>10, <1>11 DEF OneConnection
<1> QED BY <1>12 DEF rest

------------------------------------------------------------------------------
(* The steps                                                                *)

\* A session that does not begin keeps the connection it was verified for.
LEMMA StaysInactive ==
  ASSUME TypeOK, NEW event \in PrivacyEvent \ {"AUTH_SUCCEEDED"}, NEW now,
         DispatchEvent(event, now)
  PROVE  privacy'.state = "ACTIVE" => privacy.state = "ACTIVE"
  BY DEF DispatchEvent, Dispatch, LockingEvent, Locked, TypeOK, PrivacyContext, PrivacyEvent

LEMMA VerifiedKept ==
  ASSUME NEW h \in History, NEW n
  PROVE  /\ [h EXCEPT !.challenges = n].verified = h.verified
         /\ [h EXCEPT !.down = n].verified = h.verified
         /\ Heard(h).verified = h.verified
BY DEF Heard, History

\* What a step may change besides the queue and the link.
Keeps ==
  /\ privacy'.state = "ACTIVE" => privacy.state = "ACTIVE"
  /\ ghost'.verified = ghost.verified

LEMMA ConnKept ==
  ASSUME ConnInv, Keeps, bleQueue' = bleQueue,
         link'.connected = link.connected, link'.conn = link.conn
  PROVE  ConnInv'
<1> DEFINE active == privacy.state = "ACTIVE"
           later == privacy'.state = "ACTIVE"
<1>1. later => active
  BY DEF Keeps
<1>2. OneConnection(bleQueue, link, active, ghost.verified)
  BY DEF ConnInv
<1> HIDE DEF active, later
<1>3. OneConnection(bleQueue, link', later, ghost.verified)
  BY <1>1, <1>2 DEF OneConnection
<1> QED BY <1>3 DEF ConnInv, Keeps, later

LEMMA TakesConn ==
  ASSUME TypeOK, ConnInv, TakeEvent,
         \/ /\ Keeps
            /\ Taken.type = "DISCONNECTED" => privacy'.state # "ACTIVE"
         \/ Taken.type = "FRAME" /\ ghost'.verified = Taken.conn
  PROVE  ConnInv'
<1> DEFINE active == privacy.state = "ACTIVE"
           later == privacy'.state = "ACTIVE"
           verifiedLater == ghost'.verified
<1>1. OneConnection(bleQueue, link, active, ghost.verified)
  BY DEF ConnInv
<1>2. bleQueue \in Seq(Event) /\ bleQueue # <<>> /\ bleQueue' = Tail(bleQueue) /\ link' = link
  BY DEF TypeOK, TakeEvent
<1>3. later => \/ /\ active /\ verifiedLater = ghost.verified
                  /\ Head(bleQueue).type # "DISCONNECTED"
               \/ Head(bleQueue).type = "FRAME" /\ verifiedLater = Head(bleQueue).conn
  BY DEF Keeps, Taken
<1> HIDE DEF active, later, verifiedLater
<1>4. OneConnection(Tail(bleQueue), link, later, verifiedLater)
  BY <1>1, <1>2, <1>3, TakesOne
<1> QED BY <1>2, <1>4 DEF ConnInv, later, verifiedLater

LEMMA PostsSame ==
  ASSUME TypeOK, ~DropsAllowed, ConnInv, HasRoom(1), NEW event \in Event,
         bleQueue' = Post(bleQueue, event),
         event.type # "DISCONNECTED",
         event.type = "FRAME" => link.connected /\ event.conn = link.conn,
         link'.connected = link.connected, link'.conn = link.conn,
         privacy' = privacy, ghost'.verified = ghost.verified
  PROVE  ConnInv'
<1> DEFINE active == privacy.state = "ACTIVE"
<1>1. bleQueue' = Append(bleQueue, event) /\ bleQueue \in Seq(Event)
  BY PostAppends DEF TypeOK
<1>2. OneConnection(bleQueue, link, active, ghost.verified)
  BY DEF ConnInv
<1>3. privacy'.state = "ACTIVE" <=> active
  OBVIOUS
<1> HIDE DEF active
<1>4. OneConnection(Append(bleQueue, event), link', active, ghost.verified)
  BY <1>1, <1>2, AppendsSame
<1> QED BY <1>1, <1>3, <1>4 DEF ConnInv, active

\* What LinkUp, LinkChanges and MacSendsFrame do to the queue and the link.
LEMMA LinkUpPosts ==
  ASSUME TypeOK, ~DropsAllowed, LinkUp
  PROVE  \E begin \in Event, secured \in Event :
           /\ begin.type = "CONNECTED" /\ secured.type = "SECURITY_CHANGED"
           /\ bleQueue' \in {Append(bleQueue, begin), Append(Append(bleQueue, begin), secured)}
           /\ link' \in Link /\ ~link.connected
           /\ ghost.down >= ReconnectDelay
           /\ UNCHANGED <<privacy, ghost, app>>
<1>1. PICK encrypted \in BOOLEAN : GapConnect(encrypted)
  BY DEF LinkUp
<1> DEFINE begin == SimpleEvent("CONNECTED", link', encrypted)
           secured == SimpleEvent("SECURITY_CHANGED", link', TRUE)
<1>2. link' \in Link /\ ~link.connected
  <2>1. /\ link' = [link EXCEPT !.connected = TRUE, !.encrypted = encrypted, !.conn = @ + 1]
        /\ ~link.connected
    BY <1>1 DEF GapConnect
  <2>2. link \in Link
    BY DEF TypeOK
  <2> QED BY <2>1, <2>2, ConnectedLink
<1>3. begin \in Event /\ secured \in Event
  BY <1>2, SimpleEventType DEF EventType
<1>4. begin.type = "CONNECTED" /\ secured.type = "SECURITY_CHANGED"
  BY DEF SimpleEvent
<1>5. bleQueue' \in {Append(bleQueue, begin), Append(Append(bleQueue, begin), secured)}
  <2>1. QueueLength \in Nat
    BY LinkAssumption
  <2>2. Len(bleQueue) + (IF encrypted THEN 2 ELSE 1) <= QueueLength
    BY <1>1 DEF GapConnect, HasRoom
  <2>3. bleQueue' = IF encrypted THEN Post(Post(bleQueue, begin), secured)
                                 ELSE Post(bleQueue, begin)
    BY <1>1 DEF GapConnect
  <2>4. /\ bleQueue \in Seq(Event) /\ Append(bleQueue, begin) \in Seq(Event)
        /\ Len(bleQueue) \in Nat /\ Len(Append(bleQueue, begin)) = Len(bleQueue) + 1
    BY <1>3 DEF TypeOK
  <2> HIDE DEF begin, secured
  <2> QED BY <2>1, <2>2, <2>3, <2>4 DEF Post
<1>6. ghost.down >= ReconnectDelay /\ UNCHANGED <<privacy, ghost, app>>
  BY DEF LinkUp, deskVars
<1> HIDE DEF begin, secured
<1> QED BY <1>2, <1>3, <1>4, <1>5, <1>6

LEMMA HostPosts ==
  ASSUME TypeOK, MacSendsFrame \/ LinkChanges
  PROVE  \E event \in Event :
           /\ HasRoom(1) /\ bleQueue' = Post(bleQueue, event)
           /\ event.type # "DISCONNECTED"
           /\ event.type = "FRAME" => link.connected /\ event.conn = link.conn
           /\ link'.connected = link.connected /\ link'.conn = link.conn
           /\ UNCHANGED <<privacy, ghost, app>>
<1>1. CASE MacSendsFrame
  <2>1. PICK message \in Message, answers \in Nat : MacSends(message, answers)
    BY <1>1 DEF MacSendsFrame, Message, TypeOK, Mac
  <2> DEFINE event == [type |-> "FRAME", conn |-> link.conn, secure |-> TRUE,
                       message |-> message, seq |-> mac.seq % SeqMod, answers |-> answers]
  <2>2. event \in Event
    BY SequenceAssumption DEF Event, EventType, TypeOK, Link, Mac, SequenceNumber
  <2>3. /\ HasRoom(1) /\ bleQueue' = Post(bleQueue, event) /\ link.connected
        /\ UNCHANGED <<link, privacy, ghost, app>>
    BY <2>1 DEF MacSends, ReceiveFrame, deskVars
  <2>4. event.type = "FRAME" /\ event.conn = link.conn
    OBVIOUS
  <2> HIDE DEF event
  <2> QED BY <2>2, <2>3, <2>4
<1>2. CASE LinkChanges
  <2>1. UNCHANGED <<privacy, ghost, app>>
    BY <1>2 DEF LinkChanges, deskVars
  <2>2. ASSUME NEW state \in Link, NEW type \in {"SECURITY_CHANGED", "OTHER"},
               NEW secure \in BOOLEAN
        PROVE  /\ SimpleEvent(type, state, secure) \in Event
               /\ SimpleEvent(type, state, secure).type = type
    BY SimpleEventType DEF EventType, SimpleEvent
  <2>3. CASE \E succeeded \in BOOLEAN : GapEncChange(succeeded)
    <3>1. PICK succeeded \in BOOLEAN : GapEncChange(succeeded)
      BY <2>3
    <3>2. /\ link' \in Link /\ link'.connected = link.connected /\ link'.conn = link.conn
          /\ HasRoom(1)
          /\ bleQueue' = Post(bleQueue, SimpleEvent("SECURITY_CHANGED", link', succeeded))
      BY <3>1 DEF GapEncChange, TypeOK, Link
    <3> QED BY <2>1, <2>2, <3>2
  <2>4. CASE \E enabled \in BOOLEAN : GapSubscribe(enabled)
    <3>1. PICK enabled \in BOOLEAN : GapSubscribe(enabled)
      BY <2>4
    <3>2. /\ link' \in Link /\ link'.connected = link.connected /\ link'.conn = link.conn
          /\ HasRoom(1) /\ bleQueue' = Post(bleQueue, SimpleEvent("OTHER", link', FALSE))
      BY <3>1 DEF GapSubscribe, TypeOK, Link
    <3> QED BY <2>1, <2>2, <3>2
  <2>5. CASE GapOther
    <3>1. /\ link \in Link /\ UNCHANGED link /\ HasRoom(1)
          /\ bleQueue' = Post(bleQueue, SimpleEvent("OTHER", link, FALSE))
      BY <2>5 DEF GapOther, TypeOK
    <3> QED BY <2>1, <2>2, <3>1
  <2> QED BY <1>2, <2>3, <2>4, <2>5 DEF LinkChanges
<1> QED BY <1>1, <1>2

LEMMA ConnInductive == TypeOK /\ ~DropsAllowed /\ ConnInv /\ [Next]_vars => ConnInv'
<1> SUFFICES ASSUME TypeOK, ~DropsAllowed, ConnInv, [Next]_vars PROVE ConnInv'
  OBVIOUS
<1>1. ghost \in History /\ privacy \in PrivacyContext
  BY DEF TypeOK
<1>2. ASSUME TakeEvent, Taken.type # "DISCONNECTED", ghost'.verified = ghost.verified,
             \/ NoDispatch
             \/ \E event \in PrivacyEvent \ {"AUTH_SUCCEEDED"} : DispatchEvent(event, clock)
      PROVE  ConnInv'
  <2>1. Keeps
    BY <1>2, StaysInactive DEF Keeps, NoDispatch
  <2> QED BY <1>2, <2>1, TakesConn
<1>3. CASE HandleConnected \/ HandleHeartbeat
  <2>1. ghost'.verified = ghost.verified
    BY <1>1, <1>3, VerifiedKept DEF HandleConnected, HandleHeartbeat
  <2> QED BY <1>2, <1>3, <2>1 DEF HandleConnected, HandleHeartbeat, TakeFrame, PrivacyEvent
<1>4. CASE HandleDisconnected
  <2>1. privacy'.state = "LOCKED" /\ ghost' = ghost /\ TakeEvent
    BY <1>4, DispatchLocks, LockedState DEF HandleDisconnected, DispatchEvent, LockingEvent
  <2> QED BY <2>1, TakesConn DEF Keeps
<1>5. CASE HandleSecurityChanged \/ HandleOther \/ IgnoreFrame \/ HandlePrivateState
  BY <1>2, <1>5
  DEF HandleSecurityChanged, HandleOther, IgnoreFrame, HandlePrivateState, TakeFrame,
      PrivacyEvent
<1>6. CASE HandleHello
  <2>1. ghost'.verified = ghost.verified
    BY <1>1, <1>6, VerifiedKept DEF HandleHello
  <2> QED BY <1>2, <1>6, <2>1 DEF HandleHello, TakeFrame, PrivacyEvent
<1>7. CASE HandleMalformedHello \/ HandleAuthFailure \/ HandleLock
  BY <1>2, <1>7
  DEF HandleMalformedHello, HandleAuthFailure, HandleLock, TakeFrame, PrivacyEvent
<1>8. CASE HandleAuthSuccess
  <2>1. TakeEvent /\ Taken.type = "FRAME"
    BY <1>8 DEF HandleAuthSuccess, TakeFrame
  <2>2. CASE privacy.state = "AUTHENTICATING"
    <3>1. ghost' = [Heard(ghost) EXCEPT !.session = @ + 1, !.verified = Taken.conn]
      BY <1>8, <2>2 DEF HandleAuthSuccess
    <3>2. Heard(ghost) \in History
      BY <1>1, HeardType
    <3>3. ghost'.verified = Taken.conn
      BY <3>1, <3>2 DEF History
    <3> QED BY <2>1, <3>3, TakesConn
  <2>3. CASE privacy.state # "AUTHENTICATING"
    <3>1. privacy' = privacy /\ ghost' = ghost
      BY <1>8, <2>3 DEF HandleAuthSuccess, DispatchEvent, Dispatch, LockingEvent
    <3> QED BY <2>1, <3>1, TakesConn DEF Keeps
  <2> QED BY <2>2, <2>3
<1>9. CASE ApplyActions
  <2>1. link'.connected = link.connected /\ link'.conn = link.conn
    BY <1>9
    DEF ApplyActions, BacklightOff, ClearPrivateData, UpdateUi, BacklightOn, DisconnectBle,
        LinkDisconnect, TypeOK, Link
  <2>2. UNCHANGED <<bleQueue, privacy, ghost>>
    BY <1>9
    DEF ApplyActions, BacklightOff, ClearPrivateData, UpdateUi, BacklightOn, DisconnectBle,
        UnchangedByApply
  <2> QED BY <2>1, <2>2, ConnKept DEF Keeps
<1>10. CASE PollTimeouts
  <2>1. privacy'.state = "ACTIVE" => privacy.state = "ACTIVE"
    BY <1>10, StaysInactive DEF PollTimeouts, PrivacyEvent
  <2>2. ghost'.verified = ghost.verified /\ UNCHANGED linkVars
    BY <1>10 DEF PollTimeouts, TypeOK, History
  <2> QED BY <2>1, <2>2, ConnKept DEF Keeps, linkVars
<1>11. CASE ReceiveTimeout \/ ReadClock \/ HandleUiAction \/ TouchUi
  BY <1>11, ConnKept DEF ReceiveTimeout, ReadClock, HandleUiAction, TouchUi, linkVars, Keeps
<1>12. CASE MacGivesUp \/ UNCHANGED vars
  BY <1>12, ConnKept DEF MacGivesUp, vars, linkVars, deskVars, Keeps
<1>13. CASE Tick
  <2> DEFINE silence == IF ghost.silence < SilenceCap THEN ghost.silence + 1 ELSE ghost.silence
             down == IF ghost.down < DownCap /\ ~link.connected THEN ghost.down + 1
                     ELSE ghost.down
  <2>1. ghost' = [ghost EXCEPT !.ticks = ghost.ticks + 1, !.silence = silence, !.down = down]
    BY <1>13 DEF Tick
  <2> HIDE DEF silence, down
  <2>2. ghost'.verified = ghost.verified
    BY <1>1, <2>1 DEF History
  <2> QED BY <1>13, <2>2, ConnKept DEF Tick, linkVars, deskVars, Keeps
<1>14. CASE MacSendsFrame \/ LinkChanges
  <2>1. PICK event \in Event :
           /\ HasRoom(1) /\ bleQueue' = Post(bleQueue, event)
           /\ event.type # "DISCONNECTED"
           /\ event.type = "FRAME" => link.connected /\ event.conn = link.conn
           /\ link'.connected = link.connected /\ link'.conn = link.conn
           /\ UNCHANGED <<privacy, ghost, app>>
    BY <1>14, HostPosts
  <2> QED BY <2>1, PostsSame
<1>15. CASE LinkUp
  <2>1. PICK begin \in Event, secured \in Event :
           /\ begin.type = "CONNECTED" /\ secured.type = "SECURITY_CHANGED"
           /\ bleQueue' \in {Append(bleQueue, begin), Append(Append(bleQueue, begin), secured)}
           /\ link' \in Link /\ ~link.connected
           /\ ghost.down >= ReconnectDelay
           /\ UNCHANGED <<privacy, ghost, app>>
    BY <1>15, LinkUpPosts
  <2> DEFINE active == privacy.state = "ACTIVE"
             verified == ghost.verified
  <2>2. OneConnection(bleQueue, link, active, verified)
    BY DEF ConnInv
  <2>3. ConnInv' <=> OneConnection(bleQueue', link', active, verified)
    BY <2>1 DEF ConnInv
  <2>4. bleQueue \in Seq(Event) /\ Append(bleQueue, begin) \in Seq(Event)
    BY DEF TypeOK
  <2> HIDE DEF active, verified
  <2>5. OneConnection(Append(bleQueue, begin), link', active, verified)
    BY <2>1, <2>2, <2>4, AppendsSame
  <2>6. OneConnection(Append(Append(bleQueue, begin), secured), link', active, verified)
    BY <2>1, <2>4, <2>5, AppendsSame
  <2> QED BY <2>1, <2>3, <2>5, <2>6
<1>16. CASE LinkDown
  <2> DEFINE end == SimpleEvent("DISCONNECTED", link, FALSE)
             active == privacy.state = "ACTIVE"
             verified == ghost.verified
  <2>1. end \in Event /\ end.type = "DISCONNECTED"
    BY SimpleEventType DEF EventType, TypeOK, SimpleEvent
  <2>2. HasRoom(1) /\ bleQueue' = Post(bleQueue, end) /\ privacy' = privacy
    BY <1>16 DEF LinkDown, GapDisconnect, deskVars
  <2>3. bleQueue' = Append(bleQueue, end) /\ bleQueue \in Seq(Event)
    BY <2>2, PostAppends DEF TypeOK
  <2>4. ghost'.verified = ghost.verified
    BY <1>1, <1>16, VerifiedKept DEF LinkDown
  <2>5. OneConnection(bleQueue, link, active, verified)
    BY DEF ConnInv
  <2>6. ConnInv' <=> OneConnection(bleQueue', link', active, verified)
    BY <2>2, <2>4 DEF ConnInv
  <2> HIDE DEF end, active, verified
  <2> QED BY <2>1, <2>3, <2>5, <2>6, AppendsBreak
<1> QED
  BY <1>3, <1>4, <1>5, <1>6, <1>7, <1>8, <1>9, <1>10, <1>11, <1>12, <1>13, <1>14, <1>15, <1>16
  DEF Next, Supervisor, HandleEvent, Environment

\* The only place where private data comes from.
LEMMA PrivateDataComes ==
  ASSUME TypeOK, [Next]_vars, ~app.private, app'.private
  PROVE  HandlePrivateState
<1>1. CASE UNCHANGED app
  BY <1>1
<1>2. CASE HandleConnected \/ HandleAuthSuccess
  <2>1. app'.private = app.private
    BY <1>2 DEF HandleConnected, HandleAuthSuccess, TypeOK, AppState
  <2> QED BY <2>1
<1>3. CASE ClearPrivateData
  BY <1>3 DEF ClearPrivateData
<1>4. UNCHANGED app \/ HandleConnected \/ HandleAuthSuccess \/ ClearPrivateData
      \/ HandlePrivateState
  BY DEF Next, Supervisor, HandleEvent, Environment, vars, deskVars, ApplyActions,
         HandleDisconnected, HandleSecurityChanged, HandleOther, IgnoreFrame,
         HandleHello, HandleMalformedHello, HandleAuthFailure, HandleHeartbeat, HandleLock,
         BacklightOff, UpdateUi, BacklightOn, DisconnectBle,
         ReceiveTimeout, ReadClock, HandleUiAction, PollTimeouts, TouchUi, MacSendsFrame,
         MacSends, MacGivesUp, LinkUp, LinkDown, LinkChanges, Tick
<1> QED BY <1>1, <1>2, <1>3, <1>4

LEMMA ConnInit == Init => ConnInv
<1> SUFFICES ASSUME Init PROVE ConnInv
  OBVIOUS
<1>1. bleQueue = <<>> /\ privacy.state # "ACTIVE"
  BY DEF Init, LinkInit, InitialContext
<1>2. \A i \in 1 .. Len(bleQueue) : FALSE
  BY <1>1
<1> QED BY <1>1, <1>2 DEF ConnInv, OneConnection

\* As long as no transport event is lost, what the device shows of the Mac came
\* over the very connection that answered the challenge, for every length of
\* the queue, however many connections follow one another and whatever the
\* peers write (the apply_..._payload handlers under
\* DESK_PRIVACY_STATE_ACTIVE in app_main.c's handle_protocol_frame).
THEOREM VerifiedPrivateData == ~DropsAllowed => (Spec => PrivateDataFromVerifiedPeer)
<1> SUFFICES ASSUME ~DropsAllowed PROVE Spec => PrivateDataFromVerifiedPeer
  OBVIOUS
<1>1. Init => TypeOK /\ ConnInv
  BY TypeInit, ConnInit
<1>2. TypeOK /\ ConnInv /\ [Next]_vars => TypeOK' /\ ConnInv'
  BY TypeInductive, ConnInductive
<1>3. TypeOK /\ ConnInv /\ [Next]_vars =>
        [~app.private /\ app'.private => Taken.conn = ghost.verified]_vars
  <2> SUFFICES ASSUME TypeOK, ConnInv, [Next]_vars, ~app.private, app'.private
               PROVE  Taken.conn = ghost.verified
    OBVIOUS
  <2>1. HandlePrivateState
    BY PrivateDataComes
  <2>2. Taken.type = "FRAME" /\ bleQueue # <<>> /\ bleQueue \in Seq(Event)
    BY <2>1 DEF HandlePrivateState, TakeFrame, TakeEvent, TypeOK
  <2>3. privacy.state = "ACTIVE"
    BY <2>1 DEF HandlePrivateState, StateAllowed, TypeOK, AppState
  <2>4. 1 \in 1 .. Len(bleQueue) /\ Taken = bleQueue[1]
    BY <2>2 DEF Taken
  <2>5. FrameAt(bleQueue, 1) /\ Unbroken(bleQueue, 1, 1)
    BY <2>2, <2>4 DEF FrameAt, Unbroken
  <2> QED BY <2>3, <2>4, <2>5 DEF ConnInv, OneConnection
<1> QED BY <1>1, <1>2, <1>3, PTL DEF Spec, PrivateDataFromVerifiedPeer

------------------------------------------------------------------------------
(* Actions reach the verified peer                                          *)

\* While the end of a connection waits to be handled, no next one begins.
DownInv ==
  \A i \in 1 .. Len(bleQueue) :
    bleQueue[i].type = "DISCONNECTED" => ~link.connected /\ ghost.down = 0

LEMMA LongerDown ==
  ASSUME NEW queue \in Seq(Event), NEW event \in Event, NEW waits,
         event.type = "DISCONNECTED" => waits,
         \A i \in 1 .. Len(queue) : queue[i].type = "DISCONNECTED" => waits
  PROVE  \A i \in 1 .. Len(Append(queue, event)) :
           Append(queue, event)[i].type = "DISCONNECTED" => waits
<1> DEFINE longer == Append(queue, event)
           n == Len(queue)
<1>1. /\ n \in Nat /\ Len(longer) = n + 1
      /\ longer[n + 1] = event
      /\ \A i \in 1 .. n : longer[i] = queue[i]
  BY LongerQueue
<1>2. \A i \in 1 .. n : queue[i].type = "DISCONNECTED" => waits
  OBVIOUS
<1> HIDE DEF longer, n
<1>3. ASSUME NEW i \in 1 .. n + 1, longer[i].type = "DISCONNECTED" PROVE waits
  <2>1. CASE i = n + 1
    BY <1>1, <1>3, <2>1
  <2>2. CASE i # n + 1
    <3>1. i \in 1 .. n
      BY <1>1, <2>2
    <3> QED BY <1>1, <1>2, <1>3, <3>1
  <2> QED BY <2>1, <2>2
<1>4. \A i \in 1 .. Len(longer) : longer[i].type = "DISCONNECTED" => waits
  BY <1>1, <1>3
<1> QED BY <1>4 DEF longer

LEMMA DownKept ==
  ASSUME DownInv, bleQueue' = bleQueue,
         link'.connected = link.connected, ghost'.down = ghost.down
  PROVE  DownInv'
BY DEF DownInv

LEMMA DownUpdates ==
  ASSUME NEW h \in History, NEW n
  PROVE  /\ [h EXCEPT !.challenges = n].down = h.down
         /\ [h EXCEPT !.ticks = n].down = h.down
         /\ [h EXCEPT !.down = n].down = n
         /\ Heard(h).down = h.down
BY DEF Heard, History

LEMMA DownInductive ==
  ASSUME ~DropsAllowed, CatchesUp, ReconnectDelay > 0
  PROVE  TypeOK /\ DownInv /\ [Next]_vars => DownInv'
<1> SUFFICES ASSUME TypeOK, DownInv, [Next]_vars PROVE DownInv'
  OBVIOUS
<1>1. ghost \in History /\ bleQueue \in Seq(Event)
  BY DEF TypeOK
<1>2. CASE HandleEvent
  <2>1. TakeEvent
    BY <1>2
    DEF HandleEvent, TakeFrame, HandleConnected, HandleDisconnected, HandleSecurityChanged,
        HandleOther, IgnoreFrame, HandleHello, HandleMalformedHello, HandleAuthSuccess,
        HandleAuthFailure, HandleHeartbeat, HandleLock, HandlePrivateState
  <2>2. ghost'.down = ghost.down
    <3>1. CASE HandleHello
      BY <1>1, <3>1, DownUpdates DEF HandleHello
    <3>2. CASE ghost' = Heard(ghost) \/ ghost' = ghost
      BY <1>1, <3>2, DownUpdates
    <3>3. CASE ghost' = [Heard(ghost) EXCEPT !.session = @ + 1, !.verified = Taken.conn]
      <4>1. Heard(ghost) \in History /\ Heard(ghost).down = ghost.down
        BY <1>1, HeardType, DownUpdates
      <4> QED BY <3>3, <4>1 DEF History
    <3> QED
      BY <1>2, <3>1, <3>2, <3>3
      DEF HandleEvent, HandleConnected, HandleDisconnected, HandleSecurityChanged,
          HandleOther, IgnoreFrame, HandleMalformedHello, HandleAuthSuccess,
          HandleAuthFailure, HandleHeartbeat, HandleLock, HandlePrivateState
  <2>3. bleQueue # <<>> /\ bleQueue' = Tail(bleQueue) /\ link' = link
    BY <2>1 DEF TakeEvent
  <2>4. \A i \in 1 .. Len(Tail(bleQueue)) :
          i + 1 \in 1 .. Len(bleQueue) /\ Tail(bleQueue)[i] = bleQueue[i + 1]
    BY <1>1, <2>3, TakeType
  <2> QED BY <2>2, <2>3, <2>4 DEF DownInv
<1>3. CASE ApplyActions
  <2>1. link'.connected = link.connected
    BY <1>3
    DEF ApplyActions, BacklightOff, ClearPrivateData, UpdateUi, BacklightOn, DisconnectBle,
        LinkDisconnect, TypeOK, Link
  <2>2. UNCHANGED <<bleQueue, ghost>>
    BY <1>3
    DEF ApplyActions, BacklightOff, ClearPrivateData, UpdateUi, BacklightOn, DisconnectBle,
        UnchangedByApply
  <2> QED BY <2>1, <2>2, DownKept
<1>4. CASE PollTimeouts
  BY <1>1, <1>4, DownKept, DownUpdates DEF PollTimeouts, linkVars
<1>5. CASE ReceiveTimeout \/ ReadClock \/ HandleUiAction \/ TouchUi
  BY <1>5, DownKept DEF ReceiveTimeout, ReadClock, HandleUiAction, TouchUi, linkVars
<1>6. CASE MacGivesUp \/ UNCHANGED vars
  BY <1>6, DownKept DEF MacGivesUp, vars, linkVars, deskVars
<1>7. CASE Tick
  <2>1. bleQueue' = <<>>
    BY <1>7 DEF Tick, linkVars
  <2> QED BY <2>1 DEF DownInv
<1>8. CASE MacSendsFrame \/ LinkChanges
  <2>1. PICK event \in Event :
           /\ HasRoom(1) /\ bleQueue' = Post(bleQueue, event)
           /\ event.type # "DISCONNECTED"
           /\ event.type = "FRAME" => link.connected /\ event.conn = link.conn
           /\ link'.connected = link.connected /\ link'.conn = link.conn
           /\ UNCHANGED <<privacy, ghost, app>>
    BY <1>8, HostPosts
  <2> DEFINE waits == ~link.connected /\ ghost.down = 0
  <2>2. \A i \in 1 .. Len(bleQueue) : bleQueue[i].type = "DISCONNECTED" => waits
    BY DEF DownInv
  <2>3. DownInv' <=> \A i \in 1 .. Len(bleQueue') :
                       bleQueue'[i].type = "DISCONNECTED" => waits
    BY <2>1 DEF DownInv
  <2>4. bleQueue' = Append(bleQueue, event)
    BY <2>1, PostAppends
  <2> HIDE DEF waits
  <2> QED BY <1>1, <2>1, <2>2, <2>3, <2>4, LongerDown
<1>9. CASE LinkUp
  <2>1. PICK begin \in Event, secured \in Event :
           /\ begin.type = "CONNECTED" /\ secured.type = "SECURITY_CHANGED"
           /\ bleQueue' \in {Append(bleQueue, begin), Append(Append(bleQueue, begin), secured)}
           /\ link' \in Link /\ ~link.connected
           /\ ghost.down >= ReconnectDelay
           /\ UNCHANGED <<privacy, ghost, app>>
    BY <1>9, LinkUpPosts
  <2> DEFINE never == 1 = 0
  <2>2. \A i \in 1 .. Len(bleQueue) : bleQueue[i].type = "DISCONNECTED" => never
    BY <2>1, SessionAssumption DEF DownInv
  <2>3. ~never
    OBVIOUS
  <2>4. Append(bleQueue, begin) \in Seq(Event)
    BY <1>1
  <2> HIDE DEF never
  <2>5. \A i \in 1 .. Len(Append(bleQueue, begin)) :
          Append(bleQueue, begin)[i].type = "DISCONNECTED" => never
    BY <1>1, <2>1, <2>2, LongerDown
  <2>6. \A i \in 1 .. Len(Append(Append(bleQueue, begin), secured)) :
          Append(Append(bleQueue, begin), secured)[i].type = "DISCONNECTED" => never
    BY <2>1, <2>4, <2>5, LongerDown
  <2>7. \A i \in 1 .. Len(bleQueue') : bleQueue'[i].type # "DISCONNECTED"
    BY <2>1, <2>3, <2>5, <2>6
  <2> QED BY <2>7 DEF DownInv
<1>10. CASE LinkDown
  <2>1. ghost'.down = 0
    BY <1>1, <1>10, DownUpdates DEF LinkDown
  <2>2. ~link'.connected
    BY <1>10 DEF LinkDown, GapDisconnect, NoLink
  <2> QED BY <2>1, <2>2 DEF DownInv
<1> QED
  BY <1>2, <1>3, <1>4, <1>5, <1>6, <1>7, <1>8, <1>9, <1>10 DEF Next, Supervisor, Environment

\* If in addition events wait for less than a tick and the Mac takes longer than
\* that to connect again, a touch action goes to the Mac that answered the
\* challenge (send_ui_action in app_main.c, which sends over whichever
\* connection is current).
THEOREM ActionsReachVerified ==
  ~DropsAllowed /\ CatchesUp /\ ReconnectDelay > 0 => (Spec => ActionReachesVerifiedPeer)
<1> SUFFICES ASSUME ~DropsAllowed, CatchesUp, ReconnectDelay > 0
             PROVE  Spec => ActionReachesVerifiedPeer
  OBVIOUS
<1>1. Init => TypeOK /\ ConnInv /\ DownInv
  BY TypeInit, ConnInit DEF Init, LinkInit, DownInv
<1>2. TypeOK /\ ConnInv /\ DownInv /\ [Next]_vars => TypeOK' /\ ConnInv' /\ DownInv'
  BY TypeInductive, ConnInductive, DownInductive
<1>3. TypeOK /\ ConnInv /\ DownInv =>
        [pc = "drain" /\ uiQueue' # uiQueue /\ Len(uiQueue') < Len(uiQueue)
           /\ privacy.state = "ACTIVE" /\ CanNotify =>
           link.conn = ghost.verified]_vars
  <2> SUFFICES ASSUME TypeOK, ConnInv, DownInv, privacy.state = "ACTIVE", CanNotify
               PROVE  link.conn = ghost.verified
    OBVIOUS
  <2>1. Unbroken(bleQueue, 1, Len(bleQueue))
    BY DEF DownInv, CanNotify, Unbroken
  <2> QED BY <2>1 DEF ConnInv, OneConnection
<1> QED BY <1>1, <1>2, <1>3, PTL DEF Spec, ActionReachesVerifiedPeer

------------------------------------------------------------------------------
(* The numbers of the frames                                                *)

\* The sequence number after seq.
Following(seq) == IF seq + 1 = SeqMod THEN 0 ELSE seq + 1

\* The number that the window takes for the next one.
ExpectedNext(window, seq) == window.initialized => seq = Following(window.newest)

\* From i to k there is no frame, and no connection begins.
NoFrameBetween(queue, i, k) == \A j \in i .. k : queue[j].type \notin {"FRAME", "CONNECTED"}

\* The frames of a connection are numbered one by one: in the queue, from the
\* window to the first of them, and from the last of them to the one that the
\* Mac writes next.  Where a connection begins the window is emptied.
Numbered(queue, window, up, next) ==
  LET n == Len(queue)
  IN  /\ \A i, k \in 1 .. n :
           i < k /\ FrameAt(queue, i) /\ FrameAt(queue, k) /\ NoFrameBetween(queue, i + 1, k - 1) =>
             queue[k].seq = Following(queue[i].seq)
      /\ \A k \in 1 .. n :
           FrameAt(queue, k) /\ NoFrameBetween(queue, 1, k - 1) => ExpectedNext(window, queue[k].seq)
      /\ up => \A i \in 1 .. n :
           FrameAt(queue, i) /\ NoFrameBetween(queue, i + 1, n) => next = Following(queue[i].seq)
      /\ up /\ NoFrameBetween(queue, 1, n) => ExpectedNext(window, next)

NumberInv == Numbered(bleQueue, rxWindow, link.connected, mac.seq % SeqMod)

LEMMA LongerBetween ==
  ASSUME NEW queue \in Seq(Event), NEW event \in Event
  PROVE  LET longer == Append(queue, event)
             n == Len(queue)
         IN  /\ \A i \in 1 .. n + 1, k \in 0 .. n :
                  NoFrameBetween(longer, i, k) <=> NoFrameBetween(queue, i, k)
             /\ \A i \in 1 .. n + 1 : NoFrameBetween(longer, i, n + 1) <=>
                  NoFrameBetween(queue, i, n) /\ event.type \notin {"FRAME", "CONNECTED"}
<1> DEFINE longer == Append(queue, event)
           n == Len(queue)
<1>1. /\ n \in Nat /\ Len(longer) = n + 1
      /\ \A i \in 1 .. n : longer[i] = queue[i]
      /\ longer[n + 1] = event
  BY AppendedEvent
<1> HIDE DEF longer, n
<1>2. ASSUME NEW i \in 1 .. n + 1, NEW k \in 0 .. n
      PROVE  NoFrameBetween(longer, i, k) <=> NoFrameBetween(queue, i, k)
  <2>1. \A j \in i .. k : longer[j] = queue[j]
    BY <1>1
  <2> QED BY <2>1 DEF NoFrameBetween
<1>3. ASSUME NEW i \in 1 .. n + 1
      PROVE  NoFrameBetween(longer, i, n + 1) <=>
               NoFrameBetween(queue, i, n) /\ event.type \notin {"FRAME", "CONNECTED"}
  <2>1. \A j \in i .. n + 1 : j \in i .. n \/ j = n + 1
    BY <1>1
  <2>2. \A j \in i .. n : j \in i .. n + 1 /\ longer[j] = queue[j]
    BY <1>1
  <2>3. n + 1 \in i .. n + 1
    BY <1>1
  <2> QED BY <1>1, <2>1, <2>2, <2>3 DEF NoFrameBetween
<1> QED BY <1>2, <1>3 DEF longer, n

\* An event that is no frame and begins no connection.
LEMMA AppendsUnnumbered ==
  ASSUME NEW queue \in Seq(Event), NEW event \in Event, NEW window, NEW up \in BOOLEAN, NEW next,
         NEW later \in BOOLEAN, NEW nextLater,
         event.type \notin {"FRAME", "CONNECTED"}, later => up /\ nextLater = next,
         Numbered(queue, window, up, next)
  PROVE  Numbered(Append(queue, event), window, later, nextLater)
<1> DEFINE longer == Append(queue, event)
           n == Len(queue)
<1>1. /\ n \in Nat /\ Len(longer) = n + 1
      /\ \A i \in 1 .. n : FrameAt(longer, i) <=> FrameAt(queue, i)
      /\ \A i \in 1 .. n : longer[i] = queue[i]
      /\ ~FrameAt(longer, n + 1)
  BY LongerQueue
<1>2. /\ \A i \in 1 .. n + 1, k \in 0 .. n :
           NoFrameBetween(longer, i, k) <=> NoFrameBetween(queue, i, k)
      /\ \A i \in 1 .. n + 1 : NoFrameBetween(longer, i, n + 1) <=> NoFrameBetween(queue, i, n)
  BY LongerBetween
<1>3. /\ \A i, k \in 1 .. n :
           i < k /\ FrameAt(queue, i) /\ FrameAt(queue, k) /\ NoFrameBetween(queue, i + 1, k - 1) =>
             queue[k].seq = Following(queue[i].seq)
      /\ \A k \in 1 .. n :
           FrameAt(queue, k) /\ NoFrameBetween(queue, 1, k - 1) => ExpectedNext(window, queue[k].seq)
      /\ up => \A i \in 1 .. n :
           FrameAt(queue, i) /\ NoFrameBetween(queue, i + 1, n) => next = Following(queue[i].seq)
      /\ up /\ NoFrameBetween(queue, 1, n) => ExpectedNext(window, next)
  BY DEF Numbered
<1> HIDE DEF longer, n
<1>4. \A i \in 1 .. n + 1 : FrameAt(longer, i) => i \in 1 .. n
  BY <1>1
<1>5. ASSUME NEW i \in 1 .. n + 1, NEW k \in 1 .. n + 1, i < k, FrameAt(longer, i),
             FrameAt(longer, k), NoFrameBetween(longer, i + 1, k - 1)
      PROVE  longer[k].seq = Following(longer[i].seq)
  <2>1. i \in 1 .. n /\ k \in 1 .. n /\ i + 1 \in 1 .. n + 1 /\ k - 1 \in 0 .. n
    BY <1>1, <1>4, <1>5
  <2> QED BY <1>1, <1>2, <1>3, <1>5, <2>1
<1>6. ASSUME NEW k \in 1 .. n + 1, FrameAt(longer, k), NoFrameBetween(longer, 1, k - 1)
      PROVE  ExpectedNext(window, longer[k].seq)
  <2>1. k \in 1 .. n /\ 1 \in 1 .. n + 1 /\ k - 1 \in 0 .. n
    BY <1>1, <1>4, <1>6
  <2> QED BY <1>1, <1>2, <1>3, <1>6, <2>1
<1>7. ASSUME later, NEW i \in 1 .. n + 1, FrameAt(longer, i), NoFrameBetween(longer, i + 1, n + 1)
      PROVE  nextLater = Following(longer[i].seq)
  <2>1. i \in 1 .. n /\ i + 1 \in 1 .. n + 1
    BY <1>1, <1>4, <1>7
  <2> QED BY <1>1, <1>2, <1>3, <1>7, <2>1
<1>8. ASSUME later, NoFrameBetween(longer, 1, n + 1)
      PROVE  ExpectedNext(window, nextLater)
  <2>1. 1 \in 1 .. n + 1
    BY <1>1
  <2> QED BY <1>2, <1>3, <1>8, <2>1
<1>9. Numbered(longer, window, later, nextLater)
  BY <1>1, <1>5, <1>6, <1>7, <1>8 DEF Numbered
<1> QED BY <1>9 DEF longer

\* The Mac writes its next frame.
LEMMA AppendsNext ==
  ASSUME NEW queue \in Seq(Event), NEW event \in Event, NEW window, NEW next,
         event.type = "FRAME", event.seq = next,
         Numbered(queue, window, TRUE, next)
  PROVE  Numbered(Append(queue, event), window, TRUE, Following(next))
<1> DEFINE longer == Append(queue, event)
           n == Len(queue)
           after == Following(next)
<1>1. /\ n \in Nat /\ Len(longer) = n + 1
      /\ longer[n + 1] = event
      /\ \A i \in 1 .. n : FrameAt(longer, i) <=> FrameAt(queue, i)
      /\ \A i \in 1 .. n : longer[i] = queue[i]
  BY LongerQueue
<1>2. /\ \A i \in 1 .. n + 1, k \in 0 .. n :
           NoFrameBetween(longer, i, k) <=> NoFrameBetween(queue, i, k)
      /\ \A i \in 1 .. n + 1 : ~NoFrameBetween(longer, i, n + 1)
  BY LongerBetween
<1>3. /\ \A i, k \in 1 .. n :
           i < k /\ FrameAt(queue, i) /\ FrameAt(queue, k) /\ NoFrameBetween(queue, i + 1, k - 1) =>
             queue[k].seq = Following(queue[i].seq)
      /\ \A k \in 1 .. n :
           FrameAt(queue, k) /\ NoFrameBetween(queue, 1, k - 1) => ExpectedNext(window, queue[k].seq)
      /\ \A i \in 1 .. n :
           FrameAt(queue, i) /\ NoFrameBetween(queue, i + 1, n) => next = Following(queue[i].seq)
      /\ NoFrameBetween(queue, 1, n) => ExpectedNext(window, next)
  BY DEF Numbered
<1>0. after = Following(event.seq)
  OBVIOUS
<1> HIDE DEF longer, n, after
<1>5. ASSUME NEW i \in 1 .. n + 1, NEW k \in 1 .. n + 1, i < k, FrameAt(longer, i),
             FrameAt(longer, k), NoFrameBetween(longer, i + 1, k - 1)
      PROVE  longer[k].seq = Following(longer[i].seq)
  <2>1. i \in 1 .. n /\ i + 1 \in 1 .. n + 1 /\ k - 1 \in 0 .. n
    BY <1>1, <1>5
  <2>2. FrameAt(queue, i) /\ NoFrameBetween(queue, i + 1, k - 1) /\ longer[i] = queue[i]
    BY <1>1, <1>2, <1>5, <2>1
  <2>3. CASE k = n + 1
    <3>1. k - 1 = n
      BY <1>1, <2>3
    <3> QED BY <1>1, <1>3, <2>1, <2>2, <2>3, <3>1
  <2>4. CASE k # n + 1
    <3>1. k \in 1 .. n
      BY <1>1, <2>4
    <3> QED BY <1>1, <1>3, <1>5, <2>1, <2>2, <3>1
  <2> QED BY <2>3, <2>4
<1>6. ASSUME NEW k \in 1 .. n + 1, FrameAt(longer, k), NoFrameBetween(longer, 1, k - 1)
      PROVE  ExpectedNext(window, longer[k].seq)
  <2>1. 1 \in 1 .. n + 1 /\ k - 1 \in 0 .. n
    BY <1>1, <1>6
  <2>2. NoFrameBetween(queue, 1, k - 1)
    BY <1>2, <1>6, <2>1
  <2>3. CASE k = n + 1
    <3>1. k - 1 = n
      BY <1>1, <2>3
    <3> QED BY <1>1, <1>3, <2>2, <2>3, <3>1
  <2>4. CASE k # n + 1
    <3>1. k \in 1 .. n
      BY <1>1, <2>4
    <3> QED BY <1>1, <1>3, <1>6, <2>2, <3>1
  <2> QED BY <2>3, <2>4
<1>7. ASSUME NEW i \in 1 .. n + 1, FrameAt(longer, i), NoFrameBetween(longer, i + 1, n + 1)
      PROVE  after = Following(longer[i].seq)
  <2>1. CASE i = n + 1
    BY <1>0, <1>1, <2>1
  <2>2. CASE i # n + 1
    <3>1. i + 1 \in 1 .. n + 1
      BY <1>1, <2>2
    <3> QED BY <1>2, <1>7, <3>1
  <2> QED BY <2>1, <2>2
<1>8. ~NoFrameBetween(longer, 1, n + 1)
  <2>1. 1 \in 1 .. n + 1
    BY <1>1
  <2> QED BY <1>2, <2>1
<1>9. Numbered(longer, window, TRUE, after)
  BY <1>1, <1>5, <1>6, <1>7, <1>8 DEF Numbered
<1> QED BY <1>9 DEF longer, after

\* A connection begins.
LEMMA AppendsConnection ==
  ASSUME NEW queue \in Seq(Event), NEW event \in Event, NEW window, NEW up, NEW next,
         NEW later, NEW nextLater,
         event.type = "CONNECTED", Numbered(queue, window, up, next)
  PROVE  Numbered(Append(queue, event), window, later, nextLater)
<1> DEFINE longer == Append(queue, event)
           n == Len(queue)
<1>1. /\ n \in Nat /\ Len(longer) = n + 1
      /\ \A i \in 1 .. n : FrameAt(longer, i) <=> FrameAt(queue, i)
      /\ \A i \in 1 .. n : longer[i] = queue[i]
      /\ ~FrameAt(longer, n + 1)
  BY LongerQueue
<1>2. /\ \A i \in 1 .. n + 1, k \in 0 .. n :
           NoFrameBetween(longer, i, k) <=> NoFrameBetween(queue, i, k)
      /\ \A i \in 1 .. n + 1 : ~NoFrameBetween(longer, i, n + 1)
  BY LongerBetween
<1>3. /\ \A i, k \in 1 .. n :
           i < k /\ FrameAt(queue, i) /\ FrameAt(queue, k) /\ NoFrameBetween(queue, i + 1, k - 1) =>
             queue[k].seq = Following(queue[i].seq)
      /\ \A k \in 1 .. n :
           FrameAt(queue, k) /\ NoFrameBetween(queue, 1, k - 1) => ExpectedNext(window, queue[k].seq)
  BY DEF Numbered
<1> HIDE DEF longer, n
<1>4. \A i \in 1 .. n + 1 : FrameAt(longer, i) => i \in 1 .. n
  BY <1>1
<1>5. ASSUME NEW i \in 1 .. n + 1, NEW k \in 1 .. n + 1, i < k, FrameAt(longer, i),
             FrameAt(longer, k), NoFrameBetween(longer, i + 1, k - 1)
      PROVE  longer[k].seq = Following(longer[i].seq)
  <2>1. i \in 1 .. n /\ k \in 1 .. n /\ i + 1 \in 1 .. n + 1 /\ k - 1 \in 0 .. n
    BY <1>1, <1>4, <1>5
  <2> QED BY <1>1, <1>2, <1>3, <1>5, <2>1
<1>6. ASSUME NEW k \in 1 .. n + 1, FrameAt(longer, k), NoFrameBetween(longer, 1, k - 1)
      PROVE  ExpectedNext(window, longer[k].seq)
  <2>1. k \in 1 .. n /\ 1 \in 1 .. n + 1 /\ k - 1 \in 0 .. n
    BY <1>1, <1>4, <1>6
  <2> QED BY <1>1, <1>2, <1>3, <1>6, <2>1
<1>7. \A i \in 1 .. n + 1 : FrameAt(longer, i) => ~NoFrameBetween(longer, i + 1, n + 1)
  <2>1. \A i \in 1 .. n : i + 1 \in 1 .. n + 1
    BY <1>1
  <2> QED BY <1>2, <1>4, <2>1
<1>8. ~NoFrameBetween(longer, 1, n + 1)
  <2>1. 1 \in 1 .. n + 1
    BY <1>1
  <2> QED BY <1>2, <2>1
<1>9. Numbered(longer, window, later, nextLater)
  BY <1>1, <1>5, <1>6, <1>7, <1>8 DEF Numbered
<1> QED BY <1>9 DEF longer

\* What Tail leaves of the queue.
LEMMA ShorterBetween ==
  ASSUME NEW queue \in Seq(Event), queue # << >>
  PROVE  LET rest == Tail(queue)
             n == Len(queue)
         IN  /\ n \in Nat \ {0} /\ Len(rest) = n - 1 /\ Head(queue) = queue[1]
             /\ \A i \in 1 .. n - 1 : rest[i] = queue[i + 1]
             /\ \A i \in 1 .. n - 1 : FrameAt(rest, i) => FrameAt(queue, i + 1)
             /\ \A i \in 1 .. n, k \in 0 .. n - 1 :
                  NoFrameBetween(rest, i, k) => NoFrameBetween(queue, i + 1, k + 1)
             /\ \A k \in 0 .. n - 1 :
                  NoFrameBetween(rest, 1, k) /\ queue[1].type \notin {"FRAME", "CONNECTED"} =>
                    NoFrameBetween(queue, 1, k + 1)
<1> DEFINE rest == Tail(queue)
           n == Len(queue)
<1>1. /\ n \in Nat \ {0} /\ Len(rest) = n - 1
      /\ \A i \in 1 .. n - 1 : rest[i] = queue[i + 1]
      /\ Head(queue) = queue[1]
  BY TakeType
<1>2. n = Len(queue)
  OBVIOUS
<1> HIDE DEF rest, n
<1>3. \A i \in 1 .. n - 1 : FrameAt(rest, i) => FrameAt(queue, i + 1)
  BY <1>1, <1>2 DEF FrameAt
<1>4. ASSUME NEW i \in 1 .. n, NEW k \in 0 .. n - 1, NoFrameBetween(rest, i, k)
      PROVE  NoFrameBetween(queue, i + 1, k + 1)
  <2> SUFFICES ASSUME NEW j \in i + 1 .. k + 1 PROVE queue[j].type \notin {"FRAME", "CONNECTED"}
    BY DEF NoFrameBetween
  <2>1. j - 1 \in i .. k /\ j - 1 \in 1 .. n - 1 /\ (j - 1) + 1 = j
    BY <1>1, <1>4
  <2>2. rest[j - 1] = queue[j]
    BY <1>1, <2>1
  <2>3. rest[j - 1].type \notin {"FRAME", "CONNECTED"}
    BY <1>4, <2>1 DEF NoFrameBetween
  <2> QED BY <2>2, <2>3
<1>5. ASSUME NEW k \in 0 .. n - 1, NoFrameBetween(rest, 1, k),
             queue[1].type \notin {"FRAME", "CONNECTED"}
      PROVE  NoFrameBetween(queue, 1, k + 1)
  <2>1. 1 \in 1 .. n
    BY <1>1
  <2>2. NoFrameBetween(queue, 1 + 1, k + 1)
    BY <1>4, <1>5, <2>1
  <2>3. \A j \in 1 .. k + 1 : j = 1 \/ j \in 1 + 1 .. k + 1
    OBVIOUS
  <2> QED BY <1>5, <2>2, <2>3 DEF NoFrameBetween
<1> QED BY <1>1, <1>3, <1>4, <1>5 DEF rest, n

\* Taking the head.
LEMMA TakesNumbered ==
  ASSUME NEW queue \in Seq(Event), queue # << >>, NEW window, NEW up, NEW next, NEW later,
         Numbered(queue, window, up, next),
         \/ Head(queue).type \notin {"FRAME", "CONNECTED"} /\ later = window
         \/ Head(queue).type = "FRAME" /\ later.newest = Head(queue).seq
         \/ ~later.initialized
  PROVE  Numbered(Tail(queue), later, up, next)
<1> DEFINE rest == Tail(queue)
           n == Len(queue)
           first == Head(queue)
<1>1. /\ n \in Nat \ {0} /\ Len(rest) = n - 1 /\ first = queue[1]
      /\ \A i \in 1 .. n - 1 : rest[i] = queue[i + 1]
      /\ \A i \in 1 .. n - 1 : FrameAt(rest, i) => FrameAt(queue, i + 1)
      /\ \A i \in 1 .. n, k \in 0 .. n - 1 :
           NoFrameBetween(rest, i, k) => NoFrameBetween(queue, i + 1, k + 1)
      /\ \A k \in 0 .. n - 1 :
           NoFrameBetween(rest, 1, k) /\ queue[1].type \notin {"FRAME", "CONNECTED"} =>
             NoFrameBetween(queue, 1, k + 1)
  BY ShorterBetween
<1>2. /\ \A i, k \in 1 .. n :
           i < k /\ FrameAt(queue, i) /\ FrameAt(queue, k) /\ NoFrameBetween(queue, i + 1, k - 1) =>
             queue[k].seq = Following(queue[i].seq)
      /\ \A k \in 1 .. n :
           FrameAt(queue, k) /\ NoFrameBetween(queue, 1, k - 1) => ExpectedNext(window, queue[k].seq)
      /\ up => \A i \in 1 .. n :
           FrameAt(queue, i) /\ NoFrameBetween(queue, i + 1, n) => next = Following(queue[i].seq)
      /\ up /\ NoFrameBetween(queue, 1, n) => ExpectedNext(window, next)
  BY DEF Numbered
<1>3. \/ first.type \notin {"FRAME", "CONNECTED"} /\ later = window
      \/ first.type = "FRAME" /\ later.newest = first.seq
      \/ ~later.initialized
  OBVIOUS
<1>4. first.type = "FRAME" => FrameAt(queue, 1)
  BY <1>1 DEF FrameAt, n
<1> HIDE DEF rest, n, first
<1>5. ASSUME NEW i \in 1 .. n - 1, NEW k \in 1 .. n - 1, i < k, FrameAt(rest, i),
             FrameAt(rest, k), NoFrameBetween(rest, i + 1, k - 1)
      PROVE  rest[k].seq = Following(rest[i].seq)
  <2>1. /\ i + 1 \in 1 .. n /\ k - 1 \in 0 .. n - 1 /\ k + 1 \in 1 .. n
        /\ i + 1 < k + 1 /\ (k - 1) + 1 = (k + 1) - 1
    BY <1>1, <1>5
  <2>2. NoFrameBetween(queue, (i + 1) + 1, (k + 1) - 1)
    BY <1>1, <1>5, <2>1
  <2>3. /\ FrameAt(queue, i + 1) /\ rest[i] = queue[i + 1]
        /\ FrameAt(queue, k + 1) /\ rest[k] = queue[k + 1]
    BY <1>1, <1>5
  <2> QED BY <1>2, <2>1, <2>2, <2>3
<1>6. ASSUME NEW k \in 1 .. n - 1, FrameAt(rest, k), NoFrameBetween(rest, 1, k - 1)
      PROVE  ExpectedNext(later, rest[k].seq)
  <2>1. /\ 1 \in 1 .. n /\ k - 1 \in 0 .. n - 1 /\ k + 1 \in 1 .. n
        /\ 1 < k + 1 /\ (k - 1) + 1 = (k + 1) - 1
    BY <1>1
  <2>2. FrameAt(queue, k + 1) /\ rest[k] = queue[k + 1]
        /\ NoFrameBetween(queue, 1 + 1, (k + 1) - 1)
    BY <1>1, <1>6, <2>1
  <2>3. CASE first.type \notin {"FRAME", "CONNECTED"} /\ later = window
    <3>1. NoFrameBetween(queue, 1, (k + 1) - 1)
      BY <1>1, <1>6, <2>1, <2>3
    <3> QED BY <1>2, <2>1, <2>2, <2>3, <3>1
  <2>4. CASE first.type = "FRAME" /\ later.newest = first.seq
    <3>1. queue[k + 1].seq = Following(queue[1].seq)
      BY <1>2, <1>4, <2>1, <2>2, <2>4
    <3> QED BY <1>1, <2>2, <2>4, <3>1 DEF ExpectedNext
  <2> QED BY <1>3, <2>3, <2>4 DEF ExpectedNext
<1>7. ASSUME up, NEW i \in 1 .. n - 1, FrameAt(rest, i), NoFrameBetween(rest, i + 1, n - 1)
      PROVE  next = Following(rest[i].seq)
  <2>1. i + 1 \in 1 .. n /\ n - 1 \in 0 .. n - 1 /\ (n - 1) + 1 = n
    BY <1>1
  <2>2. NoFrameBetween(queue, (i + 1) + 1, n)
    BY <1>1, <1>7, <2>1
  <2> QED BY <1>1, <1>2, <1>7, <2>1, <2>2
<1>8. ASSUME up, NoFrameBetween(rest, 1, n - 1)
      PROVE  ExpectedNext(later, next)
  <2>1. 1 \in 1 .. n /\ n - 1 \in 0 .. n - 1 /\ (n - 1) + 1 = n
    BY <1>1
  <2>2. NoFrameBetween(queue, 1 + 1, n)
    BY <1>1, <1>8, <2>1
  <2>3. CASE first.type \notin {"FRAME", "CONNECTED"} /\ later = window
    <3>1. NoFrameBetween(queue, 1, n)
      BY <1>1, <1>8, <2>1, <2>3
    <3> QED BY <1>2, <1>8, <2>3, <3>1
  <2>4. CASE first.type = "FRAME" /\ later.newest = first.seq
    <3>1. next = Following(queue[1].seq)
      BY <1>2, <1>4, <1>8, <2>1, <2>2, <2>4
    <3> QED BY <1>1, <2>4, <3>1 DEF ExpectedNext
  <2> QED BY <1>3, <2>3, <2>4 DEF ExpectedNext
<1>9. Numbered(rest, later, up, next)
  BY <1>1, <1>5, <1>6, <1>7, <1>8 DEF Numbered
<1> QED BY <1>9 DEF rest

\* The next number is accepted, and becomes the newest.
LEMMA AcceptsNext ==
  ASSUME SeqMod \notin {1, 2, 3}, NEW window \in Window, NEW seq \in SequenceNumber,
         ExpectedNext(window, seq)
  PROVE  /\ Accepts(window, seq)
         /\ AfterSequence(window, seq).newest = seq
<1>1. CASE ~window.initialized
  BY <1>1 DEF Accepts, AfterSequence
<1>2. CASE window.initialized
  <2> DEFINE newest == window.newest
  <2>1. SeqMod \in Nat \ {0, 1, 2, 3} /\ newest \in 0 .. SeqMod - 1
    BY SequenceAssumption DEF Window, SequenceNumber
  <2>2. seq = IF newest + 1 = SeqMod THEN 0 ELSE newest + 1
    BY <1>2 DEF ExpectedNext, Following
  <2>3. (seq - newest) % SeqMod = 1
    <3> HIDE DEF newest
    <3>1. CASE newest + 1 = SeqMod
      <4>1. seq - newest = 1 - SeqMod /\ 1 \in 0 .. SeqMod - 1
        BY <2>1, <2>2, <3>1
      <4> QED BY <2>1, <4>1, Modulo
    <3>2. CASE newest + 1 # SeqMod
      <4>1. seq - newest = 1 /\ 1 \in 0 .. SeqMod - 1
        BY <2>1, <2>2, <3>2
      <4> QED BY <2>1, <4>1, Modulo
    <3> QED BY <3>1, <3>2
  <2>4. SeqMod \div 2 > 1
    BY <2>1
  <2>5. IsNewest(window, seq)
    BY <2>3, <2>4 DEF IsNewest, Forward
  <2> QED BY <1>2, <2>5 DEF Accepts, AfterSequence, Window
<1> QED BY <1>1, <1>2

\* n is q times m and a rest, in one way only.
LEMMA Division ==
  ASSUME NEW m \in Nat \ {0}, NEW n \in Nat
  PROVE  /\ n \div m \in Int /\ n % m \in 0 .. m - 1
         /\ n = (n \div m) * m + (n % m)
  OBVIOUS

LEMMA OneRest ==
  ASSUME NEW m \in Nat \ {0}, NEW n \in Nat, NEW q \in Int, NEW r \in 0 .. m - 1, n = q * m + r
  PROVE  n % m = r
<1> DEFINE p == n \div m
           s == n % m
<1>1. p \in Int /\ s \in 0 .. m - 1 /\ n = p * m + s
  BY Division
<1> SUFFICES s = r
  OBVIOUS
<1> HIDE DEF p, s
<1>2. CASE q > p
  <2>1. (q - p) * m >= m
    BY <1>1, <1>2
  <2>2. (q - p) * m = s - r
    BY <1>1
  <2> QED BY <1>1, <2>1, <2>2
<1>3. CASE q < p
  <2>1. (p - q) * m >= m
    BY <1>1, <1>3
  <2>2. (p - q) * m = r - s
    BY <1>1
  <2> QED BY <1>1, <2>1, <2>2
<1>4. CASE q = p
  BY <1>1, <1>4
<1> QED BY <1>1, <1>2, <1>3, <1>4

\* A counter that counts on takes the next number.
LEMMA NextNumber ==
  ASSUME NEW n \in Nat
  PROVE  n % SeqMod \in SequenceNumber /\ (n + 1) % SeqMod = Following(n % SeqMod)
<1> DEFINE m == SeqMod
           p == n \div m
           s == n % m
<1>0. m \in Nat \ {0}
  BY SequenceAssumption
<1>1. p \in Int /\ s \in 0 .. m - 1 /\ n = p * m + s
  BY <1>0, Division
<1> SUFFICES (n + 1) % m = IF s + 1 = m THEN 0 ELSE s + 1
  BY <1>1 DEF Following, SequenceNumber
<1> HIDE DEF m, p, s
<1>2. CASE s + 1 = m
  <2>1. n + 1 = (p + 1) * m + 0 /\ 0 \in 0 .. m - 1 /\ p + 1 \in Int /\ n + 1 \in Nat
    BY <1>0, <1>1, <1>2
  <2>2. (n + 1) % m = 0
    BY <1>0, <2>1, OneRest
  <2> QED BY <1>2, <2>2
<1>3. CASE s + 1 # m
  <2>1. n + 1 = p * m + (s + 1) /\ s + 1 \in 0 .. m - 1 /\ n + 1 \in Nat
    BY <1>0, <1>1, <1>3
  <2>2. (n + 1) % m = s + 1
    BY <1>0, <1>1, <2>1, OneRest
  <2> QED BY <1>3, <2>2
<1> QED BY <1>2, <1>3

\* Nothing is added or taken, and the Mac writes nothing.
LEMMA NumberKept ==
  ASSUME NumberInv, UNCHANGED <<bleQueue, rxWindow>>, link'.connected = link.connected,
         mac'.seq = mac.seq
  PROVE  NumberInv'
  BY DEF NumberInv

\* The head is taken.
LEMMA TakesNumber ==
  ASSUME TypeOK, NumberInv, TakeEvent, mac'.seq = mac.seq,
         \/ Taken.type \notin {"FRAME", "CONNECTED"} /\ rxWindow' = rxWindow
         \/ Taken.type = "FRAME" /\ rxWindow'.newest = Taken.seq
         \/ ~rxWindow'.initialized
  PROVE  NumberInv'
<1> DEFINE up == link.connected
           next == mac.seq % SeqMod
           later == rxWindow'
<1>1. Numbered(bleQueue, rxWindow, up, next)
  BY DEF NumberInv
<1>2. bleQueue \in Seq(Event) /\ bleQueue # << >> /\ bleQueue' = Tail(bleQueue) /\ link' = link
  BY DEF TypeOK, TakeEvent
<1>3. NumberInv' <=> Numbered(bleQueue', later, up, next)
  BY <1>2 DEF NumberInv
<1>4. \/ Head(bleQueue).type \notin {"FRAME", "CONNECTED"} /\ later = rxWindow
      \/ Head(bleQueue).type = "FRAME" /\ later.newest = Head(bleQueue).seq
      \/ ~later.initialized
  BY DEF Taken
<1> HIDE DEF up, next, later
<1>5. Numbered(Tail(bleQueue), later, up, next)
  BY <1>1, <1>2, <1>4, TakesNumbered
<1> QED BY <1>2, <1>3, <1>5

\* The frame at the head has the number that the window takes for the next.
LEMMA HeadIsNext ==
  ASSUME TypeOK, NumberInv, bleQueue # << >>, Taken.type = "FRAME"
  PROVE  Taken.seq \in SequenceNumber /\ ExpectedNext(rxWindow, Taken.seq)
<1>1. /\ bleQueue \in Seq(Event) /\ Len(bleQueue) \in Nat \ {0}
      /\ Taken = bleQueue[1] /\ Taken \in Event
  BY TakeType DEF TypeOK, Taken
<1>2. FrameAt(bleQueue, 1) /\ 1 \in 1 .. Len(bleQueue)
  BY <1>1 DEF FrameAt
<1>3. NoFrameBetween(bleQueue, 1, 1 - 1)
  BY DEF NoFrameBetween
<1>4. ExpectedNext(rxWindow, bleQueue[1].seq)
  BY <1>2, <1>3, Zenon DEF NumberInv, Numbered
<1> QED BY <1>1, <1>4 DEF Event

\* A frame is never ignored, and the window goes on to its number.
LEMMA FrameAccepted ==
  ASSUME SeqMod \notin {1, 2, 3}, TypeOK, NumberInv, bleQueue # << >>, Taken.type = "FRAME"
  PROVE  Accepts(rxWindow, Taken.seq) /\ AfterSequence(rxWindow, Taken.seq).newest = Taken.seq
  BY HeadIsNext, AcceptsNext DEF TypeOK

\* The Mac's answers do not count as frames of it.
LEMMA AnswerKeepsNumber ==
  ASSUME NEW m \in Mac, NEW n, NEW succeeded
  PROVE  AfterChallenge(m, n).seq = m.seq /\ AfterResult(m, succeeded).seq = m.seq
  BY DEF AfterChallenge, AfterResult, Mac

\* What LinkChanges posts.
LEMMA ChangePosts ==
  ASSUME TypeOK, LinkChanges
  PROVE  \E event \in Event :
           /\ HasRoom(1) /\ bleQueue' = Post(bleQueue, event)
           /\ event.type \in {"SECURITY_CHANGED", "OTHER"}
           /\ link'.connected = link.connected
<1>1. ASSUME NEW state \in Link, NEW type \in {"SECURITY_CHANGED", "OTHER"},
             NEW secure \in BOOLEAN
      PROVE  /\ SimpleEvent(type, state, secure) \in Event
             /\ SimpleEvent(type, state, secure).type = type
  BY SimpleEventType DEF EventType, SimpleEvent
<1>2. CASE \E succeeded \in BOOLEAN : GapEncChange(succeeded)
  <2>1. PICK succeeded \in BOOLEAN : GapEncChange(succeeded)
    BY <1>2
  <2>2. /\ link' \in Link /\ link'.connected = link.connected /\ HasRoom(1)
        /\ bleQueue' = Post(bleQueue, SimpleEvent("SECURITY_CHANGED", link', succeeded))
    BY <2>1 DEF GapEncChange, TypeOK, Link
  <2> QED BY <1>1, <2>2
<1>3. CASE \E enabled \in BOOLEAN : GapSubscribe(enabled)
  <2>1. PICK enabled \in BOOLEAN : GapSubscribe(enabled)
    BY <1>3
  <2>2. /\ link' \in Link /\ link'.connected = link.connected /\ HasRoom(1)
        /\ bleQueue' = Post(bleQueue, SimpleEvent("OTHER", link', FALSE))
    BY <2>1 DEF GapSubscribe, TypeOK, Link
  <2> QED BY <1>1, <2>2
<1>4. CASE GapOther
  <2>1. /\ link \in Link /\ UNCHANGED link /\ HasRoom(1)
        /\ bleQueue' = Post(bleQueue, SimpleEvent("OTHER", link, FALSE))
    BY <1>4 DEF GapOther, TypeOK
  <2> QED BY <1>1, <2>1
<1> QED BY <1>2, <1>3, <1>4 DEF LinkChanges

LEMMA NumberInductive ==
  SeqMod \notin {1, 2, 3} /\ TypeOK /\ ~DropsAllowed /\ NumberInv /\ [Next]_vars => NumberInv'
<1> SUFFICES ASSUME SeqMod \notin {1, 2, 3}, TypeOK, ~DropsAllowed, NumberInv, [Next]_vars
             PROVE  NumberInv'
  OBVIOUS
<1>1. mac \in Mac
  BY DEF TypeOK
<1>2. ASSUME NEW message, TakeFrame(message), mac'.seq = mac.seq PROVE NumberInv'
  BY <1>2, FrameAccepted, TakesNumber DEF TakeFrame, TakeEvent
<1>3. CASE HandleConnected
  <2>1. ~rxWindow'.initialized
    BY <1>3 DEF HandleConnected, WindowOnConnect, EmptyWindow
  <2> QED BY <1>3, <2>1, TakesNumber DEF HandleConnected
<1>4. CASE HandleDisconnected \/ HandleSecurityChanged \/ HandleOther
  BY <1>4, TakesNumber DEF HandleDisconnected, HandleSecurityChanged, HandleOther
<1>5. CASE IgnoreFrame
  BY <1>5, FrameAccepted DEF IgnoreFrame, TakeEvent
<1>6. CASE HandleHello \/ HandleMalformedHello \/ HandleAuthSuccess \/ HandleAuthFailure
  <2>1. ASSUME NEW n, NEW succeeded,
               mac' \in {mac, AfterChallenge(mac, n), AfterResult(mac, succeeded)}
        PROVE  mac'.seq = mac.seq
    BY <1>1, <2>1, AnswerKeepsNumber
  <2>2. \E n, succeeded : mac' \in {mac, AfterChallenge(mac, n), AfterResult(mac, succeeded)}
    <3>1. CASE HandleHello
      <4>1. mac' \in {mac, AfterChallenge(mac, challenge')}
        BY <3>1 DEF HandleHello
      <4> QED BY <4>1
    <3>2. CASE HandleMalformedHello \/ HandleAuthFailure
      <4>1. mac' \in {mac, AfterResult(mac, FALSE)}
        BY <3>2 DEF HandleMalformedHello, HandleAuthFailure
      <4> QED BY <4>1
    <3>3. CASE HandleAuthSuccess
      <4>1. mac' \in {mac, AfterResult(mac, TRUE)}
        BY <3>3 DEF HandleAuthSuccess
      <4> QED BY <4>1
    <3> QED BY <1>6, <3>1, <3>2, <3>3
  <2>3. mac'.seq = mac.seq
    BY <2>1, <2>2
  <2> QED
    BY <1>2, <1>6, <2>3
    DEF HandleHello, HandleMalformedHello, HandleAuthSuccess, HandleAuthFailure
<1>7. CASE HandleHeartbeat \/ HandleLock \/ HandlePrivateState
  BY <1>2, <1>7 DEF HandleHeartbeat, HandleLock, HandlePrivateState
<1>8. CASE ApplyActions
  <2>1. link'.connected = link.connected
    BY <1>8
    DEF ApplyActions, BacklightOff, ClearPrivateData, UpdateUi, BacklightOn, DisconnectBle,
        LinkDisconnect, TypeOK, Link
  <2>2. UNCHANGED <<bleQueue, rxWindow, mac>>
    BY <1>8
    DEF ApplyActions, BacklightOff, ClearPrivateData, UpdateUi, BacklightOn, DisconnectBle,
        UnchangedByApply
  <2> QED BY <2>1, <2>2, NumberKept
<1>9. CASE ReceiveTimeout \/ ReadClock \/ HandleUiAction \/ PollTimeouts
  BY <1>9, NumberKept DEF ReceiveTimeout, ReadClock, HandleUiAction, PollTimeouts, linkVars
<1>10. CASE TouchUi \/ Tick \/ UNCHANGED vars
  BY <1>10, NumberKept DEF TouchUi, Tick, vars, linkVars, deskVars
<1>11. CASE MacGivesUp
  <2>1. mac'.seq = mac.seq /\ UNCHANGED <<bleQueue, rxWindow, link>>
    BY <1>1, <1>11 DEF MacGivesUp, linkVars, deskVars, Mac
  <2> QED BY <2>1, NumberKept
<1>12. CASE MacSendsFrame
  <2>1. PICK message \in Message, answers \in Nat : MacSends(message, answers)
    BY <1>1, <1>12 DEF MacSendsFrame, Message, Mac
  <2> DEFINE next == mac.seq % SeqMod
             event == [type |-> "FRAME", conn |-> link.conn, secure |-> TRUE,
                       message |-> message, seq |-> next, answers |-> answers]
  <2>2. event \in Event
    BY NextNumber, <1>1 DEF Event, EventType, TypeOK, Link, Mac
  <2>3. /\ HasRoom(1) /\ bleQueue' = Post(bleQueue, event)
        /\ link.connected = TRUE /\ UNCHANGED <<link, rxWindow>>
    BY <2>1 DEF MacSends, ReceiveFrame, deskVars, TypeOK, Link
  <2>4. mac'.seq = mac.seq + 1 /\ mac.seq \in Nat
    BY <1>1, <2>1 DEF MacSends, Mac
  <2>5. event.type = "FRAME" /\ event.seq = next
    OBVIOUS
  <2>6. bleQueue' = Append(bleQueue, event) /\ bleQueue \in Seq(Event)
    BY <2>3, PostAppends DEF TypeOK
  <2>7. mac'.seq % SeqMod = Following(next)
    BY <2>4, NextNumber
  <2>8. Numbered(bleQueue, rxWindow, TRUE, next)
    BY <2>3 DEF NumberInv
  <2>9. NumberInv' <=> Numbered(bleQueue', rxWindow, TRUE, Following(next))
    BY <2>3, <2>7 DEF NumberInv
  <2> HIDE DEF next, event
  <2> QED BY <2>2, <2>5, <2>6, <2>8, <2>9, AppendsNext
<1>13. ASSUME NEW event \in Event, event.type \notin {"FRAME", "CONNECTED"},
              bleQueue' = Append(bleQueue, event), rxWindow' = rxWindow,
              link'.connected => link.connected /\ mac' = mac,
              link'.connected \in BOOLEAN
       PROVE  NumberInv'
  <2> DEFINE up == link.connected
             later == link'.connected
             next == mac.seq % SeqMod
             nextLater == mac'.seq % SeqMod
  <2>1. up \in BOOLEAN /\ later \in BOOLEAN /\ (later => up /\ nextLater = next)
    BY <1>13 DEF TypeOK, Link
  <2>2. Numbered(bleQueue, rxWindow, up, next) /\ bleQueue \in Seq(Event)
    BY DEF NumberInv, TypeOK
  <2>3. NumberInv' <=> Numbered(bleQueue', rxWindow, later, nextLater)
    BY <1>13 DEF NumberInv
  <2> HIDE DEF up, later, next, nextLater
  <2> QED BY <1>13, <2>1, <2>2, <2>3, AppendsUnnumbered
<1>14. CASE LinkChanges
  <2>1. PICK event \in Event :
           /\ HasRoom(1) /\ bleQueue' = Post(bleQueue, event)
           /\ event.type \in {"SECURITY_CHANGED", "OTHER"}
           /\ link'.connected = link.connected
    BY <1>14, ChangePosts
  <2>2. mac' = mac /\ rxWindow' = rxWindow
    BY <1>14 DEF LinkChanges, deskVars
  <2>3. bleQueue' = Append(bleQueue, event) /\ link.connected \in BOOLEAN
    BY <2>1, PostAppends DEF TypeOK, Link
  <2> QED BY <1>13, <2>1, <2>2, <2>3
<1>15. CASE LinkUp
  <2>1. PICK begin \in Event, secured \in Event :
           /\ begin.type = "CONNECTED" /\ secured.type = "SECURITY_CHANGED"
           /\ bleQueue' \in {Append(bleQueue, begin), Append(Append(bleQueue, begin), secured)}
           /\ link' \in Link
    BY <1>15, LinkUpPosts
  <2> DEFINE up == link.connected
             later == link'.connected
             next == mac.seq % SeqMod
             nextLater == mac'.seq % SeqMod
  <2>2. Numbered(bleQueue, rxWindow, up, next)
    BY DEF NumberInv
  <2>3. NumberInv' <=> Numbered(bleQueue', rxWindow, later, nextLater)
    BY <1>15 DEF NumberInv, LinkUp, deskVars
  <2>4. bleQueue \in Seq(Event) /\ Append(bleQueue, begin) \in Seq(Event) /\ later \in BOOLEAN
    BY <2>1 DEF TypeOK, Link
  <2> HIDE DEF up, later, next, nextLater
  <2>5. Numbered(Append(bleQueue, begin), rxWindow, later, nextLater)
    BY <2>1, <2>2, <2>4, AppendsConnection
  <2>6. Numbered(Append(Append(bleQueue, begin), secured), rxWindow, later, nextLater)
    <3>1. secured.type \notin {"FRAME", "CONNECTED"}
      BY <2>1
    <3> DEFINE begun == Append(bleQueue, begin)
    <3>2. begun \in Seq(Event) /\ Numbered(begun, rxWindow, later, nextLater)
      BY <2>4, <2>5
    <3> HIDE DEF begun
    <3>3. Numbered(Append(begun, secured), rxWindow, later, nextLater)
      BY <2>4, <3>1, <3>2, AppendsUnnumbered
    <3> QED BY <3>3 DEF begun
  <2>7. CASE bleQueue' = Append(bleQueue, begin)
    BY <2>3, <2>5, <2>7
  <2>8. CASE bleQueue' = Append(Append(bleQueue, begin), secured)
    BY <2>3, <2>6, <2>8
  <2> QED BY <2>1, <2>7, <2>8
<1>16. CASE LinkDown
  <2> DEFINE end == SimpleEvent("DISCONNECTED", link, FALSE)
  <2>1. end \in Event /\ end.type = "DISCONNECTED"
    BY SimpleEventType DEF EventType, TypeOK, SimpleEvent
  <2>2. HasRoom(1) /\ bleQueue' = Post(bleQueue, end) /\ rxWindow' = rxWindow
    BY <1>16 DEF LinkDown, GapDisconnect, deskVars
  <2>3. bleQueue' = Append(bleQueue, end)
    BY <2>2, PostAppends
  <2>4. ~link'.connected /\ link'.connected \in BOOLEAN
    BY <1>16 DEF LinkDown, GapDisconnect, NoLink
  <2> HIDE DEF end
  <2> QED BY <1>13, <2>1, <2>2, <2>3, <2>4
<1> QED
  BY <1>3, <1>4, <1>5, <1>6, <1>7, <1>8, <1>9, <1>10, <1>11, <1>12, <1>14, <1>15, <1>16
  DEF Next, Supervisor, HandleEvent, Environment

LEMMA NumberInit == Init => NumberInv
<1> SUFFICES ASSUME Init PROVE NumberInv
  OBVIOUS
<1>1. bleQueue = << >> /\ ~link.connected
  BY DEF Init, LinkInit, NoLink
<1>2. \A i \in 1 .. Len(bleQueue) : FALSE
  BY <1>1
<1> QED BY <1>1, <1>2 DEF NumberInv, Numbered

\* As long as no transport event is lost, no frame of a Mac that counts its
\* frames is taken for a replay, however long the queue and however often the
\* number wraps (desk_sequence_window_accept, and the memset of rx_sequences
\* when a connection is handled).  The next number has to be less than half of
\* all numbers ahead: four are enough, and the code has 2^16.
THEOREM NoneIgnored == ~DropsAllowed /\ SeqMod \notin {1, 2, 3} => (Spec => NoFrameIgnored)
<1> SUFFICES ASSUME ~DropsAllowed, SeqMod \notin {1, 2, 3} PROVE Spec => NoFrameIgnored
  OBVIOUS
<1>1. Init => TypeOK /\ NumberInv
  BY TypeInit, NumberInit
<1>2. TypeOK /\ NumberInv /\ [Next]_vars => TypeOK' /\ NumberInv'
  BY TypeInductive, NumberInductive
<1>3. TypeOK /\ NumberInv /\ [Next]_vars =>
        [bleQueue # << >> /\ Taken.type = "FRAME" /\ bleQueue' = Tail(bleQueue) =>
           Accepts(rxWindow, Taken.seq)]_vars
  BY FrameAccepted
<1> QED BY <1>1, <1>2, <1>3, PTL DEF Spec, NoFrameIgnored

------------------------------------------------------------------------------
(* Replays                                                                  *)

\* The window does not take the number.
Refused(window, seq) == window.initialized /\ ~Accepts(window, seq)

\* By how much the newest number goes on.
Advance(before, after) == Forward(before, after.newest)

\* The bit of the newest number is set.
NewestSeen == rxWindow.initialized => 0 \in rxWindow.seen

\* The distances, without the modulus.
LEMMA Distances ==
  ASSUME NEW window \in Window, NEW seq \in SequenceNumber
  PROVE  /\ Forward(window, seq) = IF window.newest <= seq THEN seq - window.newest
                                   ELSE seq - window.newest + SeqMod
         /\ Age(window, seq) = IF seq <= window.newest THEN window.newest - seq
                               ELSE window.newest - seq + SeqMod
<1>1. SeqMod \in Nat \ {0} /\ window.newest \in 0 .. SeqMod - 1 /\ seq \in 0 .. SeqMod - 1
  BY SequenceAssumption DEF Window, SequenceNumber
<1>2. ASSUME NEW m \in Nat \ {0}, NEW x \in 0 .. m - 1, NEW y \in 0 .. m - 1
      PROVE  (x - y) % m = IF y <= x THEN x - y ELSE x - y + m
  <2>1. CASE y <= x
    <3>1. x - y \in 0 .. m - 1
      BY <1>2, <2>1
    <3> QED BY <1>2, <2>1, <3>1, Modulo
  <2>2. CASE ~(y <= x)
    <3> DEFINE d == x - y + m
    <3>1. d \in 0 .. m - 1 /\ d - m = x - y
      BY <1>2, <2>2
    <3>2. (d - m) % m = d
      <4> HIDE DEF d
      <4> QED BY <1>2, <3>1, Modulo
    <3> QED BY <2>2, <3>1, <3>2
  <2> QED BY <2>1, <2>2
<1> QED BY <1>1, <1>2 DEF Forward, Age

\* Taking one number keeps another one refused.
LEMMA RefusedStays ==
  ASSUME SeqMod = 2 * (SeqMod \div 2), NEW window \in Window, 0 \in window.seen,
         NEW seq \in SequenceNumber, NEW taken \in SequenceNumber,
         Refused(window, seq),
         Age(window, seq) + Advance(window, AfterSequence(window, taken)) <= SeqMod \div 2
  PROVE  LET next == AfterSequence(window, taken)
         IN  /\ Refused(next, seq)
             /\ Age(next, seq) = Age(window, seq) + Advance(window, next)
<1> DEFINE next == AfterSequence(window, taken)
           half == SeqMod \div 2
           age == Age(window, seq)
           ahead == Forward(window, taken)
<1>1. /\ SeqMod \in Nat \ {0} /\ half \in Nat /\ SeqMod = 2 * half
      /\ WindowSize \in Nat \ {0}
      /\ window.newest \in 0 .. SeqMod - 1 /\ seq \in 0 .. SeqMod - 1 /\ taken \in 0 .. SeqMod - 1
  BY SequenceAssumption DEF Window, SequenceNumber
<1>2. /\ next \in Window
      /\ next.initialized
  BY WindowType DEF AfterSequence, Refused, Window
<1>3. age \in 0 .. SeqMod - 1 /\ ahead \in 0 .. SeqMod - 1
  BY <1>1, Distances
<1>4. age < WindowSize => age \in window.seen
  <2>1. CASE Forward(window, seq) = 0
    <3>1. age = 0
      BY <1>1, <2>1, Distances
    <3> QED BY <3>1
  <2>2. CASE Forward(window, seq) # 0
    BY <2>2 DEF Refused, Accepts, FillsGap
  <2> QED BY <2>1, <2>2
<1>5. CASE IsNewest(window, taken)
  <2>1. next.newest = taken /\ next.seen = Shift(window.seen, ahead) \cup {0}
    BY <1>5 DEF AfterSequence, Refused, Window
  <2>2. ahead \in 1 .. half - 1 /\ Advance(window, next) = ahead /\ age + ahead <= half
    BY <1>1, <1>3, <1>5, <2>1 DEF IsNewest, Advance
  <2>3. Age(next, seq) = age + ahead
    <3>1. /\ ahead = IF window.newest <= taken THEN taken - window.newest
                     ELSE taken - window.newest + SeqMod
          /\ age = IF seq <= window.newest THEN window.newest - seq
                   ELSE window.newest - seq + SeqMod
          /\ Age(next, seq) = IF seq <= taken THEN taken - seq ELSE taken - seq + SeqMod
      BY <1>1, <1>2, <2>1, Distances DEF SequenceNumber
    <3> HIDE DEF age, ahead, half, next
    <3> QED BY <1>1, <1>3, <2>2, <3>1
  <2>4. Forward(next, seq) = SeqMod - Age(next, seq)
    <3>1. Age(next, seq) \in 1 .. half
      BY <1>1, <1>3, <2>2, <2>3
    <3>2. /\ Forward(next, seq) = IF taken <= seq THEN seq - taken ELSE seq - taken + SeqMod
          /\ Age(next, seq) = IF seq <= taken THEN taken - seq ELSE taken - seq + SeqMod
      BY <1>2, <2>1, Distances
    <3> QED BY <1>1, <3>1, <3>2
  <2>5. ~IsNewest(next, seq)
    BY <1>1, <1>3, <2>2, <2>3, <2>4 DEF IsNewest
  <2>6. ~FillsGap(next, seq)
    <3> SUFFICES ASSUME age + ahead < WindowSize PROVE age + ahead \in next.seen
      BY <2>3 DEF FillsGap
    <3>1. age \in window.seen /\ age + ahead \in 0 .. WindowSize - 1
      BY <1>1, <1>3, <1>4, <2>2
    <3> QED BY <2>1, <3>1 DEF Shift
  <2> QED BY <1>2, <2>2, <2>3, <2>5, <2>6 DEF Refused, Accepts
<1>6. CASE ~IsNewest(window, taken)
  <2>1. next.newest = window.newest /\ window.seen \subseteq next.seen
    BY <1>6 DEF AfterSequence, Refused, Window
  <2>2. /\ Age(next, seq) = age /\ Forward(next, seq) = Forward(window, seq)
        /\ Forward(window, next.newest) = 0
    BY <1>1, <2>1, Modulo DEF Age, Forward
  <2>3. ~IsNewest(next, seq) /\ ~FillsGap(next, seq)
    BY <2>1, <2>2 DEF Refused, Accepts, IsNewest, FillsGap
  <2> QED BY <1>2, <1>3, <2>2, <2>3 DEF Refused, Accepts, Advance
<1> QED BY <1>5, <1>6

\* The number that is taken is refused from then on.
LEMMA TakenIsRefused ==
  ASSUME NEW window \in Window, window.initialized => 0 \in window.seen,
         NEW seq \in SequenceNumber
  PROVE  Accepts(window, seq) =>
           /\ Refused(AfterSequence(window, seq), seq)
           /\ Age(AfterSequence(window, seq), seq) = 0
              \/ Age(AfterSequence(window, seq), seq) < WindowSize
<1> SUFFICES ASSUME Accepts(window, seq)
             PROVE  /\ Refused(AfterSequence(window, seq), seq)
                    /\ Age(AfterSequence(window, seq), seq) = 0
                       \/ Age(AfterSequence(window, seq), seq) < WindowSize
  OBVIOUS
<1> DEFINE next == AfterSequence(window, seq)
<1>1. SeqMod \in Nat \ {0} /\ seq \in 0 .. SeqMod - 1 /\ WindowSize \in Nat \ {0}
  BY SequenceAssumption DEF SequenceNumber
<1>2. CASE ~window.initialized \/ IsNewest(window, seq)
  <2>1. next.newest = seq /\ next.initialized
    BY <1>2 DEF AfterSequence, Window
  <2>2. Forward(next, seq) = 0 /\ Age(next, seq) = 0
    BY <1>1, <2>1, Modulo DEF Forward, Age
  <2> QED BY <2>1, <2>2 DEF Refused, Accepts, IsNewest, FillsGap
<1>3. CASE window.initialized /\ ~IsNewest(window, seq)
  <2>1. FillsGap(window, seq)
    BY <1>3 DEF Accepts
  <2>2. /\ next.newest = window.newest /\ next.initialized
        /\ next.seen = window.seen \cup {Age(window, seq)}
    BY <1>3, <2>1 DEF AfterSequence, Window
  <2>3. Forward(next, seq) = Forward(window, seq) /\ Age(next, seq) = Age(window, seq)
    BY <2>2 DEF Forward, Age
  <2> QED BY <1>3, <2>1, <2>2, <2>3 DEF Refused, Accepts, IsNewest, FillsGap
<1> QED BY <1>2, <1>3

\* The steps that change the window.
LEMMA WindowSteps ==
  ASSUME TypeOK, [Next]_vars
  PROVE  \/ UNCHANGED rxWindow
         \/ rxWindow' = EmptyWindow
         \/ \E seq \in SequenceNumber : rxWindow' = AfterSequence(rxWindow, seq)
<1>1. CASE HandleConnected
  BY <1>1 DEF HandleConnected, WindowOnConnect
<1>2. ASSUME NEW message, TakeFrame(message)
      PROVE  \E seq \in SequenceNumber : rxWindow' = AfterSequence(rxWindow, seq)
  BY <1>2, TakenType DEF TakeFrame, TakeEvent, Event
<1>3. CASE \/ HandleHello \/ HandleMalformedHello \/ HandleAuthSuccess \/ HandleAuthFailure
           \/ HandleHeartbeat \/ HandleLock \/ HandlePrivateState
  BY <1>2, <1>3
  DEF HandleHello, HandleMalformedHello, HandleAuthSuccess, HandleAuthFailure, HandleHeartbeat,
      HandleLock, HandlePrivateState
<1>4. CASE HandleDisconnected \/ HandleSecurityChanged \/ HandleOther \/ IgnoreFrame
  BY <1>4 DEF HandleDisconnected, HandleSecurityChanged, HandleOther, IgnoreFrame
<1>5. CASE ApplyActions
  BY <1>5 DEF ApplyActions, BacklightOff, ClearPrivateData, UpdateUi, BacklightOn, DisconnectBle,
              UnchangedByApply
<1>6. CASE ReceiveTimeout \/ ReadClock \/ HandleUiAction \/ PollTimeouts \/ UNCHANGED vars
  BY <1>6 DEF ReceiveTimeout, ReadClock, HandleUiAction, PollTimeouts, vars, deskVars
<1>7. CASE Environment
  BY <1>7 DEF Environment, TouchUi, MacSendsFrame, MacSends, MacGivesUp, LinkUp, LinkDown,
              LinkChanges, Tick, deskVars
<1> QED BY <1>1, <1>3, <1>4, <1>5, <1>6, <1>7 DEF Next, Supervisor, HandleEvent

LEMMA SeenInductive == TypeOK /\ NewestSeen /\ [Next]_vars => NewestSeen'
<1> SUFFICES ASSUME TypeOK, NewestSeen, [Next]_vars PROVE NewestSeen'
  OBVIOUS
<1>1. CASE UNCHANGED rxWindow
  BY <1>1 DEF NewestSeen
<1>2. CASE rxWindow' = EmptyWindow
  BY <1>2 DEF NewestSeen, EmptyWindow
<1>3. ASSUME NEW seq, rxWindow' = AfterSequence(rxWindow, seq)
      PROVE  NewestSeen'
  BY <1>3 DEF AfterSequence, NewestSeen, TypeOK, Window
<1> QED BY <1>1, <1>2, <1>3, WindowSteps

\* A number that is refused, in a connection that goes on, of which the newest
\* number is not too far ahead.
InReach(seq) ==
  /\ Refused(rxWindow, seq)
  /\ rxWindow'.initialized
  /\ Age(rxWindow, seq) + Advance(rxWindow, rxWindow') <= SeqMod \div 2

\* A frame that is handled is refused from then on, and a number that is refused
\* stays so in its connection until the newest has gone on by half of all numbers.
ReplayRefused ==
  [][/\ bleQueue # << >> /\ Taken.type = "FRAME" /\ bleQueue' = Tail(bleQueue) =>
          Refused(rxWindow', Taken.seq)
     /\ \A seq \in SequenceNumber :
          InReach(seq) =>
               /\ Refused(rxWindow', seq)
               /\ Age(rxWindow', seq) = Age(rxWindow, seq) + Advance(rxWindow, rxWindow')]_vars

LEMMA PostGrows ==
  ASSUME NEW queue \in Seq(Event), NEW event \in Event
  PROVE  Post(queue, event) \in Seq(Event) /\ Len(Post(queue, event)) >= Len(queue)
  BY DEF Post

\* The steps that post do not take.
LEMMA PostsGrow ==
  ASSUME TypeOK, MacSendsFrame \/ LinkUp \/ LinkDown \/ LinkChanges
  PROVE  Len(bleQueue') >= Len(bleQueue)
<1>1. bleQueue \in Seq(Event) /\ link \in Link
  BY DEF TypeOK
<1>2. CASE MacSendsFrame \/ LinkChanges
  BY <1>1, <1>2, HostPosts, PostGrows
<1>3. CASE LinkDown
  <2>1. bleQueue' = Post(bleQueue, SimpleEvent("DISCONNECTED", link, FALSE))
    BY <1>3 DEF LinkDown, GapDisconnect
  <2>2. SimpleEvent("DISCONNECTED", link, FALSE) \in Event
    BY <1>1, SimpleEventType DEF EventType
  <2> QED BY <1>1, <2>1, <2>2, PostGrows
<1>4. CASE LinkUp
  <2>1. PICK encrypted \in BOOLEAN : GapConnect(encrypted)
    BY <1>4 DEF LinkUp
  <2> DEFINE begin == SimpleEvent("CONNECTED", link', encrypted)
             secured == SimpleEvent("SECURITY_CHANGED", link', TRUE)
  <2>2. /\ link' = [link EXCEPT !.connected = TRUE, !.encrypted = encrypted, !.conn = @ + 1]
        /\ bleQueue' \in {Post(bleQueue, begin), Post(Post(bleQueue, begin), secured)}
    BY <2>1 DEF GapConnect
  <2>3. link' \in Link
    BY <1>1, <2>2, ConnectedLink
  <2>4. begin \in Event /\ secured \in Event
    BY <2>3, SimpleEventType DEF EventType
  <2> HIDE DEF begin, secured
  <2>5. /\ Post(bleQueue, begin) \in Seq(Event)
        /\ Len(Post(bleQueue, begin)) >= Len(bleQueue)
        /\ Len(Post(Post(bleQueue, begin), secured)) >= Len(Post(bleQueue, begin))
        /\ Post(Post(bleQueue, begin), secured) \in Seq(Event)
    BY <1>1, <2>4, PostGrows
  <2> QED BY <1>1, <2>2, <2>5
<1> QED BY <1>2, <1>3, <1>4

\* The steps that take a frame.
LEMMA FrameSteps ==
  ASSUME TypeOK, [Next]_vars, bleQueue # << >>, Taken.type = "FRAME", bleQueue' = Tail(bleQueue)
  PROVE  \/ Accepts(rxWindow, Taken.seq) /\ rxWindow' = AfterSequence(rxWindow, Taken.seq)
         \/ ~Accepts(rxWindow, Taken.seq) /\ rxWindow' = rxWindow
<1>1. bleQueue \in Seq(Event) /\ bleQueue' # bleQueue /\ ~(Len(bleQueue') >= Len(bleQueue))
  BY DEF TypeOK
<1>2. ASSUME NEW message, TakeFrame(message)
      PROVE  Accepts(rxWindow, Taken.seq) /\ rxWindow' = AfterSequence(rxWindow, Taken.seq)
  BY <1>2 DEF TakeFrame
<1>3. CASE \/ HandleHello \/ HandleMalformedHello \/ HandleAuthSuccess \/ HandleAuthFailure
           \/ HandleHeartbeat \/ HandleLock \/ HandlePrivateState
  BY <1>2, <1>3
  DEF HandleHello, HandleMalformedHello, HandleAuthSuccess, HandleAuthFailure, HandleHeartbeat,
      HandleLock, HandlePrivateState
<1>4. CASE IgnoreFrame
  BY <1>4 DEF IgnoreFrame
<1>5. CASE HandleConnected \/ HandleDisconnected \/ HandleSecurityChanged \/ HandleOther
  BY <1>5 DEF HandleConnected, HandleDisconnected, HandleSecurityChanged, HandleOther
<1>6. CASE ApplyActions
  BY <1>1, <1>6 DEF ApplyActions, BacklightOff, ClearPrivateData, UpdateUi, BacklightOn,
                    DisconnectBle, UnchangedByApply
<1>7. CASE ReceiveTimeout \/ ReadClock \/ HandleUiAction \/ PollTimeouts \/ UNCHANGED vars
  BY <1>1, <1>7 DEF ReceiveTimeout, ReadClock, HandleUiAction, PollTimeouts, vars, linkVars
<1>8. CASE TouchUi \/ MacGivesUp \/ Tick
  BY <1>1, <1>8 DEF TouchUi, MacGivesUp, Tick, linkVars
<1>9. CASE MacSendsFrame \/ LinkUp \/ LinkDown \/ LinkChanges
  BY <1>1, <1>9, PostsGrow
<1> QED
  BY <1>3, <1>4, <1>5, <1>6, <1>7, <1>8, <1>9
  DEF Next, Supervisor, HandleEvent, Environment

\* A frame that the supervisor has handled, or refused, it does not handle again
\* in that connection before the newest number has gone on by half of all
\* numbers, whatever is lost on the way: desk_sequence_window_accept.
THEOREM ReplaysRefused == SeqMod = 2 * (SeqMod \div 2) => (Spec => ReplayRefused)
<1> SUFFICES ASSUME SeqMod = 2 * (SeqMod \div 2) PROVE Spec => ReplayRefused
  OBVIOUS
<1>1. Init => TypeOK /\ NewestSeen
  BY TypeInit DEF Init, NewestSeen, EmptyWindow
<1>2. TypeOK /\ NewestSeen /\ [Next]_vars => TypeOK' /\ NewestSeen'
  BY TypeInductive, SeenInductive
<1> DEFINE Handled == bleQueue # << >> /\ Taken.type = "FRAME" /\ bleQueue' = Tail(bleQueue)
           Kept(seq) ==
             InReach(seq) =>
                  /\ Refused(rxWindow', seq)
                  /\ Age(rxWindow', seq) = Age(rxWindow, seq) + Advance(rxWindow, rxWindow')
<1>3. TypeOK /\ NewestSeen /\ [Next]_vars => (Handled => Refused(rxWindow', Taken.seq))
  <2> SUFFICES ASSUME TypeOK, NewestSeen, [Next]_vars, Handled
               PROVE  Refused(rxWindow', Taken.seq)
    OBVIOUS
  <2>1. rxWindow \in Window /\ Taken.seq \in SequenceNumber
    <3>1. bleQueue \in Seq(Event) /\ rxWindow \in Window
      BY DEF TypeOK
    <3>2. Taken \in Event
      BY <3>1 DEF Taken
    <3> QED BY <3>1, <3>2 DEF Event
  <2>2. CASE Accepts(rxWindow, Taken.seq) /\ rxWindow' = AfterSequence(rxWindow, Taken.seq)
    BY <2>1, <2>2, TakenIsRefused DEF NewestSeen
  <2>3. CASE ~Accepts(rxWindow, Taken.seq) /\ rxWindow' = rxWindow
    BY <2>3 DEF Refused, Accepts
  <2> QED BY <2>2, <2>3, FrameSteps
<1>4. TypeOK /\ NewestSeen /\ [Next]_vars => \A seq \in SequenceNumber : Kept(seq)
  <2> SUFFICES ASSUME TypeOK, NewestSeen, [Next]_vars, NEW seq \in SequenceNumber,
                      InReach(seq)
               PROVE  /\ Refused(rxWindow', seq)
                      /\ Age(rxWindow', seq) = Age(rxWindow, seq) + Advance(rxWindow, rxWindow')
    OBVIOUS
  <2>1. rxWindow \in Window /\ 0 \in rxWindow.seen
    BY DEF TypeOK, NewestSeen, Refused, InReach
  <2>2. CASE UNCHANGED rxWindow
    <3>1. /\ SeqMod \in Nat \ {0}
          /\ rxWindow.newest \in 0 .. SeqMod - 1 /\ seq \in 0 .. SeqMod - 1
      BY <2>1, SequenceAssumption DEF Window, SequenceNumber
    <3>2. Forward(rxWindow, rxWindow.newest) = 0 /\ Age(rxWindow, seq) \in Int
      BY <2>1, <3>1, Distances DEF SequenceNumber
    <3> QED BY <2>2, <3>2 DEF Advance, InReach
  <2>3. CASE rxWindow' = EmptyWindow
    BY <2>3 DEF EmptyWindow, InReach
  <2>4. ASSUME NEW taken \in SequenceNumber, rxWindow' = AfterSequence(rxWindow, taken)
        PROVE  /\ Refused(rxWindow', seq)
               /\ Age(rxWindow', seq) = Age(rxWindow, seq) + Advance(rxWindow, rxWindow')
    BY <2>1, <2>4, RefusedStays DEF InReach
  <2> QED BY <2>2, <2>3, <2>4, WindowSteps
<1>5. TypeOK /\ NewestSeen /\ [Next]_vars =>
        [(Handled => Refused(rxWindow', Taken.seq))
         /\ \A seq \in SequenceNumber : Kept(seq)]_vars
  BY <1>3, <1>4
<1> QED BY <1>1, <1>2, <1>5, PTL DEF Spec, ReplayRefused

------------------------------------------------------------------------------
(* The numbers of the connections                                           *)

\* The queue's events are of ever later connections, none later than the last;
\* a beginning is later than all events before it, and than the last session, and
\* so is all that may open the next one.
Numbers(queue, last, verified, state) ==
  /\ verified <= last
  /\ state = "AUTHENTICATING" => verified < last
  /\ state = "ACTIVE" => verified > 0
  /\ \A i \in 1 .. Len(queue) :
       /\ queue[i].conn <= last
       /\ state = "AUTHENTICATING" => verified < queue[i].conn
       /\ queue[i].type = "CONNECTED" => verified < queue[i].conn
  /\ \A i, j \in 1 .. Len(queue) : i < j =>
       /\ queue[i].conn <= queue[j].conn
       /\ queue[j].type = "CONNECTED" => queue[i].conn < queue[j].conn

ConnectionInv == Numbers(bleQueue, link.conn, ghost.verified, privacy.state)

LEMMA EventNumbers ==
  ASSUME NEW queue \in Seq(Event)
  PROVE  \A i \in 1 .. Len(queue) : queue[i].conn \in Nat
<1>1. \A i \in 1 .. Len(queue) : queue[i] \in Event
  OBVIOUS
<1> QED BY <1>1 DEF Event

LEMMA NumbersAppend ==
  ASSUME NEW queue \in Seq(Event), NEW event \in Event, NEW last \in Nat, NEW verified \in Nat,
         NEW state, Numbers(queue, last, verified, state),
         event.conn = last \/ event.conn = last + 1,
         event.type = "CONNECTED" => event.conn = last + 1
  PROVE  Numbers(Append(queue, event), event.conn, verified, state)
<1> DEFINE longer == Append(queue, event)
           n == Len(queue)
<1>1. /\ n \in Nat /\ Len(longer) = n + 1
      /\ \A i \in 1 .. n : longer[i] = queue[i] /\ queue[i] \in Event
      /\ longer[n + 1] = event
  OBVIOUS
<1>2. event.conn \in Nat /\ \A i \in 1 .. n : queue[i].conn \in Nat
  BY <1>1 DEF Event
<1> HIDE DEF longer
<1>3. \A i \in 1 .. n + 1 : i \in 1 .. n \/ i = n + 1
  BY <1>1
<1>4. verified <= event.conn /\ last <= event.conn
  BY <1>2 DEF Numbers
<1>5. state = "AUTHENTICATING" => verified < event.conn
  BY <1>2, <1>4 DEF Numbers
<1>6. event.type = "CONNECTED" => verified < event.conn /\ last < event.conn
  BY <1>2 DEF Numbers
<1>7. ASSUME NEW i \in 1 .. n + 1
      PROVE  /\ longer[i].conn <= event.conn
             /\ state = "AUTHENTICATING" => verified < longer[i].conn
             /\ longer[i].type = "CONNECTED" => verified < longer[i].conn
  <2>1. CASE i \in 1 .. n
    BY <1>1, <1>2, <1>4, <2>1 DEF Numbers
  <2>2. CASE i = n + 1
    BY <1>1, <1>2, <1>5, <1>6, <2>2
  <2> QED BY <1>3, <2>1, <2>2
<1>8. ASSUME NEW i \in 1 .. n + 1, NEW j \in 1 .. n + 1, i < j
      PROVE  /\ longer[i].conn <= longer[j].conn
             /\ longer[j].type = "CONNECTED" => longer[i].conn < longer[j].conn
  <2>1. i \in 1 .. n
    BY <1>1, <1>8
  <2>2. CASE j \in 1 .. n
    BY <1>1, <1>8, <2>1, <2>2 DEF Numbers
  <2>3. CASE j = n + 1
    <3>1. longer[i].conn <= last /\ longer[i].conn \in Nat /\ longer[j] = event
      BY <1>1, <1>2, <2>1, <2>3 DEF Numbers
    <3> QED BY <1>2, <1>4, <1>6, <3>1
  <2> QED BY <1>3, <2>2, <2>3
<1>9. /\ verified <= event.conn
      /\ state = "AUTHENTICATING" => verified < event.conn
      /\ state = "ACTIVE" => verified > 0
  BY <1>4, <1>5 DEF Numbers
<1> QED BY <1>1, <1>7, <1>8, <1>9 DEF Numbers, longer

\* A connection that begins, although its event may find no room.
LEMMA NumbersLater ==
  ASSUME NEW queue \in Seq(Event), NEW last \in Nat, NEW verified \in Nat, NEW state,
         Numbers(queue, last, verified, state)
  PROVE  Numbers(queue, last + 1, verified, state)
<1>1. \A i \in 1 .. Len(queue) : queue[i].conn \in Nat
  BY EventNumbers
<1> QED BY <1>1 DEF Numbers

LEMMA NumbersPost ==
  ASSUME NEW queue \in Seq(Event), NEW event \in Event, NEW last \in Nat, NEW verified \in Nat,
         NEW state, Numbers(queue, last, verified, state),
         event.conn = last \/ event.conn = last + 1,
         event.type = "CONNECTED" => event.conn = last + 1
  PROVE  /\ Numbers(Post(queue, event), event.conn, verified, state)
         /\ Post(queue, event) \in Seq(Event)
<1>1. CASE Len(queue) < QueueLength
  BY <1>1, NumbersAppend DEF Post
<1>2. CASE ~(Len(queue) < QueueLength)
  BY <1>2, NumbersLater DEF Post
<1> QED BY <1>1, <1>2

\* Taking an event; a beginning is later than the last session, and so is what
\* follows it; a session that opens with the event's connection is earlier than
\* the beginnings that follow.
LEMMA NumbersTake ==
  ASSUME NEW queue \in Seq(Event), queue # <<>>, NEW last \in Nat, NEW verified \in Nat,
         NEW state, Numbers(queue, last, verified, state), NEW next
  PROVE  /\ /\ next = "AUTHENTICATING" =>
                 state = "AUTHENTICATING" \/ Head(queue).type = "CONNECTED"
            /\ next = "ACTIVE" => state = "ACTIVE"
            => Numbers(Tail(queue), last, verified, next)
         /\ state = "AUTHENTICATING" =>
              /\ Numbers(Tail(queue), last, Head(queue).conn, "ACTIVE")
              /\ Head(queue).conn > verified
<1> DEFINE n == Len(queue)
           rest == Tail(queue)
           first == Head(queue)
<1>1. /\ n \in Nat /\ n >= 1 /\ Len(rest) = n - 1 /\ first = queue[1] /\ first \in Event
      /\ \A i \in 1 .. n - 1 : i + 1 \in 1 .. n /\ rest[i] = queue[i + 1]
  BY TakeType
<1>2. \A i \in 1 .. n : queue[i].conn \in Nat
  BY EventNumbers
<1>3. 1 \in 1 .. n /\ first.conn <= last /\ first.conn \in Nat
      /\ (state = "AUTHENTICATING" => verified < first.conn)
      /\ (first.type = "CONNECTED" => verified < first.conn)
  BY <1>1, <1>2 DEF Numbers
<1> HIDE DEF rest, first
<1>4. ASSUME NEW i \in 1 .. n - 1
      PROVE  /\ rest[i].conn <= last /\ rest[i].conn \in Nat
             /\ first.conn <= rest[i].conn
             /\ rest[i].type = "CONNECTED" =>
                  verified < rest[i].conn /\ first.conn < rest[i].conn
             /\ state = "AUTHENTICATING" => verified < rest[i].conn
  <2>1. i + 1 \in 1 .. n /\ 1 < i + 1 /\ rest[i] = queue[i + 1]
    BY <1>1
  <2> QED BY <1>1, <1>2, <1>3, <2>1 DEF Numbers
<1>5. ASSUME NEW i \in 1 .. n - 1, NEW j \in 1 .. n - 1, i < j
      PROVE  /\ rest[i].conn <= rest[j].conn
             /\ rest[j].type = "CONNECTED" => rest[i].conn < rest[j].conn
  <2>1. i + 1 \in 1 .. n /\ j + 1 \in 1 .. n /\ i + 1 < j + 1
    BY <1>1, <1>5
  <2> QED BY <1>1, <2>1 DEF Numbers
<1>6. verified <= last
      /\ (state = "AUTHENTICATING" => verified < last)
      /\ (state = "ACTIVE" => verified > 0)
  BY DEF Numbers
<1>7. ASSUME \/ next # "AUTHENTICATING"
             \/ state = "AUTHENTICATING"
             \/ first.type = "CONNECTED",
             next = "ACTIVE" => state = "ACTIVE"
      PROVE  Numbers(rest, last, verified, next)
  <2>1. /\ next = "AUTHENTICATING" => verified < last
        /\ next = "ACTIVE" => verified > 0
    BY <1>3, <1>6, <1>7
  <2>2. \A i \in 1 .. n - 1 : next = "AUTHENTICATING" => verified < rest[i].conn
    BY <1>3, <1>4, <1>7
  <2> QED BY <1>1, <1>4, <1>5, <1>6, <2>1, <2>2 DEF Numbers
<1>8. ASSUME state = "AUTHENTICATING"
      PROVE  Numbers(rest, last, first.conn, "ACTIVE") /\ first.conn > verified
  <2>1. first.conn > 0 /\ first.conn > verified
    BY <1>3, <1>8
  <2> QED BY <1>1, <1>3, <1>4, <1>5, <2>1 DEF Numbers
<1> QED BY <1>7, <1>8 DEF rest, first

\* The connections keep their numbers' order, whatever is dropped.
LEMMA NumbersKept ==
  ASSUME TypeOK, ConnectionInv, bleQueue' = bleQueue, link'.conn = link.conn,
         ghost'.verified = ghost.verified,
         privacy'.state \in {privacy.state, "LOCKED"}
  PROVE  ConnectionInv'
<1> DEFINE state == privacy.state
           later == privacy'.state
<1>1. Numbers(bleQueue, link.conn, ghost.verified, state)
  BY DEF ConnectionInv
<1>2. later \in {state, "LOCKED"}
  OBVIOUS
<1> HIDE DEF state, later
<1>3. Numbers(bleQueue, link.conn, ghost.verified, later)
  BY <1>1, <1>2 DEF Numbers
<1> QED BY <1>3 DEF ConnectionInv, later

LEMMA NumbersPosted ==
  ASSUME TypeOK, ConnectionInv, NEW event \in Event, bleQueue' = Post(bleQueue, event),
         event.conn = link.conn, event.type # "CONNECTED", link'.conn = link.conn,
         privacy' = privacy, ghost'.verified = ghost.verified
  PROVE  ConnectionInv'
<1>1. bleQueue \in Seq(Event) /\ link.conn \in Nat /\ ghost.verified \in Nat
  BY HistoryFields DEF TypeOK, Link
<1>2. Numbers(Post(bleQueue, event), link.conn, ghost.verified, privacy.state)
  BY <1>1, NumbersPost DEF ConnectionInv
<1> QED BY <1>2 DEF ConnectionInv

LEMMA NumbersTaken ==
  ASSUME TypeOK, ConnectionInv, TakeEvent, ghost'.verified = ghost.verified,
         privacy'.state = "AUTHENTICATING" =>
           privacy.state = "AUTHENTICATING" \/ Taken.type = "CONNECTED",
         privacy'.state = "ACTIVE" => privacy.state = "ACTIVE"
  PROVE  ConnectionInv'
<1> DEFINE state == privacy.state
           later == privacy'.state
<1>1. bleQueue \in Seq(Event) /\ bleQueue # <<>> /\ link.conn \in Nat /\ ghost.verified \in Nat
      /\ bleQueue' = Tail(bleQueue) /\ link' = link
  BY HistoryFields DEF TypeOK, Link, TakeEvent
<1>2. Numbers(bleQueue, link.conn, ghost.verified, state)
  BY DEF ConnectionInv
<1>3. /\ later = "AUTHENTICATING" => state = "AUTHENTICATING" \/ Head(bleQueue).type = "CONNECTED"
      /\ later = "ACTIVE" => state = "ACTIVE"
  BY DEF Taken
<1> HIDE DEF state, later
<1>4. Numbers(Tail(bleQueue), link.conn, ghost.verified, later)
  BY <1>1, <1>2, <1>3, NumbersTake
<1> QED BY <1>1, <1>4 DEF ConnectionInv, later

\* All that the host posts, but a beginning, is of the current connection.
LEMMA HostNumbers ==
  ASSUME TypeOK, MacSendsFrame \/ LinkChanges \/ LinkDown
  PROVE  \E event \in Event :
           /\ bleQueue' = Post(bleQueue, event)
           /\ event.type # "CONNECTED" /\ event.conn = link.conn
           /\ link'.conn = link.conn
           /\ UNCHANGED <<privacy, app, panel, todo>> /\ ghost'.verified = ghost.verified
<1>1. CASE MacSendsFrame
  <2>1. PICK message \in Message, answers \in Nat : MacSends(message, answers)
    BY <1>1 DEF MacSendsFrame, Message, TypeOK, Mac
  <2> DEFINE event == [type |-> "FRAME", conn |-> link.conn, secure |-> TRUE,
                       message |-> message, seq |-> mac.seq % SeqMod, answers |-> answers]
  <2>2. event \in Event
    BY SequenceAssumption DEF Event, EventType, TypeOK, Link, Mac, SequenceNumber
  <2>3. /\ bleQueue' = Post(bleQueue, event)
        /\ UNCHANGED <<link, privacy, app, panel, todo, ghost>>
    BY <2>1 DEF MacSends, ReceiveFrame, deskVars
  <2>4. event.type = "FRAME" /\ event.conn = link.conn
    OBVIOUS
  <2> HIDE DEF event
  <2> QED BY <2>2, <2>3, <2>4
<1>2. CASE LinkChanges
  <2>1. UNCHANGED <<privacy, app, panel, todo, ghost>>
    BY <1>2 DEF LinkChanges, deskVars
  <2>2. ASSUME NEW state \in Link, NEW type \in {"SECURITY_CHANGED", "OTHER"},
               NEW secure \in BOOLEAN
        PROVE  /\ SimpleEvent(type, state, secure) \in Event
               /\ SimpleEvent(type, state, secure).type = type
               /\ SimpleEvent(type, state, secure).conn = state.conn
    BY SimpleEventType DEF EventType, SimpleEvent
  <2>3. CASE \E succeeded \in BOOLEAN : GapEncChange(succeeded)
    <3>1. PICK succeeded \in BOOLEAN : GapEncChange(succeeded)
      BY <2>3
    <3>2. /\ link' \in Link /\ link'.conn = link.conn
          /\ bleQueue' = Post(bleQueue, SimpleEvent("SECURITY_CHANGED", link', succeeded))
      BY <3>1 DEF GapEncChange, TypeOK, Link
    <3> QED BY <2>1, <2>2, <3>2
  <2>4. CASE \E enabled \in BOOLEAN : GapSubscribe(enabled)
    <3>1. PICK enabled \in BOOLEAN : GapSubscribe(enabled)
      BY <2>4
    <3>2. /\ link' \in Link /\ link'.conn = link.conn
          /\ bleQueue' = Post(bleQueue, SimpleEvent("OTHER", link', FALSE))
      BY <3>1 DEF GapSubscribe, TypeOK, Link
    <3> QED BY <2>1, <2>2, <3>2
  <2>5. CASE GapOther
    <3>1. /\ link \in Link /\ UNCHANGED link
          /\ bleQueue' = Post(bleQueue, SimpleEvent("OTHER", link, FALSE))
      BY <2>5 DEF GapOther, TypeOK
    <3> QED BY <2>1, <2>2, <3>1
  <2> QED BY <1>2, <2>3, <2>4, <2>5 DEF LinkChanges
<1>3. CASE LinkDown
  <2> DEFINE end == SimpleEvent("DISCONNECTED", link, FALSE)
  <2>1. end \in Event /\ end.type = "DISCONNECTED" /\ end.conn = link.conn
    BY SimpleEventType DEF EventType, TypeOK, SimpleEvent
  <2>2. bleQueue' = Post(bleQueue, end) /\ UNCHANGED <<privacy, app, panel, todo>>
    BY <1>3 DEF LinkDown, GapDisconnect, deskVars
  <2>3. link'.conn = link.conn
    BY <1>3 DEF LinkDown, GapDisconnect, NoLink
  <2>4. ghost'.verified = ghost.verified
    BY <1>3, VerifiedKept DEF LinkDown, TypeOK
  <2> HIDE DEF end
  <2> QED BY <2>1, <2>2, <2>3, <2>4
<1> QED BY <1>1, <1>2, <1>3

\* A beginning, and with an encrypted link what follows it at once.
LEMMA BeginNumbers ==
  ASSUME TypeOK, ConnectionInv, LinkUp
  PROVE  ConnectionInv' /\ UNCHANGED <<privacy, app, panel, todo, ghost>>
<1>1. PICK encrypted \in BOOLEAN : GapConnect(encrypted)
  BY DEF LinkUp
<1> DEFINE begin == SimpleEvent("CONNECTED", link', encrypted)
           secured == SimpleEvent("SECURITY_CHANGED", link', TRUE)
           state == privacy.state
           verified == ghost.verified
           last == link.conn
<1>2. link' \in Link /\ link'.conn = last + 1
  <2>1. /\ link' = [link EXCEPT !.connected = TRUE, !.encrypted = encrypted, !.conn = @ + 1]
        /\ link \in Link
    BY <1>1 DEF GapConnect, TypeOK
  <2>2. link' \in Link
    BY <2>1, ConnectedLink
  <2> QED BY <2>1, <2>2 DEF Link
<1>3. /\ begin \in Event /\ begin.type = "CONNECTED" /\ begin.conn = last + 1
      /\ secured \in Event /\ secured.type = "SECURITY_CHANGED" /\ secured.conn = last + 1
  BY <1>2, SimpleEventType DEF EventType, SimpleEvent
<1>4. /\ bleQueue \in Seq(Event) /\ last \in Nat /\ verified \in Nat
      /\ Numbers(bleQueue, last, verified, state)
  BY HistoryFields DEF TypeOK, Link, ConnectionInv
<1>5. bleQueue' = IF encrypted THEN Post(Post(bleQueue, begin), secured)
                               ELSE Post(bleQueue, begin)
  BY <1>1 DEF GapConnect
<1>6. UNCHANGED <<privacy, app, panel, todo, ghost>>
  BY DEF LinkUp, deskVars
<1>7. ConnectionInv' <=> Numbers(bleQueue', last + 1, verified, state)
  BY <1>2, <1>6 DEF ConnectionInv
<1> HIDE DEF begin, secured, state, verified, last
<1>8. Numbers(Post(bleQueue, begin), last + 1, verified, state)
      /\ Post(bleQueue, begin) \in Seq(Event)
  BY <1>3, <1>4, NumbersPost
<1>9. Numbers(Post(Post(bleQueue, begin), secured), last + 1, verified, state)
  <2>1. last + 1 \in Nat
    BY <1>4
  <2> QED BY <1>3, <1>4, <1>8, <2>1, NumbersPost
<1> QED BY <1>5, <1>6, <1>7, <1>8, <1>9

\* What a dispatch makes of the state.
LEMMA NextState ==
  ASSUME TypeOK, NEW event \in PrivacyEvent \ {"AUTH_SUCCEEDED", "BLE_CONNECTED"}, NEW now,
         DispatchEvent(event, now)
  PROVE  privacy'.state \in {privacy.state, "LOCKED"}
  BY DEF DispatchEvent, Dispatch, LockingEvent, Locked, TypeOK, PrivacyContext, PrivacyEvent

\* The verified connection changes with a session only.
LEMMA OpensSession ==
  ASSUME TypeOK, ConnectionInv, HandleAuthSuccess, privacy.state = "AUTHENTICATING"
  PROVE  /\ ConnectionInv'
         /\ privacy'.state = "ACTIVE"
         /\ ghost'.verified = Taken.conn /\ ghost'.verified > ghost.verified
<1>1. ghost'.verified = Taken.conn
  <2>1. ghost' = [Heard(ghost) EXCEPT !.session = @ + 1, !.verified = Taken.conn]
    BY DEF HandleAuthSuccess
  <2>2. Heard(ghost) \in History
    BY HeardType DEF TypeOK
  <2> QED BY <2>1, <2>2 DEF History
<1>2. privacy'.state = "ACTIVE"
  BY DEF HandleAuthSuccess, DispatchEvent, Dispatch, LockingEvent
<1>3. bleQueue \in Seq(Event) /\ bleQueue # <<>> /\ link.conn \in Nat /\ ghost.verified \in Nat
      /\ bleQueue' = Tail(bleQueue) /\ link' = link
  BY HistoryFields DEF TypeOK, Link, HandleAuthSuccess, TakeFrame, TakeEvent
<1>4. Numbers(bleQueue, link.conn, ghost.verified, "AUTHENTICATING")
  BY DEF ConnectionInv
<1>5. /\ Numbers(Tail(bleQueue), link.conn, Head(bleQueue).conn, "ACTIVE")
      /\ Head(bleQueue).conn > ghost.verified
  BY <1>3, <1>4, NumbersTake
<1> QED BY <1>1, <1>2, <1>3, <1>5 DEF ConnectionInv, Taken

LEMMA ConnectionInductive == TypeOK /\ ConnectionInv /\ [Next]_vars => ConnectionInv'
<1> SUFFICES ASSUME TypeOK, ConnectionInv, [Next]_vars PROVE ConnectionInv'
  OBVIOUS
<1>1. ghost \in History
  BY DEF TypeOK
<1>2. ASSUME TakeEvent, ghost'.verified = ghost.verified,
             \/ NoDispatch
             \/ \E event \in PrivacyEvent \ {"AUTH_SUCCEEDED", "BLE_CONNECTED"} :
                  DispatchEvent(event, clock)
      PROVE  ConnectionInv'
  <2>1. privacy'.state \in {privacy.state, "LOCKED"}
    BY <1>2, NextState DEF NoDispatch
  <2> QED BY <1>2, <2>1, NumbersTaken
<1>3. CASE HandleConnected
  <2>1. ghost'.verified = ghost.verified
    BY <1>1, <1>3, VerifiedKept DEF HandleConnected
  <2>2. privacy'.state = "AUTHENTICATING" /\ TakeEvent /\ Taken.type = "CONNECTED"
    BY <1>3 DEF HandleConnected, DispatchEvent, Dispatch, LockingEvent
  <2> QED BY <2>1, <2>2, NumbersTaken
<1>4. CASE HandleHello \/ HandleHeartbeat
  <2>1. ghost'.verified = ghost.verified
    <3>1. CASE HandleHello
      BY <1>1, <3>1, VerifiedKept DEF HandleHello
    <3>2. CASE HandleHeartbeat
      BY <1>1, <3>2, VerifiedKept DEF HandleHeartbeat
    <3> QED BY <1>4, <3>1, <3>2
  <2> QED BY <1>2, <1>4, <2>1 DEF HandleHello, HandleHeartbeat, TakeFrame, PrivacyEvent
<1>5. CASE HandleDisconnected \/ HandleSecurityChanged \/ HandleOther \/ IgnoreFrame
           \/ HandlePrivateState
  BY <1>2, <1>5
  DEF HandleDisconnected, HandleSecurityChanged, HandleOther, IgnoreFrame,
      HandlePrivateState, TakeFrame, PrivacyEvent
<1>6. CASE HandleMalformedHello \/ HandleAuthFailure \/ HandleLock
  BY <1>2, <1>6
  DEF HandleMalformedHello, HandleAuthFailure, HandleLock, TakeFrame, PrivacyEvent
<1>7. CASE HandleAuthSuccess
  <2>1. CASE privacy.state = "AUTHENTICATING"
    BY <1>7, <2>1, OpensSession
  <2>2. CASE privacy.state # "AUTHENTICATING"
    <3>1. privacy' = privacy /\ ghost' = ghost /\ TakeEvent
      BY <1>7, <2>2 DEF HandleAuthSuccess, TakeFrame, DispatchEvent, Dispatch, LockingEvent
    <3> QED BY <3>1, NumbersTaken
  <2> QED BY <2>1, <2>2
<1>8. CASE ApplyActions
  <2>1. link'.conn = link.conn
    BY <1>8
    DEF ApplyActions, BacklightOff, ClearPrivateData, UpdateUi, BacklightOn, DisconnectBle,
        LinkDisconnect, TypeOK, Link
  <2>2. UNCHANGED <<bleQueue, privacy, ghost>>
    BY <1>8
    DEF ApplyActions, BacklightOff, ClearPrivateData, UpdateUi, BacklightOn, DisconnectBle,
        UnchangedByApply
  <2> QED BY <2>1, <2>2, NumbersKept
<1>9. CASE PollTimeouts
  <2>1. privacy'.state \in {privacy.state, "LOCKED"}
    BY <1>9, NextState DEF PollTimeouts, PrivacyEvent
  <2>2. ghost'.verified = ghost.verified /\ UNCHANGED linkVars
    BY <1>9 DEF PollTimeouts, TypeOK, History
  <2> QED BY <2>1, <2>2, NumbersKept DEF linkVars
<1>10. CASE ReceiveTimeout \/ ReadClock \/ HandleUiAction \/ TouchUi \/ MacGivesUp
            \/ UNCHANGED vars
  BY <1>10, NumbersKept
  DEF ReceiveTimeout, ReadClock, HandleUiAction, TouchUi, MacGivesUp, linkVars, deskVars, vars
<1>11. CASE Tick
  <2> DEFINE silence == IF ghost.silence < SilenceCap THEN ghost.silence + 1 ELSE ghost.silence
             down == IF ghost.down < DownCap /\ ~link.connected THEN ghost.down + 1
                     ELSE ghost.down
  <2>1. ghost' = [ghost EXCEPT !.ticks = ghost.ticks + 1, !.silence = silence, !.down = down]
    BY <1>11 DEF Tick
  <2> HIDE DEF silence, down
  <2>2. ghost'.verified = ghost.verified
    BY <1>1, <2>1 DEF History
  <2> QED BY <1>11, <2>2, NumbersKept DEF Tick, linkVars, deskVars
<1>12. CASE MacSendsFrame \/ LinkChanges \/ LinkDown
  <2>1. PICK event \in Event :
           /\ bleQueue' = Post(bleQueue, event)
           /\ event.type # "CONNECTED" /\ event.conn = link.conn
           /\ link'.conn = link.conn
           /\ UNCHANGED <<privacy, app, panel, todo>> /\ ghost'.verified = ghost.verified
    BY <1>12, HostNumbers
  <2> QED BY <2>1, NumbersPosted
<1>13. CASE LinkUp
  BY <1>13, BeginNumbers
<1> QED
  BY <1>3, <1>4, <1>5, <1>6, <1>7, <1>8, <1>9, <1>10, <1>11, <1>12, <1>13
  DEF Next, Supervisor, HandleEvent, Environment

------------------------------------------------------------------------------
(* The gate                                                                 *)

\* What an authentication finds is withdrawn, or is going to be; what may be left
\* over is what Left names.
GateInv ==
  /\ privacy.state = "LOCKED" => "TOUCH_ENABLE" \notin todo
  /\ privacy.state = "AUTHENTICATING" =>
       /\ "BACKLIGHT_ON" \notin todo
       /\ panel.backlight /\ ~BacklightMayFail => "BACKLIGHT_OFF" \in todo
       /\ app.private \/ panel.private => DropsAllowed

LEMMA GateLocks ==
  ASSUME NEW event \in LockingEvent, NEW now, DispatchEvent(event, now)
  PROVE  GateInv'
<1>1. privacy'.state = "LOCKED" /\ "TOUCH_ENABLE" \notin todo'
  BY LockClears
<1> QED BY <1>1 DEF GateInv

LEMMA GateStays ==
  ASSUME GateInv, UNCHANGED <<privacy, todo, panel>>, app'.private = app.private
  PROVE  GateInv'
  BY DEF GateInv

LEMMA GateActive ==
  ASSUME privacy'.state = "ACTIVE"
  PROVE  GateInv'
  BY DEF GateInv

LEMMA GateInductive ==
  TypeOK /\ ClearInv /\ (~DropsAllowed => OrderInv) /\ GateInv /\ [Next]_vars => GateInv'
<1> SUFFICES ASSUME TypeOK, ClearInv, ~DropsAllowed => OrderInv, GateInv, [Next]_vars
             PROVE  GateInv'
  OBVIOUS
<1>1. app \in AppState /\ panel \in Panel /\ privacy \in PrivacyContext
  BY DEF TypeOK
<1>2. CASE HandleConnected
  <2>1. /\ privacy'.state = "AUTHENTICATING" /\ todo' = {"BACKLIGHT_OFF", "TOUCH_DISABLE"}
        /\ panel' = panel /\ app'.private = app.private
        /\ todo = {} /\ bleQueue # <<>> /\ Taken.type = "CONNECTED"
    BY <1>1, <1>2
    DEF HandleConnected, TakeEvent, DispatchEvent, Dispatch, DispatchActions, LockingEvent,
        AppState
  <2>2. ASSUME ~DropsAllowed PROVE ~app.private /\ ~panel.private
    <3>1. privacy.state = "LOCKED"
      <4> DEFINE open == privacy.state # "LOCKED"
      <4>1. Alternates(bleQueue, open, ~link.connected) /\ bleQueue \in Seq(Event)
        BY <2>2 DEF OrderInv, TypeOK
      <4> HIDE DEF open
      <4>2. ~open
        BY <2>1, <4>1, HeadIsNoBegin DEF Taken
      <4> QED BY <4>2 DEF open
    <3> QED BY <2>1, <3>1 DEF ClearInv
  <2> QED BY <2>1, <2>2 DEF GateInv
<1>3. CASE HandleDisconnected \/ HandleMalformedHello \/ HandleAuthFailure \/ HandleLock
  BY <1>3, GateLocks
  DEF HandleDisconnected, HandleMalformedHello, HandleAuthFailure, HandleLock, LockingEvent
<1>4. CASE HandleSecurityChanged \/ HandleHello
  <2>1. CASE DispatchEvent("AUTH_FAILED", clock)
    BY <2>1, GateLocks DEF LockingEvent
  <2>2. CASE NoDispatch /\ UNCHANGED <<app, panel>>
    BY <2>2, GateStays DEF NoDispatch
  <2> QED BY <1>4, <2>1, <2>2 DEF HandleSecurityChanged, HandleHello
<1>5. CASE HandleOther \/ IgnoreFrame
  BY <1>5, GateStays DEF HandleOther, IgnoreFrame, NoDispatch
<1>6. CASE HandleAuthSuccess
  <2>1. todo = {} /\ panel' = panel /\ app'.private = app.private
        /\ DispatchEvent("AUTH_SUCCEEDED", clock)
    BY <1>1, <1>6 DEF HandleAuthSuccess, TakeFrame, TakeEvent, AppState
  <2>2. CASE privacy.state = "AUTHENTICATING"
    BY <2>1, <2>2, GateActive DEF DispatchEvent, Dispatch, LockingEvent
  <2>3. CASE privacy.state # "AUTHENTICATING"
    <3>1. privacy' = privacy /\ todo' = {}
      BY <2>1, <2>3 DEF DispatchEvent, Dispatch, DispatchActions, LockingEvent
    <3> QED BY <2>1, <2>3, <3>1, GateStays
  <2> QED BY <2>2, <2>3
<1>7. CASE HandleHeartbeat
  <2>1. todo = {} /\ UNCHANGED <<app, panel>> /\ DispatchEvent("HEARTBEAT", clock)
    BY <1>7 DEF HandleHeartbeat, TakeFrame, TakeEvent
  <2>2. todo' = {} /\ privacy'.state = privacy.state
    BY <1>1, <2>1 DEF DispatchEvent, Dispatch, DispatchActions, LockingEvent, PrivacyContext
  <2> QED BY <2>1, <2>2 DEF GateInv
<1>8. CASE HandlePrivateState
  <2>1. /\ UNCHANGED <<privacy, todo>>
        /\ app' = [app EXCEPT !.private = @ \/ StateAllowed]
        /\ panel' = [panel EXCEPT !.private = @ \/ StateAllowed]
    BY <1>8 DEF HandlePrivateState, NoDispatch
  <2>2. CASE privacy.state = "ACTIVE"
    BY <2>1, <2>2, GateActive
  <2>3. CASE privacy.state # "ACTIVE"
    <3>1. /\ app'.private = app.private /\ panel'.private = panel.private
          /\ panel'.backlight = panel.backlight
      BY <1>1, <2>1, <2>3 DEF StateAllowed, AppState, Panel
    <3> QED BY <2>1, <3>1 DEF GateInv
  <2> QED BY <2>2, <2>3
<1>9. CASE BacklightOff
  <2>1. PICK failed \in BOOLEAN :
          /\ failed => BacklightMayFail
          /\ panel' = [panel EXCEPT !.backlight = failed /\ @]
    BY <1>9 DEF BacklightOff
  <2>2. panel'.private = panel.private /\ (panel'.backlight => BacklightMayFail)
    BY <1>1, <2>1 DEF Panel
  <2>3. UNCHANGED <<privacy, app>> /\ todo' = todo \ {"BACKLIGHT_OFF"}
    BY <1>9 DEF BacklightOff, UnchangedByApply
  <2> QED BY <2>2, <2>3 DEF GateInv
<1>10. CASE ClearPrivateData
  <2>1. UNCHANGED <<privacy, panel>> /\ todo' = todo \ {"CLEAR_PRIVATE_DATA"} /\ ~app'.private
    BY <1>10 DEF ClearPrivateData, UnchangedByApply
  <2> QED BY <2>1 DEF GateInv
<1>11. CASE UpdateUi
  <2>1. UNCHANGED <<privacy, app>> /\ todo' = todo \ UiActions
        /\ "BACKLIGHT_OFF" \notin todo
    BY <1>11 DEF UpdateUi, UnchangedByApply, UiAfterClear
  <2>2. panel'.private = app.private /\ panel'.backlight = panel.backlight
    BY <1>1, <1>11 DEF UpdateUi, Panel
  <2> QED BY <2>1, <2>2 DEF GateInv
<1>12. CASE BacklightOn
  BY <1>1, <1>12 DEF BacklightOn, GateInv, ClearInv, UnchangedByApply, PrivacyContext, PrivacyState
<1>13. CASE DisconnectBle
  <2>1. UNCHANGED <<privacy, app, panel>> /\ todo = {"DISCONNECT_BLE"} /\ todo' = {}
    BY <1>13 DEF DisconnectBle, UnchangedByApply
  <2> QED BY <2>1 DEF GateInv
<1>14. CASE PollTimeouts
  <2>1. CASE DispatchEvent("HEARTBEAT_TIMEOUT", loopNow) \/ DispatchEvent("AUTH_FAILED", loopNow)
    BY <2>1, GateLocks DEF LockingEvent
  <2>2. CASE UNCHANGED <<privacy, todo>>
    BY <1>14, <2>2, GateStays DEF PollTimeouts
  <2> QED BY <1>14, <2>1, <2>2 DEF PollTimeouts
<1>15. CASE ReceiveTimeout \/ ReadClock \/ HandleUiAction \/ TouchUi
  BY <1>15, GateStays DEF ReceiveTimeout, ReadClock, HandleUiAction, TouchUi
<1>16. CASE \/ MacSendsFrame \/ MacGivesUp \/ LinkUp \/ LinkDown \/ LinkChanges \/ Tick
            \/ UNCHANGED vars
  <2>1. UNCHANGED deskVars
    BY <1>16 DEF MacSendsFrame, MacSends, MacGivesUp, LinkUp, LinkDown, LinkChanges, Tick, vars
  <2> QED BY <2>1, GateStays DEF deskVars
<1> QED
  BY <1>2, <1>3, <1>4, <1>5, <1>6, <1>7, <1>8, <1>9, <1>10, <1>11, <1>12, <1>13, <1>14,
     <1>15, <1>16
  DEF Next, Supervisor, HandleEvent, ApplyActions, Environment

\* The steps that change nothing of what the user has end a session at most.
LEMMA OthersClose ==
  ASSUME Shown' = Shown, ghost'.verified = ghost.verified,
         privacy'.state = "ACTIVE" => privacy.state = "ACTIVE",
         privacy.state = "ACTIVE" => ghost.verified # 0
  PROVE  [Gate!GateNext]_(Gate!gateVars)
<1>1. CASE (privacy.state = "ACTIVE") <=> (privacy'.state = "ACTIVE")
  BY <1>1 DEF Gate!gateVars
<1>2. CASE privacy.state = "ACTIVE" /\ privacy'.state # "ACTIVE"
  BY <1>2 DEF Gate!GateNext, Gate!Close
<1> QED BY <1>1, <1>2

LEMMA SameShown ==
  ASSUME panel' = panel, app'.private = app.private
  PROVE  Shown' = Shown
  BY DEF Shown

LEMMA InSession ==
  ASSUME privacy.state = "ACTIVE", ghost.verified # 0, UNCHANGED <<privacy, ghost>>
  PROVE  [Gate!GateNext]_(Gate!gateVars)
<1>1. Shown' \subseteq Gate!Thing
  BY DEF Shown, Gate!Thing
<1> QED BY <1>1 DEF Gate!GateNext, Gate!Show

LEMMA LessShown ==
  ASSUME panel'.backlight => panel.backlight, panel'.touch => panel.touch,
         app'.private \/ panel'.private => app.private \/ panel.private,
         UNCHANGED <<privacy, ghost>>
  PROVE  [Gate!GateNext]_(Gate!gateVars)
<1>1. Shown' \subseteq Shown
  BY DEF Shown
<1> QED BY <1>1 DEF Gate!GateNext, Gate!Withdraw

GateSessionInv ==
  /\ TypeOK
  /\ TouchInv
  /\ ClearInv
  /\ ConnectionInv
  /\ GateInv
  /\ ~DropsAllowed => OrderInv

\* A session begins with a later connection and what Left names.
LEMMA OpensGate ==
  ASSUME GateSessionInv, HandleAuthSuccess, privacy.state = "AUTHENTICATING"
  PROVE  [Gate!GateNext]_(Gate!gateVars)
<1>1. /\ privacy'.state = "ACTIVE"
      /\ ghost'.verified = Taken.conn /\ ghost'.verified > ghost.verified
  BY OpensSession DEF GateSessionInv
<1>2. panel' = panel /\ app'.private = app.private /\ todo = {}
  BY DEF HandleAuthSuccess, TakeFrame, TakeEvent, GateSessionInv, TypeOK, AppState
<1>3. Shown' = Shown
  BY <1>2, SameShown
<1>4. Shown \subseteq Left
  BY <1>2 DEF GateSessionInv, GateInv, TouchInv, Shown, Left
<1> QED BY <1>1, <1>3, <1>4 DEF Gate!GateNext, Gate!Open

LEMMA GateStep == GateSessionInv /\ [Next]_vars => [Gate!GateNext]_(Gate!gateVars)
<1> DEFINE Goal == [Gate!GateNext]_(Gate!gateVars)
<1> SUFFICES ASSUME GateSessionInv, [Next]_vars PROVE Goal
  OBVIOUS
<1>1. /\ app \in AppState /\ panel \in Panel /\ privacy \in PrivacyContext /\ ghost \in History
      /\ privacy.state = "ACTIVE" => ghost.verified # 0
  <2>1. ghost.verified \in Nat /\ (privacy.state = "ACTIVE" => ghost.verified > 0)
    BY HistoryFields DEF GateSessionInv, TypeOK, ConnectionInv, Numbers
  <2> QED BY <2>1 DEF GateSessionInv, TypeOK
<1>2. ASSUME UNCHANGED <<panel>>, app'.private = app.private, ghost'.verified = ghost.verified,
             privacy'.state = "ACTIVE" => privacy.state = "ACTIVE"
      PROVE  Goal
  BY <1>1, <1>2, SameShown, OthersClose
<1> HIDE DEF Goal
<1>3. ASSUME UNCHANGED <<panel, app>>, ghost'.verified = ghost.verified,
             \/ NoDispatch
             \/ \E event \in PrivacyEvent \ {"AUTH_SUCCEEDED"} : \E now : DispatchEvent(event, now)
      PROVE  Goal
  BY <1>2, <1>3, StaysInactive DEF GateSessionInv, NoDispatch
<1>4. CASE HandleConnected
  <2>1. /\ UNCHANGED panel /\ app'.private = app.private /\ privacy'.state # "ACTIVE"
    BY <1>1, <1>4 DEF HandleConnected, AppState, DispatchEvent, Dispatch, LockingEvent
  <2>2. ghost'.verified = ghost.verified
    BY <1>1, <1>4, VerifiedKept DEF HandleConnected
  <2> QED BY <1>2, <2>1, <2>2
<1>5. CASE HandleDisconnected \/ HandleSecurityChanged \/ HandleOther \/ IgnoreFrame
  BY <1>3, <1>5
  DEF HandleDisconnected, HandleSecurityChanged, HandleOther, IgnoreFrame, PrivacyEvent
<1>6. CASE HandleMalformedHello \/ HandleAuthFailure \/ HandleLock
  BY <1>3, <1>6 DEF HandleMalformedHello, HandleAuthFailure, HandleLock, PrivacyEvent
<1>7. CASE HandleHello
  <2>1. ghost'.verified = ghost.verified
    BY <1>1, <1>7, VerifiedKept DEF HandleHello
  <2> QED BY <1>3, <1>7, <2>1 DEF HandleHello, PrivacyEvent
<1>8. CASE HandleHeartbeat
  <2>1. ghost'.verified = ghost.verified
    BY <1>1, <1>8, VerifiedKept DEF HandleHeartbeat
  <2> QED BY <1>3, <1>8, <2>1 DEF HandleHeartbeat, PrivacyEvent
<1>9. CASE HandleAuthSuccess
  <2>1. CASE privacy.state = "AUTHENTICATING"
    BY <1>9, <2>1, OpensGate DEF Goal
  <2>2. CASE privacy.state # "AUTHENTICATING"
    <3>1. privacy' = privacy /\ ghost' = ghost /\ panel' = panel /\ app'.private = app.private
      BY <1>1, <1>9, <2>2 DEF HandleAuthSuccess, DispatchEvent, Dispatch, LockingEvent, AppState
    <3> QED BY <1>2, <3>1
  <2> QED BY <2>1, <2>2
<1>10. CASE HandlePrivateState
  <2>1. /\ UNCHANGED <<privacy, todo, ghost>>
        /\ app' = [app EXCEPT !.private = @ \/ StateAllowed]
        /\ panel' = [panel EXCEPT !.private = @ \/ StateAllowed]
    BY <1>10 DEF HandlePrivateState, NoDispatch
  <2>2. CASE privacy.state = "ACTIVE"
    BY <1>1, <2>1, <2>2, InSession DEF Goal
  <2>3. CASE privacy.state # "ACTIVE"
    <3>1. /\ app'.private = app.private /\ panel'.private = panel.private
          /\ panel'.backlight = panel.backlight /\ panel'.touch = panel.touch
      BY <1>1, <2>1, <2>3 DEF StateAllowed, AppState, Panel
    <3> QED BY <2>1, <3>1, LessShown DEF Goal
  <2> QED BY <2>2, <2>3
<1>11. CASE BacklightOff
  <2>1. PICK failed \in BOOLEAN : panel' = [panel EXCEPT !.backlight = failed /\ @]
    BY <1>11 DEF BacklightOff
  <2>2. /\ panel'.private = panel.private /\ (panel'.backlight => panel.backlight)
        /\ panel'.touch = panel.touch
    BY <1>1, <2>1 DEF Panel
  <2>3. UNCHANGED <<privacy, ghost, app>>
    BY <1>11 DEF BacklightOff, UnchangedByApply
  <2> QED BY <2>2, <2>3, LessShown DEF Goal
<1>12. CASE ClearPrivateData
  <2>1. UNCHANGED <<privacy, ghost, panel>> /\ ~app'.private
    BY <1>12 DEF ClearPrivateData, UnchangedByApply
  <2> QED BY <2>1, LessShown DEF Goal
<1>13. CASE UpdateUi
  <2>1. UNCHANGED <<privacy, ghost, app>>
    BY <1>13 DEF UpdateUi, UnchangedByApply
  <2>2. /\ panel'.private = app.private /\ panel'.backlight = panel.backlight
        /\ panel'.touch = ("TOUCH_ENABLE" \in todo)
    BY <1>1, <1>13 DEF UpdateUi, Panel
  <2>3. CASE privacy.state = "ACTIVE"
    BY <1>1, <2>1, <2>3, InSession DEF Goal
  <2>4. CASE privacy.state # "ACTIVE"
    <3>1. "TOUCH_ENABLE" \notin todo
      BY <1>1, <2>4 DEF GateSessionInv, GateInv, TouchInv, PrivacyContext, PrivacyState
    <3> QED BY <2>1, <2>2, <3>1, LessShown DEF Goal
  <2> QED BY <2>3, <2>4
<1>14. CASE BacklightOn
  <2>1. UNCHANGED <<privacy, ghost>> /\ "BACKLIGHT_ON" \in todo
    BY <1>14 DEF BacklightOn, UnchangedByApply
  <2>2. privacy.state = "ACTIVE"
    BY <1>1, <2>1 DEF GateSessionInv, GateInv, ClearInv, PrivacyContext, PrivacyState
  <2> QED BY <1>1, <2>1, <2>2, InSession DEF Goal
<1>15. CASE DisconnectBle
  BY <1>2, <1>15 DEF DisconnectBle, UnchangedByApply
<1>16. CASE PollTimeouts
  <2>1. ghost'.verified = ghost.verified /\ UNCHANGED <<panel, app>>
    BY <1>1, <1>16 DEF PollTimeouts, History
  <2> QED BY <1>3, <1>16, <2>1 DEF PollTimeouts, PrivacyEvent, NoDispatch
<1>17. CASE ReceiveTimeout \/ ReadClock \/ HandleUiAction \/ TouchUi \/ MacGivesUp
            \/ UNCHANGED vars
  BY <1>2, <1>17
  DEF ReceiveTimeout, ReadClock, HandleUiAction, TouchUi, MacGivesUp, deskVars, vars
<1>18. CASE MacSendsFrame \/ LinkChanges \/ LinkDown
  BY <1>2, <1>18, HostNumbers DEF GateSessionInv
<1>19. CASE LinkUp
  BY <1>2, <1>19, BeginNumbers DEF GateSessionInv
<1>20. CASE Tick
  <2> DEFINE silence == IF ghost.silence < SilenceCap THEN ghost.silence + 1 ELSE ghost.silence
             down == IF ghost.down < DownCap /\ ~link.connected THEN ghost.down + 1
                     ELSE ghost.down
  <2>1. ghost' = [ghost EXCEPT !.ticks = ghost.ticks + 1, !.silence = silence, !.down = down]
    BY <1>20 DEF Tick
  <2> HIDE DEF silence, down
  <2>2. ghost'.verified = ghost.verified
    BY <1>1, <2>1 DEF History
  <2> QED BY <1>2, <1>20, <2>2 DEF Tick, deskVars
<1> QED
  BY <1>4, <1>5, <1>6, <1>7, <1>8, <1>9, <1>10, <1>11, <1>12, <1>13, <1>14, <1>15, <1>16,
     <1>17, <1>18, <1>19, <1>20
  DEF Next, Supervisor, HandleEvent, ApplyActions, Environment

LEMMA GateInitially == Init => GateSessionInv /\ Gate!GateInit
<1> SUFFICES ASSUME Init PROVE GateSessionInv /\ Gate!GateInit
  OBVIOUS
<1>1. TypeOK /\ OrderInv
  BY TypeInit, FollowInit
<1>2. TouchInv /\ ClearInv /\ GateInv
  BY DEF Init, TouchInv, ClearInv, GateInv, InitialContext
<1>3. bleQueue = <<>> /\ ghost.verified = 0 /\ link.conn = 0 /\ privacy.state = "LOCKED"
  BY DEF Init, LinkInit, NoLink, InitialContext
<1>4. \A i \in 1 .. Len(bleQueue) : FALSE
  BY <1>3
<1>5. ConnectionInv
  BY <1>3, <1>4 DEF ConnectionInv, Numbers
<1>6. Shown = {"touch"}
  BY DEF Init, Shown
<1> QED BY <1>1, <1>2, <1>3, <1>5, <1>6 DEF GateSessionInv, Gate!GateInit

\* The supervisor with all that runs beside it is a gate: the screen is lit, takes
\* touches and shows the Mac's data only in a session, a session is opened by a
\* connection that is later than those of all sessions before it, and nothing is
\* left over for it but what Left names; for every length of the queues, whatever
\* is dropped and whatever the peers write (supervisor_task with
\* handle_ble_event and apply_privacy_actions).
THEOREM GateKept == Spec => KeepsGate
<1>1. Init => GateSessionInv /\ Gate!GateInit
  BY GateInitially
<1>2. GateSessionInv /\ [Next]_vars => GateSessionInv'
  <2> SUFFICES ASSUME GateSessionInv, [Next]_vars PROVE GateSessionInv'
    OBVIOUS
  <2>1. TypeOK' /\ TouchInv' /\ ClearInv'
    BY TypeInductive, TouchInductive, ClearInductive DEF GateSessionInv
  <2>2. ConnectionInv' /\ GateInv'
    BY ConnectionInductive, GateInductive DEF GateSessionInv
  <2>3. ~DropsAllowed => OrderInv'
    BY OrderInductive DEF GateSessionInv
  <2> QED BY <2>1, <2>2, <2>3 DEF GateSessionInv
<1>3. GateSessionInv /\ [Next]_vars => [Gate!GateNext]_(Gate!gateVars)
  BY GateStep
<1> QED BY <1>1, <1>2, <1>3, PTL DEF Spec, KeepsGate, Gate!GateSpec
==============================================================================
