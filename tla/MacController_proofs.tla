------------------------- MODULE MacController_proofs -------------------------
(***************************************************************************)
(* Proofs about MacController: a helper that is neither suspended nor      *)
(* without Bluetooth always has something that finds the device again, and *)
(* no timer outlives the session that armed it.                            *)
(***************************************************************************)
EXTENDS MacController, TLAPS

------------------------------------------------------------------------------
(* The invariant                                                            *)

Types ==
  /\ link \in LinkState
  /\ session \in Session
  /\ gatt \in {"none", "found", "notifying"}
  /\ hellos \in {0, 1}

\* A connection has its peripheral and needs Bluetooth, and no retry is armed
\* while it lasts.
LinkInv ==
  /\ ~power => link = "disconnected"
  /\ link # "disconnected" => known
  /\ "retry" \in timers => link # "connected"

\* The answers of a connection do not outlive it, and what a search starts
\* from is clean.
SearchInv ==
  /\ link \in {"disconnected", "connecting"} => pending \subseteq {"sample"}
  /\ link = "connecting" \/ (scanning /\ link = "disconnected") => gatt = "none"

\* Discovery goes one way: each answer is outstanding only before the next.
DiscoveryInv ==
  /\ "services" \in pending =>
       {"characteristics", "transmitOn"} \intersect pending = {} /\ gatt # "notifying"
  /\ "characteristics" \in pending => "transmitOn" \notin pending /\ gatt # "notifying"
  /\ {"services", "characteristics"} \intersect pending # {} => ~session.started

\* A HELLO belongs to a session that was started.
SessionInv ==
  /\ ~session.started => session.stage = "idle"
  /\ link = "connected" /\ ~session.started => hellos = 0

IInv ==
  /\ Types /\ LinkInv /\ SearchInv /\ DiscoveryInv /\ SessionInv
  /\ NeverIdle /\ TimersBelongToSession

LEMMA InitInv == Init => IInv
  BY DEF Init, IInv, Types, LinkInv, SearchInv, DiscoveryInv, SessionInv, NeverIdle,
         TimersBelongToSession, Authenticated, NoSession, Session, LinkState

------------------------------------------------------------------------------
(* What several handlers do                                                 *)

\* beginScanning, from wherever it is called: no connection is there to lose
\* its session, and a scan that starts, starts clean.
LEMMA ScanningBegun ==
  ASSUME IInv, link # "connected", ~power' => link = "disconnected",
         UNCHANGED <<known, link, pending, hellos>>, timers' \subseteq timers,
         \/ suspended' /\ UNCHANGED <<scanning, gatt, session>>
         \/ ~power' /\ UNCHANGED <<scanning, gatt, session>>
         \/ /\ power' /\ scanning' /\ gatt' = "none" /\ session' = NoSession
            /\ timers' \intersect SessionTimer = {}
  PROVE  IInv'
<1> USE DEF IInv, Types, Session, LinkState
<1>1. Types' /\ LinkInv' /\ NeverIdle'
  <2>1. Types'
    <3>1. NoSession \in Session
      BY DEF NoSession
    <3>2. session' \in {session, NoSession} /\ gatt' \in {gatt, "none"}
      BY Zenon
    <3> QED
      BY <3>1, <3>2
  <2>2. LinkInv'
    BY Zenon DEF LinkInv
  <2>3. NeverIdle'
    BY Zenon DEF NeverIdle
  <2> QED
    BY <2>1, <2>2, <2>3
<1>2. SearchInv' /\ DiscoveryInv' /\ SessionInv'
  BY DEF LinkInv, SearchInv, DiscoveryInv, SessionInv, NoSession
<1>3. TimersBelongToSession'
  BY DEF TimersBelongToSession, Authenticated, NoSession, SessionTimer, RunLoopTimer
<1> QED
  BY <1>1, <1>2, <1>3

\* beginAuthenticationIfReady, whether the HELLO is sent or the key store
\* fails: the first HELLO of the connection, and the last.
LEMMA HelloSent ==
  ASSUME IInv, ~session.started, link = "connected", gatt' = "notifying",
         session' \in Session, session'.started,
         UNCHANGED <<power, suspended, known, scanning>>,
         link' \in {"connected", "disconnecting"}, hellos' \in {hellos, hellos + 1},
         timers' \subseteq timers \ {"poll"},
         {"services", "characteristics"} \intersect pending' = {}
  PROVE  IInv'
<1> USE DEF IInv, Types, LinkState
<1>1. Types' /\ LinkInv' /\ NeverIdle' /\ SearchInv'
  BY DEF LinkInv, NeverIdle, SearchInv, SessionInv
<1>2. DiscoveryInv' /\ SessionInv'
  BY DEF DiscoveryInv, SessionInv
<1>3. TimersBelongToSession'
  BY DEF TimersBelongToSession, Authenticated, SessionInv
<1> QED
  BY <1>1, <1>2, <1>3

LEMMA PowersOnStep == IInv /\ PowersOn => IInv'
  BY ScanningBegun DEF PowersOn, BeginsScanning, IInv, LinkInv

LEMMA RetryFiresStep == IInv /\ RetryFires => IInv'
  BY ScanningBegun DEF RetryFires, BeginsScanning, IInv, LinkInv

\* reconnectNow: a connection that is there ends, and its end arms the retry.
LEMMA ReconnectsStep == IInv /\ (BecomesActive \/ UserReconnects) => IInv'
<1> SUFFICES ASSUME IInv, BecomesActive \/ UserReconnects PROVE IInv'
  OBVIOUS
<1>1. ReconnectsNow /\ UNCHANGED <<power, known, pending, hellos>>
  BY DEF BecomesActive, UserReconnects
<1>2. CASE HasConnection
  <2>1. /\ link' = "disconnecting" /\ known /\ link # "disconnected"
        /\ timers' = timers \ {"retry"}
        /\ UNCHANGED <<scanning, gatt, session>>
    BY <1>1, <1>2 DEF ReconnectsNow, HasConnection, LinkAfterCancel
  <2> QED
    BY <1>1, <2>1 DEF IInv, Types, LinkInv, SearchInv, DiscoveryInv, SessionInv, NeverIdle,
         TimersBelongToSession, Authenticated, NoSession, Session, LinkState
<1>3. CASE ~HasConnection
  <2>1. link = "disconnected" /\ link' = link /\ BeginsScanning(timers \ {"retry"})
    BY <1>1, <1>3 DEF ReconnectsNow, HasConnection, IInv, LinkInv
  <2> QED
    BY <1>1, <2>1, ScanningBegun DEF BeginsScanning
<1> QED
  BY <1>2, <1>3

LEMMA TransmitNotifiesStep == IInv /\ TransmitNotifies => IInv'
<1> SUFFICES ASSUME IInv, TransmitNotifies PROVE IInv'
  OBVIOUS
<1>1. /\ "transmitOn" \in pending /\ gatt' = "notifying"
      /\ UNCHANGED <<power, suspended, known, scanning>>
  BY DEF TransmitNotifies
<1>2. {"services", "characteristics"} \intersect pending = {}
  BY <1>1 DEF IInv, DiscoveryInv
<1>3. CASE SendsHello(session.encrypted, pending \ {"transmitOn"})
  <2>1. /\ ~session.started /\ link = "connected" /\ link' \in {"connected", "disconnecting"}
        /\ hellos' \in {hellos, hellos + 1} /\ timers' \subseteq timers \ {"poll"}
        /\ {"services", "characteristics"} \intersect pending' = {}
    BY <1>2, <1>3 DEF SendsHello, ReadyToAuthenticate, AuthenticationFails, LinkAfterCancel,
                      RunLoopTimer
  <2>2. session' \in Session /\ session'.started
    BY <1>3 DEF SendsHello, IInv, Types, Session
  <2> QED
    BY <1>1, <2>1, <2>2, HelloSent
<1>4. CASE /\ pending' = pending \ {"transmitOn"}
           /\ UNCHANGED <<session, timers, shown, link, hellos, used>>
  BY <1>1, <1>2, <1>4 DEF IInv, Types, LinkInv, SearchInv, DiscoveryInv, SessionInv, NeverIdle,
         TimersBelongToSession, Authenticated, NoSession, Session, LinkState
<1> QED
  BY <1>3, <1>4 DEF TransmitNotifies

LEMMA StatusArrivesStep ==
  ASSUME IInv, NEW encrypted \in BOOLEAN, StatusArrives(encrypted)
  PROVE  IInv'
<1>1. /\ gatt' = gatt /\ link = "connected"
      /\ UNCHANGED <<power, suspended, known, scanning>>
  BY DEF StatusArrives
<1>2. CASE SendsHello(encrypted, pending \ {"read"})
  <2>1. /\ ~session.started /\ link' \in {"connected", "disconnecting"}
        /\ gatt' = "notifying"
        /\ hellos' \in {hellos, hellos + 1} /\ timers' \subseteq timers \ {"poll"}
        /\ pending' \subseteq pending \union {"deviceFrame"}
    BY <1>1, <1>2 DEF SendsHello, ReadyToAuthenticate, AuthenticationFails, LinkAfterCancel,
                      RunLoopTimer
  <2>2. session' \in Session /\ session'.started
    BY <1>2 DEF SendsHello, IInv, Types, Session
  <2>3. {"services", "characteristics"} \intersect pending' = {}
    BY <1>1, <2>1 DEF IInv, DiscoveryInv
  <2> QED
    BY <1>1, <2>1, <2>2, <2>3, HelloSent
<1>3. CASE /\ session' = [session EXCEPT !.encrypted = encrypted]
           /\ pending' = pending \ {"read"}
           /\ UNCHANGED <<timers, link, hellos, used>>
  BY <1>1, <1>3 DEF IInv, Types, LinkInv, SearchInv, DiscoveryInv, SessionInv, NeverIdle,
         TimersBelongToSession, Authenticated, NoSession, Session, LinkState
<1> QED
  BY <1>2, <1>3 DEF StatusArrives

------------------------------------------------------------------------------
(* All steps                                                                *)

LEMMA StepInv == IInv /\ [Next]_vars => IInv'
<1> SUFFICES ASSUME IInv, [Next]_vars PROVE IInv'
  OBVIOUS
<1> USE DEF IInv, Types, LinkInv, SearchInv, DiscoveryInv, SessionInv, NeverIdle,
            TimersBelongToSession, Authenticated, NoSession, Session, LinkState,
            SessionTimer, RunLoopTimer
<1>1. CASE PowersOff
  BY <1>1 DEF PowersOff, Uses
<1>2. CASE Discovers
  BY <1>2 DEF Discovers
<1>3. CASE Connects
  BY <1>3 DEF Connects
<1>4. CASE ConnectionLost
  BY <1>4 DEF ConnectionLost, ConnectionEnds, SchedulesReconnect, Uses
<1>5. CASE Disconnects
  BY <1>5 DEF Disconnects, ConnectionEnds, SchedulesReconnect
<1>6. CASE TimeoutFires
  BY <1>6 DEF TimeoutFires
<1>7. CASE DiscoveryFails
  BY <1>7 DEF DiscoveryFails, LinkAfterCancel
<1>8. CASE DiscoversServices
  BY <1>8 DEF DiscoversServices
<1>9. CASE DiscoversCharacteristics
  BY <1>9 DEF DiscoversCharacteristics, FinishesDiscovery
<1>10. CASE StatusNotifies
  BY <1>10 DEF StatusNotifies
<1>11. CASE NotifyFails
  BY <1>11 DEF NotifyFails
<1>12. CASE PollFires
  BY <1>12 DEF PollFires, CanSend
<1>13. CASE AnswersChallenge
  BY <1>13 DEF AnswersChallenge, CanSend
<1>14. CASE BecomesAuthenticated
  BY <1>14 DEF BecomesAuthenticated, CanSend, LinkAfterCancel
<1>15. CASE SessionFails
  BY <1>15 DEF SessionFails, CanSend, AuthenticationFails, LinkAfterCancel
<1>16. CASE HeartbeatFires
  BY <1>16 DEF HeartbeatFires, AuthenticationFails, LinkAfterCancel
<1>17. CASE MetricsFires
  BY <1>17 DEF MetricsFires, CanSend, AuthenticationFails, LinkAfterCancel
<1>18. CASE SampleArrives
  BY <1>18 DEF SampleArrives, AuthenticationFails, LinkAfterCancel
<1>19. CASE LocksOrSleeps
  BY <1>19 DEF LocksOrSleeps, HasConnection
<1>20. CASE LockCancelFires
  BY <1>20 DEF LockCancelFires, LinkAfterCancel
<1>21. CASE UserDisconnects
  BY <1>21 DEF UserDisconnects, LinkAfterCancel
<1>22. CASE OpensDialog
  BY <1>22 DEF OpensDialog
<1>23. CASE ClosesDialog
  BY <1>23 DEF ClosesDialog
<1>24. CASE DeviceGivesUp
  BY <1>24 DEF DeviceGivesUp, ConnectionEnds, SchedulesReconnect
<1>25. CASE UNCHANGED vars
  BY <1>25 DEF vars
<1> HIDE DEF IInv
<1> QED
  BY <1>1, <1>2, <1>3, <1>4, <1>5, <1>6, <1>7, <1>8, <1>9, <1>10, <1>11, <1>12, <1>13, <1>14,
     <1>15, <1>16, <1>17, <1>18, <1>19, <1>20, <1>21, <1>22, <1>23, <1>24, <1>25,
     PowersOnStep, RetryFiresStep, ReconnectsStep, TransmitNotifiesStep, StatusArrivesStep
     DEF Next

LEMMA Invariance == Spec => []IInv
  BY InitInv, StepInv, PTL DEF Spec

------------------------------------------------------------------------------
(* Theorems                                                                 *)

\* In whatever order lock and wake, power, timers and the callbacks of
\* CoreBluetooth come, and however often: a helper that should be connected is
\* scanning, about to retry, or waiting for a connection to come or to end.
THEOREM AlwaysPursued == Spec => []NeverIdle
<1>1. IInv => NeverIdle
  BY DEF IInv
<1> QED
  BY <1>1, Invariance, PTL

\* The heartbeat's and the telemetry's timers run in authenticated sessions
\* only, the polling ends with the HELLO, and a connection sees one HELLO.
THEOREM TimersEnd == Spec => []TimersBelongToSession
<1>1. IInv => TimersBelongToSession
  BY DEF IInv
<1> QED
  BY <1>1, Invariance, PTL
==============================================================================
