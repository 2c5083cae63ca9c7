----------------------------- MODULE Panel_proofs -----------------------------
(***************************************************************************)
(* Proofs about Panel: no pointer of ui.c outlives its object, the screen  *)
(* shows what was last received, and the charts the last readings.         *)
(***************************************************************************)
EXTENDS Panel, TLAPS

------------------------------------------------------------------------------
(* Objects                                                                  *)

\* The feedback panel and its timer are no part of any page.
LEMMA FeedbackApart ==
  ASSUME NEW where, NEW state
  PROVE  Created(where, state) \intersect Feedback = {}
  BY DEF Created, HomeObjects, AlertBar, MarketObjects, SystemObjects, SystemChart,
         ControlObjects, OverviewObjects, OverviewCards, CodexObjects, ClaudeObjects,
         MediaObjects, SettingsObjects, DiagnosticsObjects, InformationCards, Slots,
         Feedback, Named

\* The clock's timer is created with the labels it writes.
LEMMA ClockHasLabels ==
  ASSUME NEW where, NEW state, <<"clock_timer", 0>> \in Created(where, state)
  PROVE  Named({"clock_label", "date_label"}) \subseteq Created(where, state)
  BY DEF Created, HomeObjects, AlertBar, MarketObjects, SystemObjects, SystemChart,
         ControlObjects, OverviewObjects, OverviewCards, CodexObjects, ClaudeObjects,
         MediaObjects, SettingsObjects, DiagnosticsObjects, InformationCards, Slots, Named

\* What a refresh dereferences is created with the page.
LEMMA DereferencedCreated ==
  ASSUME NEW where, NEW state
  PROVE  Dereferenced(where, state) \subseteq Created(where, state)
  BY DEF Created, CodexObjects, Dereferenced

\* Two states of the same shape have the same objects.
LEMMA SameShapeSameObjects ==
  ASSUME NEW before, NEW after, ~ShapeChanged(before, after)
  PROVE  Created(page, before) = Created(page, after)
  BY DEF ShapeChanged, AiPages, Created, HomeObjects, AlertBar, SystemObjects,
         OverviewObjects, CodexObjects, ClaudeObjects, MediaObjects


------------------------------------------------------------------------------
(* Parts                                                                    *)

LEMMA UnionOfParts ==
  ASSUME NEW record, NEW more
  PROVE  /\ DOMAIN With(record, more) = DOMAIN record \cup DOMAIN more
         /\ With(record, more)
            = [field \in DOMAIN With(record, more) |-> With(record, more)[field]]
  BY DEF With

\* The bar of an alert is the one part of the home page that comes and goes.
LEMMA HomeDomain ==
  ASSUME NEW before, NEW after,
         (before.weather = "alert") <=> (after.weather = "alert")
  PROVE  DOMAIN HomeParts(before) = DOMAIN HomeParts(after)
<1>1. CASE before.weather = "alert"
  BY <1>1 DEF HomeParts, With
<1>2. CASE before.weather # "alert"
  BY <1>2 DEF HomeParts, With
<1> QED BY <1>1, <1>2

\* Two states of the same shape have the same parts.
LEMMA SameShapeSameParts ==
  ASSUME NEW before, NEW after, NEW older, NEW newer, ~ShapeChanged(before, after)
  PROVE  DOMAIN Parts(page, before, older) = DOMAIN Parts(page, after, newer)
<1>1. DOMAIN PageParts(page, before, older)
      = DOMAIN PageParts(page, after, newer)
  <2>1. CASE page = "HOME"
    <3>1. CASE before.weather = "alert"
      BY <2>1, <3>1, HomeDomain DEF PageParts, ShapeChanged, AiPages
    <3>2. CASE before.weather # "alert"
      BY <2>1, <3>2, HomeDomain DEF PageParts, ShapeChanged, AiPages
    <3> QED BY <3>1, <3>2
  <2>2. CASE page = "SYSTEM"
    BY <2>2 DEF PageParts, ShapeChanged, AiPages, SystemParts
  <2>3. CASE page \in AiPages
    BY <2>3 DEF PageParts, ShapeChanged, AiPages, OverviewParts, CodexParts, ClaudeParts
  <2>4. CASE page = "MEDIA"
    BY <2>4 DEF PageParts, ShapeChanged, AiPages, MediaParts
  <2>5. CASE page \notin {"HOME", "SYSTEM", "MEDIA"} \cup AiPages
    BY <2>5 DEF PageParts, AiPages, MarketParts, ControlParts, SettingsParts, DiagnosticsParts
  <2> QED BY <2>1, <2>2, <2>3, <2>4, <2>5
<1>2. DOMAIN StatusBar(before) = DOMAIN StatusBar(after)
  BY DEF StatusBar
<1>3. \A state, ring : DOMAIN Parts(page, state, ring)
                         = DOMAIN StatusBar(state) \cup DOMAIN PageParts(page, state, ring)
  BY DEF Parts, With
<1> QED BY <1>1, <1>2, <1>3, Zenon

------------------------------------------------------------------------------
(* The inductive invariant                                                  *)

\* The pointers are those of the objects that exist: the page's as the state
\* has them, and the feedback as a whole or not at all.
ObjectInv ==
  /\ pointer = live
  /\ live \ Feedback = Created(page, app)
  /\ live \intersect Feedback \in {{}, Feedback}

\* The state is the one last received, and the page is drawn from it.
ScreenInv ==
  /\ app = latest
  /\ screen = Parts(page, app, history)

LEMMA ObjectInvSuffices == ObjectInv => PointersAlive
<1> SUFFICES ASSUME ObjectInv PROVE PointersAlive
  OBVIOUS
<1>1. Created(page, app) \subseteq live
  BY DEF ObjectInv
<1>2. <<"clock_timer", 0>> \in live => <<"clock_timer", 0>> \in Created(page, app)
  BY DEF ObjectInv, Feedback, Named
<1>3. <<"clock_timer", 0>> \in live => Named({"clock_label", "date_label"}) \subseteq live
  BY <1>1, <1>2, ClockHasLabels
<1>4. Dereferenced(page, app) \subseteq pointer
  BY <1>1, DereferencedCreated DEF ObjectInv
<1> QED BY <1>3, <1>4 DEF PointersAlive, ObjectInv

------------------------------------------------------------------------------
(* The two ways to change the screen                                        *)

\* A page that is created afresh.
LEMMA RenderingKeeps ==
  ASSUME NEW where, Renders(where, app', history')
  PROVE  ObjectInv' /\ screen' = Parts(page', app', history')
  BY FeedbackApart DEF Renders, ObjectInv

\* A state that is applied, whether the page is refreshed or created afresh.
LEMMA ApplyingKeeps ==
  ASSUME NEW state, ObjectInv, ScreenInv, Applies(state)
  PROVE  ObjectInv' /\ screen' = Parts(page', state, history')
<1>1. CASE ShapeChanged(app, state)
  <2>1. Renders(page, app', history') /\ app' = state
    BY <1>1 DEF Applies
  <2> QED BY <2>1, RenderingKeeps
<1>2. CASE ~ShapeChanged(app, state)
  <2> DEFINE drawn == Parts(page, state, history')
  <2>1. Refreshes(state, history') /\ app' = state
    BY <1>2 DEF Applies
  <2>2. Created(page, app) = Created(page, state)
    BY <1>2, SameShapeSameObjects
  <2>3. ObjectInv'
    BY <2>1, <2>2 DEF Refreshes, ObjectInv
  <2>4. DOMAIN screen = DOMAIN drawn
    BY <1>2, SameShapeSameParts DEF ScreenInv
  <2>5. drawn = [part \in DOMAIN drawn |-> drawn[part]]
    BY UnionOfParts DEF Parts
  <2>6. page' = page
    BY <2>1 DEF Refreshes
  <2>7. screen' = [part \in DOMAIN screen |-> IF part \in DOMAIN drawn THEN drawn[part] ELSE screen[part]]
    BY <2>1 DEF Refreshes
  <2>8. screen' = drawn
    <3> HIDE DEF drawn
    <3> QED BY <2>4, <2>5, <2>7
  <2> QED BY <2>3, <2>6, <2>8
<1> QED BY <1>1, <1>2

\* A message that is accepted.
LEMMA AcceptingKeeps ==
  ASSUME NEW state, ObjectInv, ScreenInv, Accepts(state, state)
  PROVE  ObjectInv' /\ ScreenInv'
  BY ApplyingKeeps DEF Accepts, Applies, ScreenInv

\* A touch that shows another page.
LEMMA NavigatingKeeps ==
  ASSUME NEW where, ScreenInv, Navigates(where)
  PROVE  ObjectInv' /\ ScreenInv'
  BY RenderingKeeps DEF Navigates, ScreenInv

LEMMA Initially == Init => ObjectInv /\ ScreenInv
  BY FeedbackApart DEF Init, ObjectInv, ScreenInv

LEMMA Inductive == ObjectInv /\ ScreenInv /\ [Next]_vars => ObjectInv' /\ ScreenInv'
<1> SUFFICES ASSUME ObjectInv, ScreenInv, [Next]_vars
             PROVE  ObjectInv' /\ ScreenInv'
  OBVIOUS
<1>0. app = latest
  BY DEF ScreenInv
<1>1. CASE WeatherEvent
  BY <1>0, <1>1, AcceptingKeeps DEF WeatherEvent
<1>2. CASE MarketEvent
  BY <1>0, <1>2, AcceptingKeeps DEF MarketEvent
<1>3. CASE NetworkEvent
  BY <1>0, <1>3, AcceptingKeeps DEF NetworkEvent
<1>4. CASE DeviceDiagnostics
  BY <1>0, <1>4, AcceptingKeeps DEF DeviceDiagnostics
<1>5. CASE SystemState
  BY <1>0, <1>5, AcceptingKeeps DEF SystemState
<1>6. CASE ControlLayout
  BY <1>0, <1>6, AcceptingKeeps DEF ControlLayout
<1>7. CASE AiState
  BY <1>0, <1>7, AcceptingKeeps DEF AiState, AiMerged
<1>8. CASE AiTasks
  BY <1>0, <1>8, AcceptingKeeps DEF AiTasks
<1>9. CASE ClaudeTasks
  BY <1>0, <1>9, AcceptingKeeps DEF ClaudeTasks
<1>10. CASE MediaState
  BY <1>0, <1>10, AcceptingKeeps DEF MediaState
<1>11. CASE CodexLight
  BY <1>0, <1>11, AcceptingKeeps DEF CodexLight
<1>12. CASE Connects
  <2>1. ObjectInv' /\ screen' = Parts(page', [app EXCEPT !.ble = TRUE, !.mac = FALSE], history')
    BY <1>12, ApplyingKeeps DEF Connects
  <2> QED BY <1>0, <1>12, <2>1 DEF Connects, Applies, ScreenInv
<1>13. CASE Opens
  <2>1. Renders("HOME", app', history') /\ app' = latest'
    BY <1>0, <1>13 DEF Opens
  <2> QED BY <2>1, RenderingKeeps DEF ScreenInv
<1>14. CASE Locks
  <2>1. ObjectInv' /\ screen' = Parts(page', ClearPrivate(app), history')
    BY <1>14, ApplyingKeeps DEF Locks
  <2> QED BY <1>0, <1>14, <2>1 DEF Locks, Applies, ScreenInv
<1>15. CASE ShowsFeedback
  <2>1. /\ live' = (live \ Feedback) \cup Feedback
        /\ pointer' = pointer \cup Feedback
        /\ UNCHANGED <<app, page, screen, history, latest>>
    BY <1>15 DEF ShowsFeedback
  <2>2. Created(page', app') = Created(page, app)
    BY <2>1
  <2>3. ObjectInv'
    BY <2>1, <2>2 DEF ObjectInv
  <2> QED BY <2>1, <2>3 DEF ScreenInv
<1>16. CASE FeedbackExpires
  <2>1. /\ live' = live \ Feedback
        /\ pointer' = pointer \ Feedback
        /\ UNCHANGED <<app, page, screen, history, latest>>
    BY <1>16 DEF FeedbackExpires
  <2>2. Created(page', app') = Created(page, app)
    BY <2>1
  <2>3. ObjectInv'
    BY <2>1, <2>2 DEF ObjectInv
  <2> QED BY <2>1, <2>3 DEF ScreenInv
<1>17. ASSUME NEW where, Navigates(where)
       PROVE  ObjectInv' /\ ScreenInv'
  BY <1>17, NavigatingKeeps
<1>18. CASE Dock \/ Swipe \/ Back
  BY <1>17, <1>18 DEF Dock, Swipe, Back
<1>19. CASE LibraryNavigation \/ AiNavigation \/ CodexNavigation
  BY <1>17, <1>19 DEF LibraryNavigation, AiNavigation, CodexNavigation
<1>20. CASE UNCHANGED vars
  BY <1>20 DEF vars, ObjectInv, ScreenInv
<1> QED
  BY <1>1, <1>2, <1>3, <1>4, <1>5, <1>6, <1>7, <1>8, <1>9, <1>10, <1>11, <1>12, <1>13,
     <1>14, <1>15, <1>16, <1>18, <1>19, <1>20 DEF Next

------------------------------------------------------------------------------
(* The theorems                                                             *)

LEMMA InvariantHolds == Spec => [](ObjectInv /\ ScreenInv)
  BY Initially, Inductive, PTL DEF Spec

\* Whatever is applied and whichever page is shown, no pointer of ui.c
\* outlives its object, and a refresh finds what it dereferences: render_page
\* and page_shape_changed agree on what a page is made of.
THEOREM PointersKept == Spec => []PointersAlive
  BY InvariantHolds, ObjectInvSuffices, PTL

\* The screen shows what was last received, in whatever order the messages
\* of the Mac and the locks come.
THEOREM ScreenCurrent == Spec => []ScreenShowsLatest
<1>1. ScreenInv => ScreenShowsLatest
  BY DEF ScreenInv, ScreenShowsLatest
<1> QED BY <1>1, InvariantHolds, PTL

------------------------------------------------------------------------------
(* The history of the system page                                           *)

Ring ==
  [value : [0 .. HistoryCount - 1 -> Nat], count : 0 .. HistoryCount,
   write : 0 .. HistoryCount - 1, last : Nat]

\* The ring holds the readings of the session; a reading was recorded when its
\* sequence number was applied, so that the same state records no other.
HistoryInv ==
  /\ "sequence" \in DOMAIN app /\ app.sequence \in 0 .. SequenceMod - 1
  /\ history \in Ring
  /\ history.last = app.sequence
  /\ app.sequence = 0 => history = NoHistory
  /\ history.count < HistoryCount => history.write = history.count
  /\ ChartValues(history) = samples

LEMMA Wraps ==
  ASSUME NEW m \in Nat \ {0}, NEW k \in 0 .. m - 1
  PROVE  /\ k % m = k /\ (m + k) % m = k
         /\ (k + 1) % m = IF k + 1 = m THEN 0 ELSE k + 1
<1>1. k % m = k /\ (m + k) % m = k /\ m % m = 0
  OBVIOUS
<1>2. CASE k + 1 = m
  BY <1>1, <1>2
<1>3. CASE k + 1 # m
  <2>1. k + 1 \in 0 .. m - 1
    BY <1>3
  <2>2. (k + 1) % m = k + 1
    BY <2>1
  <2>3. QED BY <1>1, <1>3, <2>2
<1>4. QED BY <1>1, <1>2, <1>3

\* record_system_sample, where a number is recorded.
Pushed(ring, number) ==
  [value |-> [ring.value EXCEPT ![ring.write] = number],
   count |-> IF ring.count < HistoryCount THEN ring.count + 1 ELSE ring.count,
   write |-> (ring.write + 1) % HistoryCount,
   last |-> number]

LEMMA PushedFields ==
  ASSUME NEW ring \in Ring, NEW number \in Nat,
         ring.count < HistoryCount => ring.write = ring.count
  PROVE  /\ Pushed(ring, number) \in Ring
         /\ Pushed(ring, number).last = number
         /\ Pushed(ring, number).count
              = IF ring.count < HistoryCount THEN ring.count + 1 ELSE HistoryCount
         /\ Pushed(ring, number).write
              = IF ring.write + 1 = HistoryCount THEN 0 ELSE ring.write + 1
         /\ Pushed(ring, number).value[ring.write] = number
         /\ \A i \in 0 .. HistoryCount - 1 :
              i # ring.write => Pushed(ring, number).value[i] = ring.value[i]
<1>1. HistoryCount \in Nat \ {0}
  BY PanelAssumption
<1>2. /\ ring.value \in [0 .. HistoryCount - 1 -> Nat] /\ ring.write \in 0 .. HistoryCount - 1
      /\ ring.count \in 0 .. HistoryCount
  BY DEF Ring
<1>3. (ring.write + 1) % HistoryCount = IF ring.write + 1 = HistoryCount THEN 0 ELSE ring.write + 1
  BY <1>1, <1>2, Wraps
<1>4. (ring.write + 1) % HistoryCount \in 0 .. HistoryCount - 1
  BY <1>1, <1>2, <1>3
<1>5. (IF ring.count < HistoryCount THEN ring.count + 1 ELSE ring.count) \in 0 .. HistoryCount
  BY <1>1, <1>2
<1>6. [ring.value EXCEPT ![ring.write] = number] \in [0 .. HistoryCount - 1 -> Nat]
  BY <1>2
<1>7. Pushed(ring, number) \in Ring
  BY <1>4, <1>5, <1>6 DEF Pushed, Ring
<1>8. QED BY <1>1, <1>2, <1>3, <1>7 DEF Pushed

\* An index of the ring, some places after another.
LEMMA RingIndex ==
  ASSUME NEW m \in Nat \ {0}, NEW w \in 0 .. m - 1, NEW i \in 1 .. m
  PROVE  /\ (w + i - 1) % m = IF w + i - 1 < m THEN w + i - 1 ELSE w + i - 1 - m
         /\ (w + i - 1) % m \in 0 .. m - 1
<1>1. CASE w + i - 1 < m
  <2> DEFINE k == w + i - 1
  <2>1. k \in 0 .. m - 1
    BY <1>1
  <2> HIDE DEF k
  <2>2. k % m = k
    BY <2>1, Wraps
  <2>3. QED BY <1>1, <2>1, <2>2 DEF k
<1>2. CASE ~(w + i - 1 < m)
  <2> DEFINE k == w + i - 1 - m
  <2>1. k \in 0 .. m - 1 /\ m + k = w + i - 1
    BY <1>2
  <2> HIDE DEF k
  <2>2. (m + k) % m = k
    BY <2>1, Wraps
  <2>3. (w + i - 1) % m = k
    BY <2>1, <2>2
  <2>4. QED BY <1>2, <2>1, <2>3 DEF k
<1>3. QED BY <1>1, <1>2

\* The place that is written next is the oldest one of a full ring.
LEMMA RingShift ==
  ASSUME NEW m \in Nat \ {0}, NEW w \in 0 .. m - 1, NEW v \in Nat,
         v = IF w + 1 = m THEN 0 ELSE w + 1
  PROVE  v \in 0 .. m - 1 /\ (v + m - 1) % m = w
<1>1. v \in 0 .. m - 1 /\ m \in 1 .. m
  OBVIOUS
<1>2. (v + m - 1) % m = IF v + m - 1 < m THEN v + m - 1 ELSE v + m - 1 - m
  BY <1>1, RingIndex
<1>3. QED BY <1>1, <1>2

LEMMA Grown ==
  ASSUME NEW n \in Nat, NEW s \in Seq(Nat), NEW t \in Seq(Nat), NEW x \in Nat,
         Len(s) = n, Len(t) = n + 1, \A i \in 1 .. n : t[i] = s[i], t[n + 1] = x
  PROVE  t = Append(s, x)
  OBVIOUS

LEMMA Shifted ==
  ASSUME NEW m \in Nat \ {0}, NEW s \in Seq(Nat), NEW t \in Seq(Nat), NEW x \in Nat,
         Len(s) = m, Len(t) = m, \A i \in 1 .. m - 1 : t[i] = s[i + 1], t[m] = x
  PROVE  t = Append(Tail(s), x)
<1> DEFINE r == Tail(s)
<1>1. r \in Seq(Nat) /\ Len(r) = m - 1 /\ \A i \in 1 .. m - 1 : r[i] = s[i + 1]
  OBVIOUS
<1> HIDE DEF r
<1>2. m - 1 \in Nat /\ \A i \in 1 .. m - 1 : t[i] = r[i]
  BY <1>1
<1>3. t = Append(r, x)
  BY <1>1, <1>2, SMTT(30)
<1>4. QED BY <1>3 DEF r

\* The values of a ring that is not full, and of one that is.
LEMMA ChartIndex ==
  ASSUME NEW ring \in Ring, ring.count < HistoryCount => ring.write = ring.count
  PROVE  /\ ChartValues(ring) \in Seq(Nat) /\ Len(ChartValues(ring)) = ring.count
         /\ ring.count < HistoryCount =>
              \A i \in 1 .. ring.count : ChartValues(ring)[i] = ring.value[i - 1]
         /\ ring.count = HistoryCount =>
              \A i \in 1 .. HistoryCount :
                ChartValues(ring)[i] = ring.value[(ring.write + i - 1) % HistoryCount]
<1> DEFINE oldest == IF ring.count = HistoryCount THEN ring.write ELSE 0
           at(i) == (oldest + i - 1) % HistoryCount
<1>1. HistoryCount \in Nat \ {0}
  BY PanelAssumption
<1>2. /\ ring.value \in [0 .. HistoryCount - 1 -> Nat] /\ ring.write \in 0 .. HistoryCount - 1
      /\ ring.count \in 0 .. HistoryCount
  BY DEF Ring
<1>3. oldest \in 0 .. HistoryCount - 1 /\ (ring.count # HistoryCount => oldest = 0)
      /\ (ring.count = HistoryCount => oldest = ring.write)
  BY <1>1, <1>2
<1>4. ChartValues(ring) = [i \in 1 .. ring.count |-> ring.value[at(i)]]
  BY DEF ChartValues
<1> HIDE DEF oldest
<1>5. \A i \in 1 .. ring.count :
        /\ at(i) = IF oldest + i - 1 < HistoryCount THEN oldest + i - 1 ELSE oldest + i - 1 - HistoryCount
        /\ at(i) \in 0 .. HistoryCount - 1
  <2>1. \A i \in 1 .. ring.count : i \in 1 .. HistoryCount
    BY <1>1, <1>2
  <2>2. QED BY <1>1, <1>3, <2>1, RingIndex
<1> HIDE DEF at
<1>6. ring.count < HistoryCount => \A i \in 1 .. ring.count : at(i) = i - 1
  <2> SUFFICES ASSUME ring.count < HistoryCount, NEW i \in 1 .. ring.count PROVE at(i) = i - 1
    OBVIOUS
  <2>1. oldest = 0 /\ 0 + i - 1 = i - 1 /\ i - 1 < HistoryCount
    BY <1>1, <1>2, <1>3
  <2>2. QED BY <1>5, <2>1
<1>7. ring.count = HistoryCount =>
        \A i \in 1 .. HistoryCount : at(i) = (ring.write + i - 1) % HistoryCount
  BY <1>3 DEF at
<1>8. ChartValues(ring) \in Seq(Nat) /\ Len(ChartValues(ring)) = ring.count
      /\ \A i \in 1 .. ring.count : ChartValues(ring)[i] = ring.value[at(i)]
  <2>1. ring.count \in Nat /\ \A i \in 1 .. ring.count : ring.value[at(i)] \in Nat
    BY <1>1, <1>2, <1>5
  <2>2. [i \in 1 .. ring.count |-> ring.value[at(i)]] \in Seq(Nat)
    BY <2>1
  <2>3. QED BY <1>4, <2>1, <2>2
<1>9. QED BY <1>2, <1>6, <1>7, <1>8

\* A reading that is recorded becomes the last value of the charts, and the
\* first one leaves them when they are full.
LEMMA PushedChart ==
  ASSUME NEW ring \in Ring, NEW number \in Nat,
         ring.count < HistoryCount => ring.write = ring.count
  PROVE  /\ Pushed(ring, number).count < HistoryCount =>
              Pushed(ring, number).write = Pushed(ring, number).count
         /\ ChartValues(Pushed(ring, number))
              = IF Len(ChartValues(ring)) < HistoryCount
                THEN Append(ChartValues(ring), number)
                ELSE Append(Tail(ChartValues(ring)), number)
<1> DEFINE next == Pushed(ring, number)
           s == ChartValues(ring)
           t == ChartValues(next)
<1>1. HistoryCount \in Nat \ {0}
  BY PanelAssumption
<1>2. ring.write \in 0 .. HistoryCount - 1 /\ ring.count \in 0 .. HistoryCount
  BY DEF Ring
<1>3. /\ next \in Ring
      /\ next.count = IF ring.count < HistoryCount THEN ring.count + 1 ELSE HistoryCount
      /\ next.write = IF ring.write + 1 = HistoryCount THEN 0 ELSE ring.write + 1
      /\ next.value[ring.write] = number
      /\ \A i \in 0 .. HistoryCount - 1 : i # ring.write => next.value[i] = ring.value[i]
  BY PushedFields
<1> HIDE DEF next
<1>4. next.count < HistoryCount => next.write = next.count
  BY <1>1, <1>2, <1>3
<1>5. /\ s \in Seq(Nat) /\ Len(s) = ring.count
      /\ ring.count < HistoryCount => \A i \in 1 .. ring.count : s[i] = ring.value[i - 1]
      /\ ring.count = HistoryCount =>
           \A i \in 1 .. HistoryCount : s[i] = ring.value[(ring.write + i - 1) % HistoryCount]
  BY ChartIndex
<1>6. /\ t \in Seq(Nat) /\ Len(t) = next.count
      /\ next.count < HistoryCount => \A i \in 1 .. next.count : t[i] = next.value[i - 1]
      /\ next.count = HistoryCount =>
           \A i \in 1 .. HistoryCount : t[i] = next.value[(next.write + i - 1) % HistoryCount]
  BY <1>3, <1>4, ChartIndex
<1> HIDE DEF s, t
<1>7. CASE ring.count < HistoryCount
  <2>1. next.count = ring.count + 1 /\ ring.write = ring.count
    BY <1>3, <1>7
  <2>2. \A i \in 1 .. ring.count + 1 : t[i] = next.value[i - 1]
    <3>1. CASE next.count < HistoryCount
      BY <1>6, <2>1, <3>1
    <3>2. CASE next.count = HistoryCount
      <4>1. next.write = 0
        BY <1>2, <1>3, <2>1, <3>2
      <4>2. \A i \in 1 .. HistoryCount : (0 + i - 1) % HistoryCount = i - 1
        <5>1. \A i \in 1 .. HistoryCount : 0 \in 0 .. HistoryCount - 1 /\ 0 + i - 1 < HistoryCount
                                         /\ 0 + i - 1 = i - 1
          BY <1>1
        <5>2. \A i \in 1 .. HistoryCount :
                (0 + i - 1) % HistoryCount
                  = IF 0 + i - 1 < HistoryCount THEN 0 + i - 1 ELSE 0 + i - 1 - HistoryCount
          <6>1. \A i \in 1 .. HistoryCount : 0 \in 0 .. HistoryCount - 1
            BY <1>1
          <6>2. QED BY <1>1, <6>1, RingIndex
        <5>3. QED BY <5>1, <5>2
      <4>3. QED BY <1>6, <2>1, <3>2, <4>1, <4>2
    <3>3. QED BY <1>1, <1>2, <1>7, <2>1, <3>1, <3>2
  <2>3. \A i \in 1 .. ring.count : t[i] = s[i]
    <3> TAKE i \in 1 .. ring.count
    <3>1. i \in 1 .. ring.count + 1 /\ i - 1 \in 0 .. HistoryCount - 1 /\ i - 1 # ring.write
      BY <1>1, <1>2, <1>7, <2>1
    <3>2. QED BY <1>3, <1>5, <1>7, <2>2, <3>1
  <2>4. t[ring.count + 1] = number
    <3> DEFINE k == ring.count + 1
    <3>1. k \in 1 .. ring.count + 1 /\ k - 1 = ring.write
      BY <1>2, <2>1
    <3> HIDE DEF k
    <3>2. t[k] = number
      BY <1>3, <2>2, <3>1
    <3>3. QED BY <3>2 DEF k
  <2>5. t = Append(s, number)
    BY <1>2, <1>5, <1>6, <2>1, <2>3, <2>4, Grown
  <2>6. QED BY <1>4, <1>5, <1>7, <2>5 DEF s, t, next
<1>8. CASE ring.count = HistoryCount
  <2> DEFINE v == next.write
             w == ring.write
  <2>1. /\ next.count = HistoryCount /\ w \in 0 .. HistoryCount - 1
        /\ v \in Nat /\ v = IF w + 1 = HistoryCount THEN 0 ELSE w + 1
        /\ next.value[w] = number
        /\ \A i \in 0 .. HistoryCount - 1 : i # w => next.value[i] = ring.value[i]
    BY <1>1, <1>2, <1>3, <1>8
  <2>5. /\ \A i \in 1 .. HistoryCount : s[i] = ring.value[(w + i - 1) % HistoryCount]
        /\ \A i \in 1 .. HistoryCount : t[i] = next.value[(v + i - 1) % HistoryCount]
    BY <1>5, <1>6, <1>8, <2>1
  <2> HIDE DEF v, w
  <2>2. \A i \in 1 .. HistoryCount - 1 : t[i] = s[i + 1]
    <3> TAKE i \in 1 .. HistoryCount - 1
    <3> DEFINE k == i + 1
    <3>1. k \in Nat /\ k = i + 1
      OBVIOUS
    <3> HIDE DEF k
    <3>2. /\ i \in 1 .. HistoryCount /\ k \in 1 .. HistoryCount
          /\ (v + i - 1) % HistoryCount = (w + k - 1) % HistoryCount
          /\ (v + i - 1) % HistoryCount # w
          /\ (v + i - 1) % HistoryCount \in 0 .. HistoryCount - 1
      <4>1. v \in 0 .. HistoryCount - 1 /\ i \in 1 .. HistoryCount /\ k \in 1 .. HistoryCount
        BY <1>1, <2>1, <3>1
      <4>2. /\ (v + i - 1) % HistoryCount
                 = IF v + i - 1 < HistoryCount THEN v + i - 1 ELSE v + i - 1 - HistoryCount
            /\ (v + i - 1) % HistoryCount \in 0 .. HistoryCount - 1
        BY <1>1, <4>1, RingIndex
      <4>3. (w + k - 1) % HistoryCount
              = IF w + k - 1 < HistoryCount THEN w + k - 1 ELSE w + k - 1 - HistoryCount
        BY <1>1, <2>1, <4>1, RingIndex
      <4>4. QED BY <1>1, <2>1, <3>1, <4>1, <4>2, <4>3
    <3> DEFINE at == (v + i - 1) % HistoryCount
    <3>3. at \in 0 .. HistoryCount - 1 /\ at # w /\ t[i] = next.value[at] /\ s[k] = ring.value[at]
      BY <2>5, <3>2
    <3> HIDE DEF at
    <3>4. t[i] = s[k]
      BY <2>1, <3>3
    <3>5. QED BY <3>4 DEF k
  <2>3. t[HistoryCount] = number
    <3>1. HistoryCount \in 1 .. HistoryCount
      BY <1>1
    <3>2. (v + HistoryCount - 1) % HistoryCount = w
      BY <1>1, <2>1, RingShift
    <3>3. QED BY <2>1, <2>5, <3>1, <3>2
  <2>4. t = Append(Tail(s), number)
    <3>1. Len(s) = HistoryCount /\ Len(t) = HistoryCount /\ s \in Seq(Nat) /\ t \in Seq(Nat)
      BY <1>5, <1>6, <1>8, <2>1
    <3>2. QED BY <1>1, <2>2, <2>3, <3>1, Shifted
  <2>6. QED BY <1>1, <1>4, <1>5, <1>8, <2>4 DEF s, t, next
<1>9. QED BY <1>1, <1>2, <1>7, <1>8

\* What is applied again, or with another sequence number.
LEMMA RecordedValue ==
  ASSUME NEW state, HistoryInv, state.sequence \in Nat
  PROVE  /\ state.sequence = app.sequence => Recorded(history, state) = history
         /\ state.sequence = 0 => Recorded(history, state) = NoHistory
         /\ state.sequence # 0 /\ state.sequence # app.sequence =>
              Recorded(history, state)
                = Pushed(IF state.sequence < app.sequence THEN NoHistory ELSE history,
                         state.sequence)
<1>1. history.last = app.sequence /\ app.sequence \in Nat
      /\ (app.sequence = 0 => history = NoHistory)
  BY DEF HistoryInv
<1>2. CASE state.sequence = 0
  BY <1>1, <1>2 DEF Recorded
<1>3. CASE state.sequence # 0 /\ state.sequence = app.sequence
  BY <1>1, <1>3 DEF Recorded
<1>4. CASE state.sequence # 0 /\ state.sequence # app.sequence
  <2>1. (history.last # 0 /\ state.sequence < history.last) <=> state.sequence < app.sequence
    BY <1>1, <1>4
  <2>2. QED BY <1>1, <1>4, <2>1 DEF Recorded, Pushed
<1>5. QED BY <1>2, <1>3, <1>4

LEMMA NoHistoryRing ==
  /\ NoHistory \in Ring /\ NoHistory.last = 0 /\ NoHistory.write = NoHistory.count
  /\ ChartValues(NoHistory) = << >>
<1>1. HistoryCount \in Nat \ {0}
  BY PanelAssumption
<1>2. NoHistory \in Ring /\ NoHistory.last = 0 /\ NoHistory.write = 0 /\ NoHistory.count = 0
  BY <1>1 DEF NoHistory, Ring
<1>3. ChartValues(NoHistory) \in Seq(Nat) /\ Len(ChartValues(NoHistory)) = 0
  BY <1>1, <1>2, ChartIndex
<1>4. QED BY <1>2, <1>3

\* A message with no reading: the history stays as it is.
LEMMA HistoryKept ==
  ASSUME HistoryInv, NEW state, "sequence" \in DOMAIN state,
         state.sequence = app.sequence, app' = state, history' = Recorded(history, state),
         samples' = samples
  PROVE  HistoryInv'
<1>1. app.sequence \in Nat
  BY PanelAssumption DEF HistoryInv
<1>2. history' = history
  BY <1>1, RecordedValue
<1>3. QED BY <1>2 DEF HistoryInv, ChartValues

LEMMA HistoryAccepts ==
  ASSUME HistoryInv, NEW state, NEW sent, "sequence" \in DOMAIN state,
         state.sequence = app.sequence, Accepts(state, sent), samples' = samples
  PROVE  HistoryInv'
  BY HistoryKept DEF Accepts, Applies

LEMMA HistoryReads == ASSUME HistoryInv, SystemState PROVE HistoryInv'
<1> DEFINE next == (app.sequence + 1) % SequenceMod
           number == IF next # 0 THEN next ELSE 1
           kept == IF number < app.sequence THEN << >> ELSE samples
           base == IF number < app.sequence THEN NoHistory ELSE history
<1>1. /\ SequenceMod \in Nat /\ SequenceMod > 2 /\ HistoryCount \in Nat \ {0}
      /\ app.sequence \in 0 .. SequenceMod - 1 /\ "sequence" \in DOMAIN app
      /\ history \in Ring /\ ChartValues(history) = samples
      /\ history.count < HistoryCount => history.write = history.count
  BY PanelAssumption DEF HistoryInv
<1>2. next = IF app.sequence + 1 = SequenceMod THEN 0 ELSE app.sequence + 1
  BY <1>1, Wraps
<1>3. number \in 1 .. SequenceMod - 1 /\ number \in Nat /\ number # app.sequence
  BY <1>1, <1>2
<1>4. /\ app' = [app EXCEPT !.sequence = number]
      /\ history' = Recorded(history, [app EXCEPT !.sequence = number])
      /\ samples' = IF Len(kept) < HistoryCount THEN Append(kept, number)
                    ELSE Append(Tail(kept), number)
  BY DEF SystemState, Accepts, Applies
<1>5. base \in Ring /\ ChartValues(base) = kept
      /\ (base.count < HistoryCount => base.write = base.count)
  BY <1>1, NoHistoryRing
<1> HIDE DEF next, number, kept, base
<1>6. /\ [app EXCEPT !.sequence = number].sequence = number
      /\ "sequence" \in DOMAIN [app EXCEPT !.sequence = number]
  BY <1>1
<1>7. history' = Pushed(base, number)
  BY <1>3, <1>4, <1>6, RecordedValue DEF base
<1>8. /\ history' \in Ring /\ history'.last = number
      /\ history'.count < HistoryCount => history'.write = history'.count
      /\ ChartValues(history') = samples'
  BY <1>3, <1>4, <1>5, <1>7, PushedFields, PushedChart
<1>9. "sequence" \in DOMAIN app' /\ app'.sequence = number
  BY <1>4, <1>6
<1>10. number \in 0 .. SequenceMod - 1 /\ number # 0
  BY <1>1, <1>3
<1>11. QED BY <1>8, <1>9, <1>10 DEF HistoryInv

LEMMA HistoryLocks == ASSUME HistoryInv, Locks PROVE HistoryInv'
<1>1. app' = ClearPrivate(app) /\ history' = Recorded(history, ClearPrivate(app)) /\ samples' = << >>
  BY DEF Locks, Applies
<1>2. "sequence" \in DOMAIN ClearPrivate(app) /\ ClearPrivate(app).sequence = 0
  BY DEF HistoryInv, ClearPrivate, NothingPrivate
<1>3. history' = NoHistory
  BY <1>1, <1>2, RecordedValue
<1>4. 0 \in 0 .. SequenceMod - 1
  BY PanelAssumption
<1>5. QED BY <1>1, <1>2, <1>3, <1>4, NoHistoryRing DEF HistoryInv

LEMMA HistoryStarts == Init => HistoryInv
<1>1. "sequence" \in DOMAIN InitialState /\ InitialState.sequence = 0
  BY DEF InitialState, With, NothingPrivate
<1>2. 0 \in 0 .. SequenceMod - 1
  BY PanelAssumption
<1>3. QED BY <1>1, <1>2, NoHistoryRing DEF Init, HistoryInv

LEMMA HistoryStep == HistoryInv /\ [Next]_vars => HistoryInv'
<1> SUFFICES ASSUME HistoryInv, [Next]_vars PROVE HistoryInv'
  OBVIOUS
<1>0. "sequence" \in DOMAIN app
  BY DEF HistoryInv
<1>1. CASE WeatherEvent \/ MarketEvent \/ NetworkEvent \/ DeviceDiagnostics
  <2>1. CASE WeatherEvent
    BY <1>0, <2>1, HistoryAccepts DEF WeatherEvent
  <2>2. CASE MarketEvent
    BY <1>0, <2>2, HistoryAccepts DEF MarketEvent
  <2>3. CASE NetworkEvent
    BY <1>0, <2>3, HistoryAccepts DEF NetworkEvent
  <2>4. CASE DeviceDiagnostics
    BY <1>0, <2>4, HistoryAccepts DEF DeviceDiagnostics
  <2>5. QED BY <1>1, <2>1, <2>2, <2>3, <2>4
<1>2. CASE SystemState
  BY <1>2, HistoryReads
<1>3. CASE ControlLayout \/ AiState \/ MediaState
  <2>1. CASE ControlLayout
    BY <1>0, <2>1, HistoryAccepts DEF ControlLayout
  <2>2. CASE AiState
    BY <1>0, <2>2, HistoryAccepts DEF AiState, AiMerged
  <2>3. CASE MediaState
    BY <1>0, <2>3, HistoryAccepts DEF MediaState
  <2>4. QED BY <1>3, <2>1, <2>2, <2>3
<1>4. CASE AiTasks
  BY <1>0, <1>4, HistoryAccepts, ZenonT(40) DEF AiTasks
<1>5. CASE ClaudeTasks
  BY <1>0, <1>5, HistoryAccepts, ZenonT(40) DEF ClaudeTasks
<1>6. CASE CodexLight
  BY <1>0, <1>6, HistoryAccepts DEF CodexLight
<1>7. CASE Connects
  <2> DEFINE state == [app EXCEPT !.ble = TRUE, !.mac = FALSE]
  <2>1. "sequence" \in DOMAIN state /\ state.sequence = app.sequence
    BY <1>0
  <2> HIDE DEF state
  <2>2. app' = state /\ history' = Recorded(history, state) /\ samples' = samples
    BY <1>7 DEF Connects, Applies, state
  <2>3. QED BY <2>1, <2>2, HistoryKept
<1>8. CASE Opens
  <2> DEFINE state == [app EXCEPT !.mac = TRUE]
  <2>1. "sequence" \in DOMAIN state /\ state.sequence = app.sequence
    BY <1>0
  <2> HIDE DEF state
  <2>2. app' = state /\ history' = Recorded(history, state) /\ samples' = samples
    BY <1>8 DEF Opens, state
  <2>3. QED BY <2>1, <2>2, HistoryKept
<1>9. CASE Locks
  BY <1>9, HistoryLocks
<1>10. CASE ShowsFeedback \/ FeedbackExpires \/ UNCHANGED vars
  BY <1>10 DEF ShowsFeedback, FeedbackExpires, vars, HistoryInv, ChartValues
<1>11. ASSUME NEW where, Navigates(where) PROVE HistoryInv'
  BY <1>11 DEF Navigates, HistoryInv, ChartValues
<1>12. CASE Dock \/ Swipe \/ Back
  BY <1>11, <1>12 DEF Dock, Swipe, Back
<1>13. CASE LibraryNavigation \/ AiNavigation \/ CodexNavigation
  BY <1>11, <1>13 DEF LibraryNavigation, AiNavigation, CodexNavigation
<1>14. QED
  BY <1>1, <1>2, <1>3, <1>4, <1>5, <1>6, <1>7, <1>8, <1>9, <1>10, <1>12, <1>13 DEF Next

\* The charts show the last readings of the session in their order, each once,
\* although every other message applies the same state again, and a sequence
\* number that wraps starts them anew.
THEOREM ChartsCurrent == Spec => []ChartsShowSamples
<1>1. HistoryInv => ChartsShowSamples
  BY DEF HistoryInv, ChartsShowSamples
<1>2. QED BY <1>1, HistoryStarts, HistoryStep, PTL DEF Spec
==============================================================================
