-------------------------------- MODULE Panel --------------------------------
(***************************************************************************)
(* The device's screen: ui.c with the state it draws (app_model.c) and the *)
(* handlers of app_main.c that bring the Mac's messages and the privacy    *)
(* actions to it.  What is drawn is kept apart from the state it was drawn *)
(* from, and the objects of LVGL apart from the pointers ui.c holds, so    *)
(* that a page which is refreshed when it should have been rebuilt shows.  *)
(*                                                                         *)
(* The supervisor changes the state and applies it under the LVGL lock in  *)
(* one step, so that runtime.app_state and the copy in ui.c are one        *)
(* variable, app; the lock is waited for without limit and never fails.    *)
(* Each reading of the system is represented by its sample_sequence, each  *)
(* other datum by a member of a small set.  Device readings (uptime, heap, *)
(* MTU) and layout are left out.                                           *)
(***************************************************************************)
EXTENDS Integers, FiniteSets, Sequences, SequencesExt

CONSTANTS
  HistoryCount,    \* SYSTEM_HISTORY_COUNT
  SequenceMod,     \* 2^32, the width of sample_sequence
  SlotCount,       \* DESK_AI_TASK_SLOT_COUNT
  CardCount,       \* CLAUDE_SESSION_CARD_COUNT
  TaskStatus,      \* bound: statuses a task may have
  TaskCounts,      \* bound: lengths of the task lists the Mac sends
  Weathers         \* bound: of {"none", "calm", "alert"}, "none" included

ASSUME PanelAssumption ==
  /\ {HistoryCount, SlotCount, CardCount} \subseteq Nat \ {0}
  /\ SequenceMod \in Nat \ {0, 1, 2}
  /\ CardCount <= SlotCount
  /\ TaskCounts \subseteq 0 .. SlotCount
  /\ "none" \in Weathers /\ Weathers \subseteq {"none", "calm", "alert"}
  /\ "none" \notin TaskStatus

VARIABLES
  app,      \* runtime.app_state, and app_state of ui.c
  active,   \* runtime.privacy.state is ACTIVE
  touch,    \* the touch input is enabled
  page,     \* current_page
  live,     \* the objects and timers of LVGL that exist
  pointer,  \* the pointers of ui.c that are not NULL
  screen,   \* what is drawn, for each part of the page
  history,  \* system_history and its three companions
  latest,   \* ghost: what was last accepted of each kind in this session
  samples   \* ghost: the readings of this session, at most HistoryCount

vars == <<app, active, touch, page, live, pointer, screen, history, latest, samples>>

------------------------------------------------------------------------------
(* The application state                                                    *)

\* The record with the fields of both.
With(record, more) ==
  [field \in DOMAIN record \cup DOMAIN more |->
     IF field \in DOMAIN record THEN record[field] ELSE more[field]]

Slot == 1 .. SlotCount

NoTasks == [i \in Slot |-> "none"]

\* The part of a desk_app_state_t that desk_app_state_clear_private zeroes.
NothingPrivate ==
  [sequence |-> 0, control |-> "none", ai |-> "none",
   codex |-> NoTasks, codexSlots |-> 0, claude |-> NoTasks, claudeSlots |-> 0,
   media |-> "none", ble |-> FALSE, mac |-> FALSE]

InitialState ==
  With([wifi |-> FALSE, weather |-> "none", market |-> "none"], NothingPrivate)

\* desk_app_state_clear_private
ClearPrivate(state) ==
  [field \in DOMAIN state |->
     IF field \in DOMAIN NothingPrivate THEN NothingPrivate[field] ELSE state[field]]

\* A task list of the Mac, written into the slots: the rest is unassigned.
Tasks(list) == [i \in Slot |-> IF i <= Len(list) THEN list[i] ELSE "none"]

TaskLists == UNION {[1 .. n -> TaskStatus] : n \in TaskCounts}

------------------------------------------------------------------------------
(* Pages                                                                    *)

Daily == <<"HOME", "MARKET", "SYSTEM", "CONTROL", "AI", "MEDIA">>

DockPages == Range(Daily) \cup {"LIBRARY"}

AiPages == {"AI", "CODEX", "CLAUDE"}

Secondary ==
  {"SETTINGS", "DIAGNOSTICS", "CODEX", "CODEX_COMMANDS", "CODEX_NAVIGATION", "CLAUDE"}

Page == DockPages \cup Secondary

\* What refresh_status_bar and the refresh of the page write, part by part.
\* A page whose data is missing has no parts but the status bar.
StatusBar(state) == [status |-> <<state.wifi, state.ble, state.mac>>]

HomeParts(state) ==
  With([weather |-> state.weather],
       IF state.weather = "alert" THEN [alert |-> TRUE] ELSE <<>>)

MarketParts(state) == [market |-> state.market]

\* refresh_system_charts: the ring from its oldest value on.
ChartValues(ring) ==
  LET oldest == IF ring.count = HistoryCount THEN ring.write ELSE 0
  IN  [i \in 1 .. ring.count |-> ring.value[(oldest + i - 1) % HistoryCount]]

SystemParts(state, ring) ==
  IF state.sequence = 0 THEN <<>>
  ELSE [system |-> state.sequence, charts |-> ChartValues(ring)]

ControlParts(state) == [control |-> state.control, volume |-> state.media]

OverviewParts(state) ==
  IF state.ai = "none" THEN <<>>
  ELSE [overview |-> <<state.ai, state.codexSlots>>]

\* A slot of Codex counts only within available_task_slots.
CodexParts(state) ==
  IF state.ai = "none" THEN <<>>
  ELSE [quota |-> state.ai,
        slots |-> [i \in Slot |-> IF i <= state.codexSlots THEN state.codex[i] ELSE "none"]]

ClaudeParts(state) ==
  IF state.ai = "none" THEN <<>>
  ELSE [summary |-> state.claudeSlots,
        slots |-> [i \in 1 .. CardCount |-> state.claude[i]]]

MediaParts(state) == IF state.media = "none" THEN <<>> ELSE [media |-> state.media]

SettingsParts(state) ==
  [network |-> state.wifi, mac |-> <<state.ble, state.mac>>,
   public |-> <<state.weather, state.market>>, privacy |-> state.media = "hidden"]

DiagnosticsParts(state) == [connection |-> <<state.wifi, state.mac>>]

\* What refresh_current_page draws beside the status bar.
PageParts(where, state, ring) ==
  CASE where = "HOME"        -> HomeParts(state)
    [] where = "MARKET"      -> MarketParts(state)
    [] where = "SYSTEM"      -> SystemParts(state, ring)
    [] where = "CONTROL"     -> ControlParts(state)
    [] where = "AI"          -> OverviewParts(state)
    [] where = "CODEX"       -> CodexParts(state)
    [] where = "CLAUDE"      -> ClaudeParts(state)
    [] where = "MEDIA"       -> MediaParts(state)
    [] where = "SETTINGS"    -> SettingsParts(state)
    [] where = "DIAGNOSTICS" -> DiagnosticsParts(state)
    [] OTHER                 -> <<>>

\* refresh_current_page, and what render_page's create function ends up with.
Parts(where, state, ring) == With(StatusBar(state), PageParts(where, state, ring))

------------------------------------------------------------------------------
(* Objects and pointers                                                     *)

Named(names) == {<<name, 0>> : name \in names}

Timers == Named({"clock_timer", "feedback_timer"})

Feedback == Named({"feedback_panel", "feedback_timer"})

Slots(count) == {<<"slot", i>> : i \in 1 .. count}

\* The pointers that the create function of each page sets, in bindings and
\* beside it, one name for those that are set and cleared together.  A page
\* whose data is missing shows a text to which no pointer is kept.
AlertBar(state) == IF state.weather = "alert" THEN Named({"alert_bar"}) ELSE {}

HomeObjects(state) ==
  Named({"clock_label", "date_label", "clock_timer", "home"}) \cup AlertBar(state)

MarketObjects == Named({"market"})

SystemChart == Named({"system_chart"})

SystemObjects(state) ==
  IF state.sequence = 0 THEN {} ELSE Named({"system_value"}) \cup SystemChart

ControlObjects == Named({"control"})

OverviewCards == Named({"ai_overview"})

OverviewObjects(state) ==
  IF state.ai = "none" THEN {} ELSE Named({"ai_summary"}) \cup OverviewCards

CodexObjects(state) ==
  IF state.ai = "none" THEN {} ELSE Named({"ai_secondary"}) \cup Slots(SlotCount)

ClaudeObjects(state) ==
  IF state.ai = "none" THEN {} ELSE Named({"ai_summary"}) \cup Slots(CardCount)

MediaObjects(state) == IF state.media = "none" THEN {} ELSE Named({"media"})

InformationCards(count) == {<<"card", i>> : i \in 1 .. count}

SettingsObjects == InformationCards(4)

DiagnosticsObjects == Named({"diagnostic_summary"}) \cup InformationCards(4)

\* What render_page creates; the pages left over hold buttons alone.
Created(where, state) ==
  Named({"connection_status"}) \cup
  CASE where = "HOME"        -> HomeObjects(state)
    [] where = "MARKET"      -> MarketObjects
    [] where = "SYSTEM"      -> SystemObjects(state)
    [] where = "CONTROL"     -> ControlObjects
    [] where = "AI"          -> OverviewObjects(state)
    [] where = "CODEX"       -> CodexObjects(state)
    [] where = "CLAUDE"      -> ClaudeObjects(state)
    [] where = "MEDIA"       -> MediaObjects(state)
    [] where = "SETTINGS"    -> SettingsObjects
    [] where = "DIAGNOSTICS" -> DiagnosticsObjects
    [] OTHER                 -> {}

\* What a refresh dereferences without asking whether it is NULL: of the
\* Codex page the bar and all slots; of a Claude card, whose button is tested,
\* the labels as well.
Dereferenced(where, state) ==
  IF where = "CODEX" /\ state.ai # "none"
  THEN Named({"ai_secondary"}) \cup Slots(SlotCount)
  ELSE {}

\* Mutant: the shape of the Codex and Claude pages is not compared.
ShapeChangedButSubpages(before, after) ==
  CASE page = "HOME"   -> (before.weather = "alert") # (after.weather = "alert")
    [] page = "SYSTEM" -> (before.sequence = 0) # (after.sequence = 0)
    [] page = "AI"     -> (before.ai = "none") # (after.ai = "none")
    [] page = "MEDIA"  -> (before.media = "none") # (after.media = "none")
    [] OTHER           -> FALSE

\* page_shape_changed.  A lock finds any page open, so that the pages below the
\* overview have to be rebuilt as well.
ShapeChanged(before, after) ==
  CASE page = "HOME"    -> (before.weather = "alert") # (after.weather = "alert")
    [] page = "SYSTEM"  -> (before.sequence = 0) # (after.sequence = 0)
    [] page \in AiPages -> (before.ai = "none") # (after.ai = "none")
    [] page = "MEDIA"   -> (before.media = "none") # (after.media = "none")
    [] OTHER            -> FALSE

\* Mutant: the timer of the feedback survives the page.
RendersButFeedback(where, state, ring) ==
  /\ page' = where
  /\ live' = Created(where, state) \cup (live \cap Named({"feedback_timer"}))
  /\ pointer' = Created(where, state)
  /\ screen' = Parts(where, state, ring)

\* render_page: both timers are deleted, lv_obj_clean deletes every object,
\* every pointer is reset, and the page is created from the state.
Renders(where, state, ring) ==
  /\ page' = where
  /\ live' = Created(where, state)
  /\ pointer' = Created(where, state)
  /\ screen' = Parts(where, state, ring)

\* refresh_current_page writes the parts that exist.
Refreshes(state, ring) ==
  /\ LET drawn == Parts(page, state, ring)
     IN  screen' = [part \in DOMAIN screen |->
                      IF part \in DOMAIN drawn THEN drawn[part] ELSE screen[part]]
  /\ UNCHANGED <<page, live, pointer>>

------------------------------------------------------------------------------
(* The history of the system page                                           *)

NoHistory ==
  [value |-> [i \in 0 .. HistoryCount - 1 |-> 0], count |-> 0, write |-> 0, last |-> 0]

\* Mutant: a state that is applied again is recorded again.
RecordsRepeats(ring, state) ==
  IF state.sequence = 0 THEN NoHistory
  ELSE LET kept == IF ring.last # 0 /\ state.sequence < ring.last THEN NoHistory ELSE ring
       IN  [value |-> [kept.value EXCEPT ![kept.write] = state.sequence],
            count |-> IF kept.count < HistoryCount THEN kept.count + 1 ELSE kept.count,
            write |-> (kept.write + 1) % HistoryCount,
            last |-> state.sequence]

\* record_system_sample: a sequence number that falls starts a new history.
Recorded(ring, state) ==
  IF state.sequence = 0 THEN NoHistory
  ELSE IF state.sequence = ring.last THEN ring
  ELSE LET kept == IF ring.last # 0 /\ state.sequence < ring.last THEN NoHistory ELSE ring
       IN  [value |-> [kept.value EXCEPT ![kept.write] = state.sequence],
            count |-> IF kept.count < HistoryCount THEN kept.count + 1 ELSE kept.count,
            write |-> (kept.write + 1) % HistoryCount,
            last |-> state.sequence]

\* desk_ui_apply_state
Applies(state) ==
  /\ app' = state
  /\ history' = Recorded(history, state)
  /\ IF ShapeChanged(app, state)
     THEN Renders(page, state, history')
     ELSE Refreshes(state, history')

------------------------------------------------------------------------------
(* The supervisor                                                           *)

\* desk_ui_init: the touch is enabled until the first privacy action.
Init ==
  /\ app = InitialState
  /\ active = FALSE
  /\ touch = TRUE
  /\ page = "HOME"
  /\ live = Created("HOME", InitialState)
  /\ pointer = live
  /\ screen = Parts("HOME", InitialState, NoHistory)
  /\ history = NoHistory
  /\ latest = InitialState
  /\ samples = <<>>

\* A handler that accepts a message: its state is applied, and the ghost
\* keeps what was sent.
Accepts(state, sent) ==
  /\ Applies(state)
  /\ latest' = sent
  /\ UNCHANGED <<active, touch>>

\* handle_weather_event, for a weather that was fetched
WeatherEvent ==
  /\ \E weather \in Weathers \ {"none"} :
       Accepts([app EXCEPT !.weather = weather], [latest EXCEPT !.weather = weather])
  /\ UNCHANGED samples

\* handle_market_event, for prices that were fetched
MarketEvent ==
  /\ Accepts([app EXCEPT !.market = "prices"], [latest EXCEPT !.market = "prices"])
  /\ UNCHANGED samples

\* handle_network_event
NetworkEvent ==
  /\ \E wifi \in BOOLEAN :
       Accepts([app EXCEPT !.wifi = wifi], [latest EXCEPT !.wifi = wifi])
  /\ UNCHANGED samples

\* update_device_diagnostics, every few seconds: the state is applied again.
DeviceDiagnostics == Accepts(app, latest) /\ UNCHANGED samples

\* apply_system_state_payload: the next number of a reading is never 0.
SystemState ==
  /\ active
  /\ LET next == (app.sequence + 1) % SequenceMod
         number == IF next # 0 THEN next ELSE 1
         kept == IF number < app.sequence THEN <<>> ELSE samples
     IN  /\ Accepts([app EXCEPT !.sequence = number], [latest EXCEPT !.sequence = number])
         /\ samples' = IF Len(kept) < HistoryCount
                       THEN Append(kept, number) ELSE Append(Tail(kept), number)

\* apply_control_layout_payload
ControlLayout ==
  /\ active
  /\ Accepts([app EXCEPT !.control = "layout"], [latest EXCEPT !.control = "layout"])
  /\ UNCHANGED samples

\* apply_ai_state_payload overwrites the whole of app_state.ai, but for the
\* tasks and their number, which it copies from the old one.
AiMerged(overview) == [app EXCEPT !.ai = overview]

AiState ==
  /\ active
  /\ \E overview \in TaskStatus :
       Accepts(AiMerged(overview), [latest EXCEPT !.ai = overview])
  /\ UNCHANGED samples

\* apply_ai_tasks_payload
AiTasks ==
  /\ active
  /\ \E list \in TaskLists :
       Accepts([app EXCEPT !.codex = Tasks(list), !.codexSlots = Len(list)],
               [latest EXCEPT !.codex = Tasks(list), !.codexSlots = Len(list)])
  /\ UNCHANGED samples

\* apply_claude_tasks_payload: a list that is already there is not applied.
ClaudeTasks ==
  /\ active
  /\ \E list \in TaskLists :
       /\ app.claude # Tasks(list) \/ app.claudeSlots # Len(list)
       /\ Accepts([app EXCEPT !.claude = Tasks(list), !.claudeSlots = Len(list)],
                  [latest EXCEPT !.claude = Tasks(list), !.claudeSlots = Len(list)])
  /\ UNCHANGED samples

\* apply_media_state_payload, with the title shown or hidden.
MediaState ==
  /\ active
  /\ \E media \in {"titled", "hidden"} :
       Accepts([app EXCEPT !.media = media], [latest EXCEPT !.media = media])
  /\ UNCHANGED samples

\* DESK_BLE_EVENT_CODEX_TASK_STATUS: a light of Codex changes the status of
\* the task that the Mac has put into the slot.
CodexLight ==
  /\ active
  /\ \E i \in Slot, status \in TaskStatus :
       /\ app.codex[i] # "none"
       /\ Accepts([app EXCEPT !.codex[i] = status], [latest EXCEPT !.codex[i] = status])
  /\ UNCHANGED samples

\* DESK_BLE_EVENT_CONNECTED: the private data is gone by then.
Connects ==
  /\ ~active
  /\ Applies([app EXCEPT !.ble = TRUE, !.mac = FALSE])
  /\ latest' = [latest EXCEPT !.ble = TRUE, !.mac = FALSE]
  /\ touch' = FALSE
  /\ UNCHANGED <<active, samples>>

\* AUTH_SUCCEEDED: the flags are applied, and SHOW_HOME renders the home page.
Opens ==
  /\ ~active
  /\ app.ble
  /\ app' = [app EXCEPT !.mac = TRUE]
  /\ history' = Recorded(history, app')
  /\ Renders("HOME", app', history')
  /\ latest' = [latest EXCEPT !.mac = TRUE]
  /\ active' = TRUE
  /\ touch' = TRUE
  /\ UNCHANGED samples

\* Any event that locks: apply_privacy_actions clears the private data and
\* applies the state, but shows no other page.
Locks ==
  /\ Applies(ClearPrivate(app))
  /\ latest' = ClearPrivate(latest)
  /\ samples' = <<>>
  /\ active' = FALSE
  /\ touch' = FALSE

\* desk_ui_show_feedback: an earlier panel and its timer are deleted first.
ShowsFeedback ==
  /\ active
  /\ live' = (live \ Feedback) \cup Feedback
  /\ pointer' = pointer \cup Feedback
  /\ UNCHANGED <<app, active, touch, page, screen, history, latest, samples>>

\* feedback_timer_callback; the timer runs once.
FeedbackExpires ==
  /\ <<"feedback_timer", 0>> \in live
  /\ live' = live \ Feedback
  /\ pointer' = pointer \ Feedback
  /\ UNCHANGED <<app, active, touch, page, screen, history, latest, samples>>

------------------------------------------------------------------------------
(* The LVGL task                                                            *)

\* A callback of a touch shows another page.
Navigates(where) ==
  /\ touch
  /\ Renders(where, app, history)
  /\ UNCHANGED <<app, active, touch, history, latest, samples>>

\* dock_click_callback
Dock == \E where \in DockPages : Navigates(where)

\* gesture_callback: to a neighbour among the daily pages.
Swipe ==
  \E i, j \in DOMAIN Daily : /\ page = Daily[i]
                             /\ j \in {i - 1, i + 1}
                             /\ Navigates(Daily[j])

\* secondary_page_back_callback
Back ==
  /\ page \in Secondary
  /\ Navigates(CASE page = "CODEX_COMMANDS"    -> "CODEX"
                 [] page = "CODEX_NAVIGATION"  -> "CODEX_COMMANDS"
                 [] page \in {"CODEX", "CLAUDE"} -> "AI"
                 [] OTHER                      -> "LIBRARY")

\* library_navigation_callback, from the two buttons that are not disabled
LibraryNavigation ==
  /\ page = "LIBRARY"
  /\ Navigates("SETTINGS") \/ Navigates("DIAGNOSTICS")

\* ai_page_navigation_callback, from the cards of the overview
AiNavigation ==
  /\ page = "AI"
  /\ OverviewCards \subseteq live
  /\ Navigates("CODEX") \/ Navigates("CLAUDE")

\* codex_page_navigation_callback, from a button of the Codex page and from
\* one among the commands
CodexNavigation ==
  \/ /\ page = "CODEX"
     /\ <<"ai_secondary", 0>> \in live
     /\ Navigates("CODEX_COMMANDS")
  \/ /\ page = "CODEX_COMMANDS"
     /\ Navigates("CODEX_NAVIGATION")

Next ==
  \/ WeatherEvent \/ MarketEvent \/ NetworkEvent \/ DeviceDiagnostics
  \/ SystemState \/ ControlLayout \/ AiState \/ AiTasks \/ ClaudeTasks \/ MediaState \/ CodexLight
  \/ Connects \/ Opens \/ Locks
  \/ ShowsFeedback \/ FeedbackExpires
  \/ Dock \/ Swipe \/ Back
  \/ LibraryNavigation \/ AiNavigation \/ CodexNavigation

Spec == Init /\ [][Next]_vars

------------------------------------------------------------------------------
(* Properties                                                               *)

\* Whatever is applied while a page is shown, and whenever the page is left,
\* no pointer of ui.c outlives its object, no timer the label it writes, and
\* what the next refresh dereferences without a test is there.
PointersAlive ==
  /\ pointer \subseteq live
  /\ live \cap Timers \subseteq pointer
  /\ <<"clock_timer", 0>> \in live => Named({"clock_label", "date_label"}) \subseteq live
  /\ Dereferenced(page, app) \subseteq pointer

\* The page shows what was last received of each kind, although the AI state,
\* the tasks and the lights of Codex arrive in any order and overwrite each
\* other's record, and nothing of a session that was locked.
ScreenShowsLatest == screen = Parts(page, latest, history)

\* The charts show the last readings of this session in their order, each
\* once, although every other message applies the same state again; a
\* sequence number that wraps starts them anew.
ChartsShowSamples == ChartValues(history) = samples
==============================================================================
