------------------------------ MODULE PublicData ------------------------------
(***************************************************************************)
(* The data that the device fetches itself: weather_task (weather.c) and   *)
(* market_task (market.c), the mutex that serialises their requests        *)
(* (http_fetch.c), the supervisor's calls that configure and wake them,    *)
(* its handling of their events, the four NVS entries that the weather's   *)
(* configuration is kept in, and restarts of the device.                   *)
(*                                                                         *)
(* A fetched value is the number of the configuration it was fetched for:  *)
(* the weather is configured with places 1, 2, ...; the market's sources   *)
(* are fixed, which is place 1.  Place 0 stands for no configuration, no   *)
(* value or no alert, and place MaxPlaces + 1 for entries of different     *)
(* configurations put together.                                            *)
(***************************************************************************)
EXTENDS Naturals, Sequences

CONSTANTS
  EventQueueLength,  \* WEATHER_ and MARKET_EVENT_QUEUE_LENGTH
  Mandatory,         \* requests of a refresh that must succeed: 3 in both modules
  MaxPlaces,         \* bound: places the weather is configured for
  MaxCalls,          \* bound: calls of the supervisor, and restarts
  MaxFailures        \* bound: requests and saves that fail

ASSUME PublicDataAssumption ==
  /\ EventQueueLength \in Nat \ {0}
  /\ Mandatory \in Nat \ {0}
  /\ MaxPlaces \in Nat \ {0}
  /\ MaxCalls \in Nat
  /\ MaxFailures \in Nat

Worker == {"weather", "market"}

\* Requests of one refresh: current, hourly, daily and alerts; SSE and two of SZSE.
Requests(w) == IF w = "weather" THEN Mandatory + 1 ELSE Mandatory

VARIABLES
  stored,        \* the entries host, api_key, longitude and latitude in NVS
  acknowledged,  \* history: the last place saved, 0 once an entry was overwritten
  configuration, \* the place in weather.c's configuration, 0 if not valid
  network,       \* network_available of each module
  clockSet,      \* SNTP has set the time
  script,        \* what is left of the supervisor's call
  pc,            \* where each task stands
  sleep,         \* wait_ticks: "forever" or "timed"
  notified,      \* the task's notification
  current,       \* current_configuration
  request,       \* number of the request under way
  updated,       \* the values fetched so far
  cached,        \* cached_weather, cached_market
  event,         \* the event to queue, or the last one queued
  mutex,         \* request_mutex: the worker that holds it, or "free"
  queue,         \* weather_event_queue, market_event_queue
  app,           \* app_state.weather, app_state.market
  calls,         \* number of calls so far
  failures       \* number of failures so far

\* what the supervisor and what the two tasks write
sharedVars == <<stored, acknowledged, configuration, network, clockSet, script, calls>>
taskVars == <<pc, sleep, current, request, updated, cached, event>>
vars == <<sharedVars, taskVars, notified, mutex, queue, app, failures>>

Entry == 1 .. 4
Given == 1 .. MaxPlaces
Mixed == MaxPlaces + 1
Place == 0 .. Mixed
Values == [forecast : Place, alert : Place]
NoValues == [forecast |-> 0, alert |-> 0]
Event == [fetched : BOOLEAN, values : Values]
Step == {"networkUp", "networkDown", "configure", "notify"}

TypeOK ==
  /\ stored \in [Entry -> Place]
  /\ acknowledged \in Place
  /\ configuration \in Place
  /\ network \in [Worker -> BOOLEAN]
  /\ clockSet \in BOOLEAN
  /\ script \in Seq([step : Step, worker : Worker])
  /\ pc \in [Worker -> {"wait", "copy", "checkClock", "mutex", "fetch", "post",
                        "discard", "resend"}]
  /\ sleep \in [Worker -> {"forever", "timed"}]
  /\ notified \in [Worker -> BOOLEAN]
  /\ current \in [Worker -> Place]
  /\ request \in [Worker -> 0 .. Mandatory + 1]
  /\ updated \in [Worker -> Values]
  /\ cached \in [Worker -> Values]
  /\ event \in [Worker -> Event]
  /\ mutex \in Worker \cup {"free"}
  /\ queue \in [Worker -> Seq(Event)]
  /\ \A w \in Worker : Len(queue[w]) <= EventQueueLength
  /\ app \in [Worker -> Values]
  /\ calls \in 0 .. MaxCalls
  /\ failures \in 0 .. MaxFailures

NoEvent == [fetched |-> FALSE, values |-> NoValues]

\* load_configuration: all four entries must be there, and each must be valid;
\* nothing tells that they were saved together.
Loaded(entries) ==
  IF \E e \in Entry : entries[e] = 0 THEN 0
  ELSE IF \A e \in Entry : entries[e] = entries[1] THEN entries[1] ELSE Mixed

Both(value) == [w \in Worker |-> value]

\* With or without a stored place; the tasks wait for their first notification.
Init ==
  /\ acknowledged \in {0, 1}
  /\ stored = [e \in Entry |-> acknowledged]
  /\ configuration = Loaded(stored)
  /\ network = Both(FALSE)
  /\ clockSet \in BOOLEAN
  /\ script = <<>>
  /\ pc = Both("wait")
  /\ sleep = Both("forever")
  /\ notified = Both(FALSE)
  /\ current = Both(0)
  /\ request = Both(0)
  /\ updated = Both(NoValues)
  /\ cached = Both(NoValues)
  /\ event = Both(NoEvent)
  /\ mutex = "free"
  /\ queue = Both(<<>>)
  /\ app = Both(NoValues)
  /\ calls = 0
  /\ failures = 0

\* What a task copies under the lock.
PlaceOf(w) == IF w = "weather" THEN configuration ELSE 1

------------------------------------------------------------------------------
(* The two tasks.  A task only ever changes its own entries.                *)

Goes(w, to) == pc' = [pc EXCEPT ![w] = to]
Sleeps(w, how) == Goes(w, "wait") /\ sleep' = [sleep EXCEPT ![w] = how]

\* ulTaskNotifyTake(pdTRUE, wait_ticks).  A timed wait is longer than the
\* supervisor needs to take the events of the refresh before.
Wakes(w) ==
  /\ pc[w] = "wait"
  /\ notified[w] \/ (sleep[w] = "timed" /\ queue[w] = <<>>)
  /\ notified' = [notified EXCEPT ![w] = FALSE]
  /\ Goes(w, "copy")
  /\ UNCHANGED <<sharedVars, sleep, current, request, updated, cached, event, mutex,
                 queue, app, failures>>

\* copy_runtime_state, network_is_available
Copies(w) ==
  /\ pc[w] = "copy"
  /\ current' = [current EXCEPT ![w] = PlaceOf(w)]
  /\ IF network[w] /\ PlaceOf(w) # 0
     THEN Goes(w, "checkClock") /\ UNCHANGED sleep
     ELSE Sleeps(w, "forever")
  /\ UNCHANGED <<sharedVars, notified, request, updated, cached, event, mutex, queue,
                 app, failures>>

ChecksClock(w) ==
  /\ pc[w] = "checkClock"
  /\ IF clockSet
     THEN /\ Goes(w, "mutex")
          /\ request' = [request EXCEPT ![w] = 1]
          /\ updated' = [updated EXCEPT ![w] = cached[w]]
          /\ UNCHANGED sleep
     ELSE /\ Sleeps(w, "timed")
          /\ UNCHANGED <<request, updated>>
  /\ UNCHANGED <<sharedVars, notified, current, cached, event, mutex, queue, app, failures>>

TakesMutex(w) ==
  /\ pc[w] = "mutex"
  /\ mutex = "free"
  /\ mutex' = w
  /\ Goes(w, "fetch")
  /\ UNCHANGED <<sharedVars, notified, sleep, current, request, updated, cached, event,
                 queue, app, failures>>

Fails == failures < MaxFailures /\ failures' = failures + 1

\* The refresh ends: what succeeded is cached and queued, or only the failure
\* is reported.
Succeeds(w, values) ==
  /\ updated' = [updated EXCEPT ![w] = values]
  /\ cached' = [cached EXCEPT ![w] = values]
  /\ event' = [event EXCEPT ![w] = [fetched |-> TRUE, values |-> values]]
  /\ Goes(w, "post")

Gives(w) ==
  /\ event' = [event EXCEPT ![w] = NoEvent]
  /\ Goes(w, "post")
  /\ UNCHANGED <<updated, cached>>

\* The next request of the refresh.
GoesOn(w, values) ==
  /\ updated' = [updated EXCEPT ![w] = values]
  /\ request' = [request EXCEPT ![w] = @ + 1]
  /\ Goes(w, "mutex")
  /\ UNCHANGED <<cached, event>>

Alerts(w) == request[w] > Mandatory

\* fetch_and_parse and refresh_weather after a request: without the alerts the
\* weather is still a success.
AfterWeatherRequest(ok) ==
  LET w == "weather"
      values == IF Alerts(w) THEN [updated[w] EXCEPT !.alert = IF ok THEN current[w] ELSE @]
                             ELSE [updated[w] EXCEPT !.forecast = current[w]]
  IN \/ ok /\ request[w] < Requests(w) /\ GoesOn(w, values)
     \/ (ok \/ Alerts(w)) /\ request[w] = Requests(w)
          /\ Succeeds(w, values) /\ UNCHANGED request
     \/ ~ok /\ ~Alerts(w) /\ Gives(w) /\ UNCHANGED request

\* fetch_sse, fetch_szse and refresh_market after a request: all must succeed.
AfterMarketRequest(ok) ==
  LET w == "market"
      values == [updated[w] EXCEPT !.forecast = current[w]]
  IN \/ ok /\ request[w] < Requests(w) /\ GoesOn(w, values)
     \/ ok /\ request[w] = Requests(w) /\ Succeeds(w, values) /\ UNCHANGED request
     \/ ~ok /\ Gives(w) /\ UNCHANGED request

AfterRequest(w, ok) ==
  \/ w = "weather" /\ AfterWeatherRequest(ok)
  \/ w = "market" /\ AfterMarketRequest(ok)

\* desk_http_get_json with the mutex, which it gives back in every case.
Fetches(w) ==
  /\ pc[w] = "fetch"
  /\ mutex' = "free"
  /\ \/ AfterRequest(w, TRUE) /\ UNCHANGED failures
     \/ AfterRequest(w, FALSE) /\ Fails
  /\ UNCHANGED <<sharedVars, notified, sleep, current, queue, app>>

\* xSemaphoreTake gives up.
MutexTimesOut(w) ==
  /\ pc[w] = "mutex"
  /\ mutex # "free"
  /\ AfterRequest(w, FALSE)
  /\ Fails
  /\ UNCHANGED <<sharedVars, notified, sleep, current, mutex, queue, app>>

HasRoomForOneMore(w) == Len(queue[w]) <= EventQueueLength  \* mutant: off by one
HasRoom(w) == Len(queue[w]) < EventQueueLength

\* wait_ticks after a refresh, and a mutant that sets it for a success only.
WaitAfterSuccessOnly(w) == IF event[w].fetched THEN "timed" ELSE sleep[w]
WaitAfter(w) == "timed"

\* queue_weather_event, queue_market_event: a full queue loses its oldest event.
Posts(w) ==
  /\ pc[w] = "post"
  /\ IF HasRoom(w)
     THEN queue' = [queue EXCEPT ![w] = Append(@, event[w])] /\ Sleeps(w, WaitAfter(w))
     ELSE Goes(w, "discard") /\ UNCHANGED <<queue, sleep>>
  /\ UNCHANGED <<sharedVars, notified, current, request, updated, cached, event, mutex,
                 app, failures>>

Discards(w) ==
  /\ pc[w] = "discard"
  /\ queue' = [queue EXCEPT ![w] = IF @ = <<>> THEN @ ELSE Tail(@)]
  /\ Goes(w, "resend")
  /\ UNCHANGED <<sharedVars, notified, sleep, current, request, updated, cached, event,
                 mutex, app, failures>>

NotResent(w) == queue[w]  \* mutant: the new event is lost with the old one
Resent(w) ==
  IF HasRoom(w) THEN Append(queue[w], event[w]) ELSE queue[w]

Resends(w) ==
  /\ pc[w] = "resend"
  /\ queue' = [queue EXCEPT ![w] = Resent(w)]
  /\ Sleeps(w, WaitAfter(w))
  /\ UNCHANGED <<sharedVars, notified, current, request, updated, cached, event, mutex,
                 app, failures>>

Task(w) ==
  \/ Wakes(w)
  \/ Copies(w)
  \/ ChecksClock(w)
  \/ TakesMutex(w)
  \/ Fetches(w)
  \/ MutexTimesOut(w)
  \/ Posts(w)
  \/ Discards(w)
  \/ Resends(w)

------------------------------------------------------------------------------
(* The supervisor's calls, step by step, and its handling of the events     *)

On(step, w) == [step |-> step, worker |-> w]

\* desk_weather_set_network_available and then desk_market_set_network_available;
\* desk_weather_configure_qweather; the two request_refresh of the reload key,
\* which does nothing without a network.
MarketUpNotifiesFirst ==  \* mutant: the flag is set after the notification
  <<On("notify", "market"), On("networkUp", "market")>>
WeatherUp == <<On("networkUp", "weather"), On("notify", "weather")>>
MarketUp == <<On("networkUp", "market"), On("notify", "market")>>
NetworkUp == WeatherUp \o MarketUp
NetworkDown == <<On("networkDown", "weather"), On("networkDown", "market")>>
Configure == <<On("configure", "weather"), On("notify", "weather")>>
Reload == <<On("notify", "weather"), On("notify", "market")>>

Calls ==
  /\ script = <<>>
  /\ calls < MaxCalls
  /\ calls' = calls + 1
  /\ \/ script' \in {NetworkUp, NetworkDown, Configure}
     \/ network["market"] /\ script' = Reload
  /\ UNCHANGED <<stored, acknowledged, configuration, network, clockSet, taskVars, notified,
                 mutex, queue, app, failures>>

InConfigure == script # <<>> /\ Head(script).step = "configure"

\* save_configuration as far as its nth write: what it wrote stays, whether or
\* not the commit follows.
Saves(place, n) ==
  /\ stored' = [e \in Entry |-> IF e <= n THEN place ELSE stored[e]]
  /\ acknowledged' = IF n = 0 THEN acknowledged ELSE 0

\* A configuration that cannot be saved leaves the one in memory and is not
\* tried again.
SaveFails ==
  /\ InConfigure
  /\ \E place \in Given, n \in {0} \cup Entry : Saves(place, n)
  /\ Fails
  /\ script' = <<>>
  /\ UNCHANGED <<configuration, network, clockSet, calls, taskVars, notified, mutex, queue,
                 app>>

\* desk_weather_configure_qweather: first the entries, then the memory.
ConfiguresMemoryOnly(place) ==  \* mutant: nothing is saved
  /\ acknowledged' = place
  /\ configuration' = place
  /\ UNCHANGED stored
Configures(place) ==
  /\ stored' = [e \in Entry |-> place]
  /\ acknowledged' = place
  /\ configuration' = place

GoesThroughScript ==
  /\ script # <<>>
  /\ script' = Tail(script)
  /\ LET w == Head(script).worker IN
     \/ /\ Head(script).step = "networkUp"
        /\ network' = [network EXCEPT ![w] = TRUE]
        /\ UNCHANGED <<stored, acknowledged, configuration, notified>>
     \/ /\ Head(script).step = "networkDown"
        /\ network' = [network EXCEPT ![w] = FALSE]
        /\ UNCHANGED <<stored, acknowledged, configuration, notified>>
     \/ /\ Head(script).step = "configure"
        /\ \E place \in Given : Configures(place)
        /\ UNCHANGED <<network, notified>>
     \/ /\ Head(script).step = "notify"
        /\ notified' = [notified EXCEPT ![w] = TRUE]
        /\ UNCHANGED <<stored, acknowledged, configuration, network>>
  /\ UNCHANGED <<clockSet, calls, taskVars, mutex, queue, app, failures>>

\* desk_weather_receive_event, desk_market_receive_event
Takes(w) ==
  /\ queue[w] # <<>>
  /\ queue' = [queue EXCEPT ![w] = Tail(@)]

\* handle_weather_event, handle_market_event
HandleEvent(w) ==
  /\ script = <<>>
  /\ Takes(w)
  /\ app' = [app EXCEPT ![w] = IF Head(queue[w]).fetched THEN Head(queue[w]).values ELSE @]
  /\ UNCHANGED <<sharedVars, taskVars, notified, mutex, failures>>

Supervisor ==
  \/ Calls
  \/ SaveFails
  \/ GoesThroughScript
  \/ \E w \in Worker : HandleEvent(w)

TimeIsSet ==
  /\ ~clockSet
  /\ clockSet' = TRUE
  /\ UNCHANGED <<stored, acknowledged, configuration, network, script, calls, taskVars,
                 notified, mutex, queue, app, failures>>

\* desk_market_start, and the same of desk_weather_start: an empty queue, and a
\* task that has nothing cached and waits for its first notification.
TasksStart ==
  /\ pc' = Both("wait")
  /\ sleep' = Both("forever")
  /\ notified' = Both(FALSE)
  /\ current' = Both(0)
  /\ request' = Both(0)
  /\ updated' = Both(NoValues)
  /\ cached' = Both(NoValues)
  /\ event' = Both(NoEvent)
  /\ queue' = Both(<<>>)

\* desk_weather_start, and what the rest of the device starts with.
Boots ==
  /\ TasksStart
  /\ configuration' = Loaded(stored')
  /\ network' = Both(FALSE)
  /\ clockSet' \in BOOLEAN
  /\ script' = <<>>
  /\ mutex' = "free"
  /\ app' = Both(NoValues)

\* The device restarts, perhaps between two writes of a save.
Restart ==
  /\ calls < MaxCalls
  /\ calls' = calls + 1
  /\ \/ UNCHANGED <<stored, acknowledged>>
     \/ InConfigure /\ \E place \in Given, n \in Entry : Saves(place, n)
  /\ Boots
  /\ UNCHANGED failures

Next ==
  \/ \E w \in Worker : Task(w)
  \/ Supervisor
  \/ TimeIsSet
  \/ Restart

Spec == Init /\ [][Next]_vars

\* The tasks run, requests end, the supervisor takes what is queued, and a task
\* that waits for the mutex is woken when it is given back.
FairSpec ==
  /\ Spec
  /\ WF_vars(Task("weather"))
  /\ WF_vars(Task("market"))
  /\ SF_vars(TakesMutex("weather"))
  /\ SF_vars(TakesMutex("market"))
  /\ WF_vars(GoesThroughScript)
  /\ WF_vars(HandleEvent("weather"))
  /\ WF_vars(HandleEvent("market"))

------------------------------------------------------------------------------
(* Properties                                                               *)

Useful(w) == network[w] /\ PlaceOf(w) # 0

WillBeNotified(w) ==
  \/ notified[w]
  \/ \E i \in 1 .. Len(script) : script[i] = On("notify", w)

\* No wake-up is lost between the supervisor and the tasks: a task that has
\* something to fetch does not sleep for ever, and it does not sleep at all on
\* a configuration that is not the current one.
NoLostWakeUp ==
  \A w \in Worker : pc[w] = "wait" /\ Useful(w) /\ ~WillBeNotified(w) =>
    sleep[w] = "timed" /\ current[w] = PlaceOf(w)

\* However the supervisor's taking interleaves with the replacing of the oldest
\* event, the last event queued is the last in the queue, or has been handled.
NewestIsKept ==
  \A w \in Worker : pc[w] \notin {"post", "discard", "resend"} =>
    IF queue[w] = <<>> THEN event[w].fetched => app[w] = event[w].values
                       ELSE queue[w][Len(queue[w])] = event[w]

\* What the device was last told to show and said it had saved, if no later save
\* overwrote a part of it; otherwise what it loaded.
Expected(w) == IF w = "weather" /\ acknowledged # 0 THEN acknowledged ELSE PlaceOf(w)

\* Once nothing fails, nothing is called and nothing restarts any more, what the
\* device shows is fetched for the place it last said it had saved, and the other
\* task's requests do not stand in the way.
Converges ==
  <>[](\A w \in Worker : Useful(w) /\ clockSet => app[w].forecast = Expected(w))
==============================================================================
