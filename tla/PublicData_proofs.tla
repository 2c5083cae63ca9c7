-------------------------- MODULE PublicData_proofs --------------------------
(***************************************************************************)
(* Proofs about PublicData, for every queue length, number of requests,    *)
(* places, calls and failures: no wake-up of a task is lost, and the       *)
(* newest event survives a full queue.                                     *)
(***************************************************************************)
EXTENDS PublicData, SequenceTheorems, TLAPS

\* A call notifies the task right after each change that the task has to see.
ScriptNotifies ==
  \A i \in 1 .. Len(script) : script[i].step \in {"networkUp", "configure"} =>
    i < Len(script) /\ script[i + 1] = On("notify", script[i].worker)

\* Only the weather is configured.
ConfiguresWeather ==
  \A i \in 1 .. Len(script) : script[i].step = "configure" => script[i].worker = "weather"

\* The task has been notified, or the next step of the call does it.  A later
\* notification of the call is not enough: the call ends early when the
\* configuration cannot be saved.
Due(w) == notified[w] \/ (script # <<>> /\ Head(script) = On("notify", w))

\* A task works with the current configuration, and sleeps for a limited time,
\* unless a notification is due.
UpToDate(w) ==
  Useful(w) /\ ~Due(w) =>
    /\ pc[w] # "copy" => current[w] = PlaceOf(w)
    /\ pc[w] = "wait" => sleep[w] = "timed"

WakeUpInv ==
  /\ TypeOK
  /\ ScriptNotifies
  /\ ConfiguresWeather
  /\ \A w \in Worker : UpToDate(w)

\* While a task replaces the oldest event there is room, since nobody else
\* queues; otherwise the newest event is the last in the queue or handled.
NewestOf(w) ==
  /\ pc[w] = "resend" => Len(queue[w]) < EventQueueLength
  /\ pc[w] \notin {"post", "discard", "resend"} =>
       IF queue[w] = <<>> THEN event[w].fetched => app[w] = event[w].values
                          ELSE queue[w][Len(queue[w])] = event[w]

NewestInv == TypeOK /\ \A w \in Worker : NewestOf(w)

------------------------------------------------------------------------------
(* Type correctness                                                         *)

LEMMA ValuesType ==
  ASSUME NEW v \in Values, NEW p \in Place
  PROVE  /\ [v EXCEPT !.alert = p] \in Values
         /\ [v EXCEPT !.forecast = p] \in Values
         /\ NoValues \in Values
         /\ NoEvent \in Event
         /\ [fetched |-> TRUE, values |-> v] \in Event
BY PublicDataAssumption DEF Values, Place, Mixed, NoValues, NoEvent, Event

LEMMA ScriptType ==
  /\ NetworkUp \in Seq([step : Step, worker : Worker])
  /\ NetworkDown \in Seq([step : Step, worker : Worker])
  /\ Configure \in Seq([step : Step, worker : Worker])
  /\ Reload \in Seq([step : Step, worker : Worker])
BY DEF NetworkUp, WeatherUp, MarketUp, NetworkDown, Configure, Reload, On, Step, Worker

\* The end of a request keeps the types, whatever its outcome.
LEMMA AfterRequestType ==
  ASSUME TypeOK, NEW w \in Worker, NEW ok \in BOOLEAN, AfterRequest(w, ok)
  PROVE  /\ pc' \in [Worker -> {"wait", "copy", "checkClock", "mutex", "fetch", "post",
                               "discard", "resend"}]
         /\ request' \in [Worker -> 0 .. Mandatory + 1]
         /\ updated' \in [Worker -> Values]
         /\ cached' \in [Worker -> Values]
         /\ event' \in [Worker -> Event]
<1>1. \E v \in Values :
        \/ request[w] < Requests(w) /\ GoesOn(w, v)
        \/ Succeeds(w, v) /\ UNCHANGED request
        \/ Gives(w) /\ UNCHANGED request
  <2>1. updated[w] \in Values /\ current[w] \in Place /\ updated[w].alert \in Place
    BY DEF TypeOK, Values
  <2>2. [updated[w] EXCEPT !.forecast = current[w]] \in Values
    BY <2>1, ValuesType
  <2>3. [updated[w] EXCEPT !.alert = IF ok THEN current[w] ELSE @] \in Values
    BY <2>1, ValuesType
  <2>4. CASE w = "weather" /\ AfterWeatherRequest(ok)
    BY <2>2, <2>3, <2>4 DEF AfterWeatherRequest
  <2>5. CASE w = "market" /\ AfterMarketRequest(ok)
    BY <2>2, <2>5 DEF AfterMarketRequest
  <2>6. QED BY <2>4, <2>5 DEF AfterRequest
<1>2. PICK v \in Values :
        \/ request[w] < Requests(w) /\ GoesOn(w, v)
        \/ Succeeds(w, v) /\ UNCHANGED request
        \/ Gives(w) /\ UNCHANGED request
  BY <1>1
<1>3. CASE request[w] < Requests(w) /\ GoesOn(w, v)
  <2>1. request[w] + 1 \in 0 .. Mandatory + 1
    BY <1>3, PublicDataAssumption DEF TypeOK, Requests
  <2>2. QED BY <1>3, <2>1 DEF TypeOK, GoesOn, Goes
<1>4. CASE Succeeds(w, v) /\ UNCHANGED request
  <2>1. [fetched |-> TRUE, values |-> v] \in Event
    BY DEF Event
  <2>2. QED BY <1>4, <2>1 DEF TypeOK, Succeeds, Goes
<1>5. CASE Gives(w) /\ UNCHANGED request
  <2>1. NoEvent \in Event
    BY PublicDataAssumption DEF NoEvent, Event, NoValues, Values, Place, Mixed
  <2>2. QED BY <1>5, <2>1 DEF TypeOK, Gives, Goes
<1>6. QED BY <1>2, <1>3, <1>4, <1>5

\* What load_configuration makes of the entries is a place, and of one place
\* that all of them have, that place.
LEMMA LoadedType ==
  ASSUME NEW entries \in [Entry -> Place]
  PROVE  /\ Loaded(entries) \in Place
         /\ \A p \in Given : (\A e \in Entry : entries[e] = p) => Loaded(entries) = p
BY PublicDataAssumption DEF Loaded, Entry, Place, Mixed, Given

LEMMA TypeInit == Init => TypeOK
<1> SUFFICES ASSUME Init PROVE TypeOK
  OBVIOUS
<1> USE PublicDataAssumption DEF Init
<1>1. NoValues \in Values /\ NoEvent \in Event
  BY DEF NoValues, NoEvent, Values, Event, Place, Mixed
<1>2. stored \in [Entry -> Place] /\ acknowledged \in Place
  BY DEF Place, Mixed
<1>3. configuration \in Place
  BY <1>2, LoadedType
<1>4. \A w \in Worker : Len(queue[w]) <= EventQueueLength /\ queue[w] \in Seq(Event)
  BY DEF Both
<1>5. QED BY <1>1, <1>2, <1>3, <1>4 DEF TypeOK, Place, Mixed, Both

LEMMA SavesType ==
  ASSUME TypeOK, NEW place \in Given, NEW n, Saves(place, n)
  PROVE  stored' \in [Entry -> Place] /\ acknowledged' \in Place
<1>1. place \in Place /\ 0 \in Place
  BY PublicDataAssumption DEF Given, Place, Mixed
<1>2. QED BY <1>1 DEF Saves, TypeOK

LEMMA RestartType == TypeOK /\ Restart => TypeOK'
<1> SUFFICES ASSUME TypeOK, Restart PROVE TypeOK'
  OBVIOUS
<1> USE PublicDataAssumption DEF Restart, Boots, TasksStart
<1>1. NoValues \in Values /\ NoEvent \in Event
  BY DEF NoValues, NoEvent, Values, Event, Place, Mixed
<1>2. stored' \in [Entry -> Place] /\ acknowledged' \in Place
  BY SavesType DEF TypeOK
<1>3. configuration' \in Place
  BY <1>2, LoadedType
<1>4. \A w \in Worker : Len(queue'[w]) <= EventQueueLength /\ queue'[w] \in Seq(Event)
  BY DEF Both
<1>5. calls' \in 0 .. MaxCalls
  BY DEF TypeOK
<1>6. QED BY <1>1, <1>2, <1>3, <1>4, <1>5 DEF TypeOK, Place, Mixed, Both

LEMMA TypeInductive == TypeOK /\ [Next]_vars => TypeOK'
<1> SUFFICES ASSUME TypeOK, [Next]_vars PROVE TypeOK'
  OBVIOUS
<1> USE PublicDataAssumption
<1>1. ASSUME NEW w \in Worker, Wakes(w) PROVE TypeOK'
  BY <1>1 DEF TypeOK, Wakes, Goes, sharedVars
<1>2. ASSUME NEW w \in Worker, Copies(w) PROVE TypeOK'
  <2>1. PlaceOf(w) \in Place
    BY DEF TypeOK, PlaceOf, Place, Mixed
  <2>2. QED BY <1>2, <2>1 DEF TypeOK, Copies, Goes, Sleeps, sharedVars
<1>3. ASSUME NEW w \in Worker, ChecksClock(w) PROVE TypeOK'
  <2>1. 1 \in 0 .. Mandatory + 1 /\ cached[w] \in Values
    BY DEF TypeOK
  <2>2. /\ request' \in [Worker -> 0 .. Mandatory + 1]
        /\ updated' \in [Worker -> Values]
    BY <1>3, <2>1 DEF TypeOK, ChecksClock
  <2>3. QED BY <1>3, <2>2 DEF TypeOK, ChecksClock, Goes, Sleeps, sharedVars
<1>4. ASSUME NEW w \in Worker, TakesMutex(w) PROVE TypeOK'
  BY <1>4 DEF TypeOK, TakesMutex, Goes, sharedVars
<1>5. ASSUME NEW w \in Worker, Fetches(w) PROVE TypeOK'
  <2>1. PICK ok \in BOOLEAN : AfterRequest(w, ok)
    BY <1>5 DEF Fetches
  <2>2. failures' \in 0 .. MaxFailures
    <3>1. UNCHANGED failures \/ Fails
      BY <1>5 DEF Fetches
    <3>2. QED BY <3>1 DEF TypeOK, Fails
  <2>3. QED BY <1>5, <2>1, <2>2, AfterRequestType DEF TypeOK, Fetches, sharedVars
<1>6. ASSUME NEW w \in Worker, MutexTimesOut(w) PROVE TypeOK'
  <2>1. failures' \in 0 .. MaxFailures
    BY <1>6 DEF TypeOK, MutexTimesOut, Fails
  <2>2. QED BY <1>6, <2>1, AfterRequestType DEF TypeOK, MutexTimesOut, sharedVars
<1>7. ASSUME NEW w \in Worker, Posts(w) PROVE TypeOK'
  <2>1. queue[w] \in Seq(Event) /\ event[w] \in Event
    BY DEF TypeOK
  <2>2. /\ queue' \in [Worker -> Seq(Event)]
        /\ \A v \in Worker : Len(queue'[v]) <= EventQueueLength
    <3>1. CASE HasRoom(w)
      <4>1. /\ queue' = [queue EXCEPT ![w] = Append(queue[w], event[w])]
            /\ Len(queue[w]) < EventQueueLength
        BY <1>7, <3>1 DEF Posts, HasRoom
      <4>2. /\ Append(queue[w], event[w]) \in Seq(Event)
            /\ Len(Append(queue[w], event[w])) <= EventQueueLength
        BY <2>1, <4>1
      <4>3. QED BY <4>1, <4>2 DEF TypeOK
    <3>2. CASE ~HasRoom(w)
      BY <1>7, <3>2 DEF TypeOK, Posts
    <3>3. QED BY <3>1, <3>2
  <2>3. QED
    BY <1>7, <2>2 DEF TypeOK, Posts, WaitAfter, Goes, Sleeps, sharedVars
<1>8. ASSUME NEW w \in Worker, Discards(w) PROVE TypeOK'
  BY <1>8 DEF TypeOK, Discards, Goes, sharedVars
<1>9. ASSUME NEW w \in Worker, Resends(w) PROVE TypeOK'
  <2>1. queue' = [queue EXCEPT ![w] = Resent(w)]
    BY <1>9 DEF Resends
  <2>2. Resent(w) \in Seq(Event) /\ Len(Resent(w)) <= EventQueueLength
    BY DEF TypeOK, Resent, HasRoom
  <2>3. /\ queue' \in [Worker -> Seq(Event)]
        /\ \A v \in Worker : Len(queue'[v]) <= EventQueueLength
    BY <2>1, <2>2 DEF TypeOK
  <2>4. QED
    BY <1>9, <2>3 DEF TypeOK, Resends, WaitAfter, Goes, Sleeps, sharedVars
<1>10. CASE Calls
  BY <1>10, ScriptType, SMTT(30) DEF TypeOK, Calls, taskVars
<1>11. CASE SaveFails
  BY <1>11, SavesType DEF TypeOK, SaveFails, Fails, taskVars
<1>12. CASE GoesThroughScript
  <2>1. script' \in Seq([step : Step, worker : Worker])
    BY <1>12 DEF TypeOK, GoesThroughScript
  <2>2. \/ UNCHANGED <<stored, acknowledged, configuration>>
        \/ \E place \in Given : Configures(place)
    BY <1>12 DEF GoesThroughScript
  <2>3. /\ configuration' \in Place /\ acknowledged' \in Place
        /\ stored' \in [Entry -> Place]
    <3>1. Given \subseteq Place
      BY DEF Given, Place, Mixed
    <3>2. QED BY <2>2, <3>1 DEF Configures, TypeOK
  <2>4. network' \in [Worker -> BOOLEAN] /\ notified' \in [Worker -> BOOLEAN]
    BY <1>12 DEF TypeOK, GoesThroughScript
  <2>5. QED BY <1>12, <2>1, <2>2, <2>3, <2>4 DEF TypeOK, GoesThroughScript, taskVars
<1>13. ASSUME NEW w \in Worker, HandleEvent(w) PROVE TypeOK'
  <2>1. Head(queue[w]) \in Event
    BY <1>13 DEF TypeOK, HandleEvent, Takes
  <2>2. app' \in [Worker -> Values]
    BY <1>13, <2>1 DEF TypeOK, HandleEvent, Takes, Event
  <2>3. /\ queue' \in [Worker -> Seq(Event)]
        /\ \A v \in Worker : Len(queue'[v]) <= EventQueueLength
    BY <1>13 DEF TypeOK, HandleEvent, Takes
  <2>4. QED BY <1>13, <2>2, <2>3 DEF TypeOK, HandleEvent, sharedVars, taskVars
<1>14. CASE TimeIsSet
  BY <1>14 DEF TypeOK, TimeIsSet, taskVars
<1>15. CASE UNCHANGED vars
  BY <1>15 DEF TypeOK, vars, sharedVars, taskVars
<1>16. CASE Restart
  BY <1>16, RestartType
<1>17. QED
  BY <1>1, <1>2, <1>3, <1>4, <1>5, <1>6, <1>7, <1>8, <1>9, <1>10, <1>11, <1>12, <1>13,
     <1>14, <1>15, <1>16 DEF Next, Task, Supervisor

\* Every variable keeps its type and the event queues their length, for every
\* interleaving of weather_task, market_task and the supervisor.
THEOREM TypeCorrect == Spec => []TypeOK
<1>1. Init => TypeOK
  BY TypeInit
<1>2. TypeOK /\ [Next]_vars => TypeOK'
  BY TypeInductive
<1>3. QED BY <1>1, <1>2, PTL DEF Spec

------------------------------------------------------------------------------
(* The newest event                                                         *)

\* A step that leaves the queue, what is shown and the place of the task in the
\* replacing alone, or that has just made the event to queue, changes nothing.
LEMMA NewestFrame ==
  ASSUME NEW v \in Worker, NewestOf(v), queue'[v] = queue[v], app'[v] = app[v],
         \/ pc'[v] = "post"
         \/ /\ event'[v] = event[v]
            /\ pc'[v] # pc[v] => {pc[v], pc'[v]} \cap {"post", "discard", "resend"} = {}
  PROVE  NewestOf(v)'
BY DEF NewestOf

LEMMA AfterRequestNewest ==
  ASSUME TypeOK, NEW w \in Worker, NEW ok \in BOOLEAN, AfterRequest(w, ok),
         pc[w] \in {"fetch", "mutex"}, UNCHANGED <<queue, app>>,
         \A v \in Worker : NewestOf(v)
  PROVE  \A v \in Worker : NewestOf(v)'
<1>1. \/ pc' = [pc EXCEPT ![w] = "mutex"] /\ event' = event
      \/ pc' = [pc EXCEPT ![w] = "post"] /\ \E e : event' = [event EXCEPT ![w] = e]
  BY DEF AfterRequest, AfterWeatherRequest, AfterMarketRequest, GoesOn, Succeeds, Gives, Goes
<1>2. TAKE v \in Worker
<1>3. QED BY <1>1, NewestFrame DEF TypeOK

\* The event that is appended is the last one.
LEMMA Appended ==
  ASSUME NEW q \in Seq(Event), NEW e \in Event
  PROVE  /\ Append(q, e) # <<>>
         /\ Append(q, e)[Len(Append(q, e))] = e
OBVIOUS

\* What the supervisor's calls take is the first step of the script.
LEMMA HeadIsFirst ==
  ASSUME NEW S, NEW q \in Seq(S), Len(q) >= 1
  PROVE  q # <<>> /\ Head(q) = q[1] /\ Head(q) \in S
OBVIOUS

\* Taking the oldest event leaves the newest, unless it is the same.
LEMMA Taken ==
  ASSUME NEW q \in Seq(Event), q # <<>>
  PROVE  /\ Tail(q) \in Seq(Event)
         /\ Len(Tail(q)) = Len(q) - 1
         /\ Tail(q) = <<>> => Head(q) = q[Len(q)]
         /\ Tail(q) # <<>> => Tail(q)[Len(Tail(q))] = q[Len(q)]
OBVIOUS

LEMMA NewestInductive == NewestInv /\ [Next]_vars => NewestInv'
<1> SUFFICES ASSUME NewestInv, [Next]_vars PROVE NewestInv'
  OBVIOUS
<1>1. TypeOK /\ TypeOK' /\ \A v \in Worker : NewestOf(v)
  BY TypeInductive DEF NewestInv
<1> SUFFICES ASSUME NEW v \in Worker PROVE NewestOf(v)'
  BY <1>1 DEF NewestInv
<1>2. ASSUME NEW w \in Worker, Wakes(w) \/ Copies(w) \/ ChecksClock(w) \/ TakesMutex(w)
      PROVE  NewestOf(v)'
  <2>1. UNCHANGED <<queue, app, event>>
    BY <1>2 DEF Wakes, Copies, ChecksClock, TakesMutex
  <2>2. /\ pc[w] \in {"wait", "copy", "checkClock", "mutex"}
        /\ \E to \in {"wait", "copy", "checkClock", "mutex", "fetch"} :
             pc' = [pc EXCEPT ![w] = to]
    BY <1>2 DEF Wakes, Copies, ChecksClock, TakesMutex, Goes, Sleeps
  <2>3. QED BY <1>1, <2>1, <2>2, NewestFrame DEF TypeOK
<1>3. ASSUME NEW w \in Worker, Fetches(w) \/ MutexTimesOut(w) PROVE NewestOf(v)'
  <2>1. PICK ok \in BOOLEAN : AfterRequest(w, ok)
    BY <1>3 DEF Fetches, MutexTimesOut
  <2>2. pc[w] \in {"fetch", "mutex"} /\ UNCHANGED <<queue, app>>
    BY <1>3 DEF Fetches, MutexTimesOut
  <2>3. QED BY <1>1, <2>1, <2>2, AfterRequestNewest
<1>4. ASSUME NEW w \in Worker, Posts(w) PROVE NewestOf(v)'
  <2>1. CASE HasRoom(w)
    <3>1. /\ queue' = [queue EXCEPT ![w] = Append(queue[w], event[w])]
          /\ pc' = [pc EXCEPT ![w] = "wait"]
          /\ UNCHANGED <<app, event>>
      BY <1>4, <2>1 DEF Posts, Sleeps, Goes
    <3>2. CASE v = w
      <4>1. queue[w] \in Seq(Event) /\ event[w] \in Event
        BY <1>1 DEF TypeOK
      <4>2. queue'[w] = Append(queue[w], event[w]) /\ pc'[w] = "wait"
        BY <1>1, <3>1 DEF TypeOK
      <4>3. QED BY <3>1, <3>2, <4>1, <4>2, Appended DEF NewestOf
    <3>3. CASE v # w
      BY <1>1, <3>1, <3>3, NewestFrame DEF TypeOK
    <3>4. QED BY <3>2, <3>3
  <2>2. CASE ~HasRoom(w)
    <3>1. /\ pc' = [pc EXCEPT ![w] = "discard"]
          /\ UNCHANGED <<queue, app, event>>
      BY <1>4, <2>2 DEF Posts, Goes
    <3>2. CASE v = w
      BY <1>1, <3>1, <3>2 DEF TypeOK, NewestOf
    <3>3. CASE v # w
      BY <1>1, <3>1, <3>3, NewestFrame DEF TypeOK
    <3>4. QED BY <3>2, <3>3
  <2>3. QED BY <2>1, <2>2
<1>5. ASSUME NEW w \in Worker, Discards(w) PROVE NewestOf(v)'
  <2>1. /\ queue' = [queue EXCEPT ![w] = IF queue[w] = <<>> THEN queue[w] ELSE Tail(queue[w])]
        /\ pc' = [pc EXCEPT ![w] = "resend"]
        /\ UNCHANGED <<app, event>>
    BY <1>5 DEF Discards, Goes
  <2>2. CASE v = w
    <3>1. queue[w] \in Seq(Event) /\ Len(queue[w]) <= EventQueueLength
      BY <1>1 DEF TypeOK
    <3>2. Len(queue'[w]) < EventQueueLength
      <4>1. CASE queue[w] = <<>>
        BY <1>1, <2>1, <4>1, PublicDataAssumption DEF TypeOK
      <4>2. CASE queue[w] # <<>>
        BY <1>1, <2>1, <3>1, <4>2, Taken, PublicDataAssumption DEF TypeOK
      <4>3. QED BY <4>1, <4>2
    <3>3. pc'[w] = "resend"
      BY <1>1, <2>1 DEF TypeOK
    <3>4. QED BY <2>2, <3>2, <3>3 DEF NewestOf
  <2>3. CASE v # w
    BY <1>1, <2>1, <2>3, NewestFrame DEF TypeOK
  <2>4. QED BY <2>2, <2>3
<1>6. ASSUME NEW w \in Worker, Resends(w) PROVE NewestOf(v)'
  <2>1. HasRoom(w)
    BY <1>1, <1>6 DEF Resends, NewestOf, HasRoom
  <2>2. /\ queue' = [queue EXCEPT ![w] = Append(queue[w], event[w])]
        /\ pc' = [pc EXCEPT ![w] = "wait"]
        /\ UNCHANGED <<app, event>>
    BY <1>6, <2>1 DEF Resends, Resent, Sleeps, Goes
  <2>3. CASE v = w
    <3>1. queue[w] \in Seq(Event) /\ event[w] \in Event
      BY <1>1 DEF TypeOK
    <3>2. queue'[w] = Append(queue[w], event[w]) /\ pc'[w] = "wait"
      BY <1>1, <2>2 DEF TypeOK
    <3>3. QED BY <2>2, <2>3, <3>1, <3>2, Appended DEF NewestOf
  <2>4. CASE v # w
    BY <1>1, <2>2, <2>4, NewestFrame DEF TypeOK
  <2>5. QED BY <2>3, <2>4
<1>7. ASSUME NEW w \in Worker, HandleEvent(w) PROVE NewestOf(v)'
  <2>1. /\ queue[w] # <<>>
        /\ queue' = [queue EXCEPT ![w] = Tail(queue[w])]
        /\ app' = [app EXCEPT ![w] = IF Head(queue[w]).fetched THEN Head(queue[w]).values
                                                               ELSE app[w]]
        /\ UNCHANGED <<pc, event>>
    BY <1>7 DEF HandleEvent, Takes, taskVars
  <2>2. CASE v = w
    <3>1. queue[w] \in Seq(Event) /\ Len(queue[w]) <= EventQueueLength
      BY <1>1 DEF TypeOK
    <3>2. queue'[w] = Tail(queue[w])
      BY <1>1, <2>1 DEF TypeOK
    <3>3. app'[w] = IF Head(queue[w]).fetched THEN Head(queue[w]).values ELSE app[w]
      BY <1>1, <2>1 DEF TypeOK
    <3>4. NewestOf(w)
      BY <1>1
    <3>5. pc[w] = "resend" => Len(queue'[w]) < EventQueueLength
      BY <2>1, <3>1, <3>2, <3>4, Taken, PublicDataAssumption DEF NewestOf
    <3>6. ASSUME pc[w] \notin {"post", "discard", "resend"}
          PROVE  IF queue'[w] = <<>> THEN event[w].fetched => app'[w] = event[w].values
                                     ELSE queue'[w][Len(queue'[w])] = event[w]
      <4>1. queue[w][Len(queue[w])] = event[w]
        BY <2>1, <3>4, <3>6 DEF NewestOf
      <4>2. QED BY <2>1, <3>1, <3>2, <3>3, <4>1, Taken
    <3>7. QED BY <2>1, <2>2, <3>5, <3>6 DEF NewestOf
  <2>3. CASE v # w
    BY <1>1, <2>1, <2>3, NewestFrame DEF TypeOK
  <2>4. QED BY <2>2, <2>3
<1>8. CASE UNCHANGED <<pc, event, queue, app>>
  BY <1>1, <1>8, NewestFrame
<1>9. Calls \/ SaveFails \/ GoesThroughScript \/ TimeIsSet \/ UNCHANGED vars
        => UNCHANGED <<pc, event, queue, app>>
  BY DEF Calls, SaveFails, GoesThroughScript, TimeIsSet, vars, taskVars
<1>10. CASE Restart
  BY <1>10 DEF Restart, Boots, TasksStart, Both, NewestOf, NoEvent
<1>11. QED
  BY <1>2, <1>3, <1>4, <1>5, <1>6, <1>7, <1>8, <1>9, <1>10 DEF Next, Task, Supervisor

\* queue_weather_event and queue_market_event never lose the newest event, in
\* whatever order the supervisor takes events while the oldest is replaced and
\* whatever the length of the queue.
THEOREM NewestKept == Spec => []NewestIsKept
<1>1. Init => NewestInv
  <2>1. Init => \A w \in Worker : NewestOf(w)
    BY DEF Init, Both, NewestOf, NoEvent
  <2>2. QED BY <2>1, TypeInit DEF NewestInv
<1>2. NewestInv /\ [Next]_vars => NewestInv'
  BY NewestInductive
<1>3. NewestInv => NewestIsKept
  BY DEF NewestInv, NewestOf, NewestIsKept
<1>4. QED BY <1>1, <1>2, <1>3, PTL DEF Spec

------------------------------------------------------------------------------
(* The wake-ups                                                             *)

\* A step that changes nothing the task has to see and takes no notification.
LEMMA UpToDateFrame ==
  ASSUME NEW v \in Worker, UpToDate(v), Useful(v)' = Useful(v), PlaceOf(v)' = PlaceOf(v),
         Due(v) => Due(v)', pc'[v] = pc[v], sleep'[v] = sleep[v], current'[v] = current[v]
  PROVE  UpToDate(v)'
BY DEF UpToDate

\* The steps of a task once it has copied the configuration.
LEMMA UpToDateGoesOn ==
  ASSUME NEW v \in Worker, UpToDate(v), UNCHANGED sharedVars, UNCHANGED notified,
         current'[v] = current[v], pc[v] # "copy", pc'[v] # "copy",
         pc'[v] = "wait" => sleep'[v] = "timed"
  PROVE  UpToDate(v)'
BY DEF UpToDate, Useful, PlaceOf, Due, sharedVars

\* A task does not touch what the other one has copied.
LEMMA UpToDateOther ==
  ASSUME NEW v \in Worker, UpToDate(v), UNCHANGED sharedVars, notified'[v] = notified[v],
         pc'[v] = pc[v], sleep'[v] = sleep[v], current'[v] = current[v]
  PROVE  UpToDate(v)'
BY DEF UpToDate, Useful, PlaceOf, Due, sharedVars

LEMMA AfterRequestUpToDate ==
  ASSUME TypeOK, NEW w \in Worker, NEW ok \in BOOLEAN, AfterRequest(w, ok),
         pc[w] \in {"fetch", "mutex"}, UNCHANGED <<sharedVars, notified, sleep, current>>,
         \A v \in Worker : UpToDate(v)
  PROVE  \A v \in Worker : UpToDate(v)'
<1>1. \E to \in {"mutex", "post"} : pc' = [pc EXCEPT ![w] = to]
  BY DEF AfterRequest, AfterWeatherRequest, AfterMarketRequest, GoesOn, Succeeds, Gives, Goes
<1>2. TAKE v \in Worker
<1>3. CASE v = w
  BY <1>1, <1>3, UpToDateGoesOn DEF TypeOK
<1>4. CASE v # w
  BY <1>1, <1>4, UpToDateOther DEF TypeOK
<1>5. QED BY <1>3, <1>4

\* The supervisor's calls notify after each change.
LEMMA CallsNotify ==
  ASSUME script' \in {NetworkUp, NetworkDown, Configure, Reload}
  PROVE  ScriptNotifies' /\ ConfiguresWeather'
<1>1. CASE script' = NetworkUp
  <2>1. /\ Len(script') = 4
        /\ script'[1] = On("networkUp", "weather") /\ script'[2] = On("notify", "weather")
        /\ script'[3] = On("networkUp", "market") /\ script'[4] = On("notify", "market")
    BY <1>1 DEF NetworkUp, WeatherUp, MarketUp
  <2>2. 1 .. Len(script') = {1, 2, 3, 4}
    BY <2>1
  <2>3. QED BY <2>1, <2>2 DEF ScriptNotifies, ConfiguresWeather, On
<1>2. CASE script' = NetworkDown
  <2>1. /\ Len(script') = 2
        /\ script'[1] = On("networkDown", "weather")
        /\ script'[2] = On("networkDown", "market")
    BY <1>2 DEF NetworkDown
  <2>2. 1 .. Len(script') = {1, 2}
    BY <2>1
  <2>3. QED BY <2>1, <2>2 DEF ScriptNotifies, ConfiguresWeather, On
<1>3. CASE script' = Configure
  <2>1. /\ Len(script') = 2
        /\ script'[1] = On("configure", "weather") /\ script'[2] = On("notify", "weather")
    BY <1>3 DEF Configure
  <2>2. 1 .. Len(script') = {1, 2}
    BY <2>1
  <2>3. QED BY <2>1, <2>2 DEF ScriptNotifies, ConfiguresWeather, On
<1>4. CASE script' = Reload
  <2>1. /\ Len(script') = 2
        /\ script'[1] = On("notify", "weather") /\ script'[2] = On("notify", "market")
    BY <1>4 DEF Reload
  <2>2. 1 .. Len(script') = {1, 2}
    BY <2>1
  <2>3. QED BY <2>1, <2>2 DEF ScriptNotifies, ConfiguresWeather, On
<1>5. QED BY <1>1, <1>2, <1>3, <1>4

\* ... and so does what is left of a call.
LEMMA RestNotifies ==
  ASSUME TypeOK, ScriptNotifies, ConfiguresWeather, script # <<>>, script' = Tail(script)
  PROVE  ScriptNotifies' /\ ConfiguresWeather'
<1>1. script \in Seq([step : Step, worker : Worker])
  BY DEF TypeOK
<1>2. /\ Len(script') = Len(script) - 1
      /\ \A i \in 1 .. Len(script') : script'[i] = script[i + 1]
  BY <1>1
<1>3. ASSUME NEW i \in 1 .. Len(script')
      PROVE  /\ script'[i].step \in {"networkUp", "configure"} =>
                  i < Len(script') /\ script'[i + 1] = On("notify", script'[i].worker)
             /\ script'[i].step = "configure" => script'[i].worker = "weather"
  <2>1. i + 1 \in 1 .. Len(script) /\ i \in Nat
    BY <1>1, <1>2
  <2>2. script'[i] = script[i + 1]
    BY <1>2
  <2>3. i + 1 < Len(script) => i < Len(script') /\ script'[i + 1] = script[i + 1 + 1]
    BY <1>1, <1>2, <2>1
  <2>4. QED BY <2>1, <2>2, <2>3 DEF ScriptNotifies, ConfiguresWeather
<1>4. QED BY <1>3 DEF ScriptNotifies, ConfiguresWeather, On

\* After a change to what a task sees the notification is the next step.
LEMMA NextNotifies ==
  ASSUME TypeOK, ScriptNotifies, ConfiguresWeather, script # <<>>, script' = Tail(script),
         Head(script).step \in {"networkUp", "configure"},
         NEW w \in Worker, w = Head(script).worker
  PROVE  /\ Due(w)'
         /\ Head(script).step = "configure" => w = "weather"
<1>1. script \in Seq([step : Step, worker : Worker])
  BY DEF TypeOK
<1>2. Head(script) = script[1] /\ 1 \in 1 .. Len(script)
  BY <1>1
<1>3. 1 < Len(script) /\ script[2] = On("notify", script[1].worker)
  BY <1>2 DEF ScriptNotifies
<1>4. script' # <<>> /\ Head(script') = script[2]
  <2>1. script' \in Seq([step : Step, worker : Worker]) /\ Len(script') = Len(script) - 1
    BY <1>1, <1>2
  <2>2. Len(script') >= 1 /\ script'[1] = script[2]
    BY <1>1, <1>2, <1>3, <2>1
  <2>3. QED BY <2>1, <2>2, HeadIsFirst
<1>5. QED BY <1>2, <1>3, <1>4 DEF Due, On, ConfiguresWeather

LEMMA UpToDateScript ==
  ASSUME TypeOK, ScriptNotifies, ConfiguresWeather, GoesThroughScript,
         NEW v \in Worker, UpToDate(v)
  PROVE  UpToDate(v)'
<1>1. /\ script # <<>> /\ script' = Tail(script)
      /\ UNCHANGED <<pc, sleep, current>>
  BY DEF GoesThroughScript, taskVars
<1>2. script \in Seq([step : Step, worker : Worker])
  BY DEF TypeOK
<1>3. Head(script).worker \in Worker
  <2>1. Len(script) >= 1
    BY <1>1, <1>2
  <2>2. Head(script) \in [step : Step, worker : Worker]
    BY <1>2, <2>1, HeadIsFirst
  <2>3. QED BY <2>2
<1>4. Due(v) /\ Head(script).step # "notify" => notified[v]
  BY DEF Due, On
<1>5. CASE Head(script).step = "networkUp"
  <2>1. network' = [network EXCEPT ![Head(script).worker] = TRUE]
        /\ UNCHANGED <<configuration, notified>>
    BY <1>5 DEF GoesThroughScript
  <2>2. CASE v = Head(script).worker
    <3>1. Due(v)'
      BY <1>1, <1>5, <2>2, NextNotifies
    <3>2. QED BY <3>1 DEF UpToDate
  <2>3. CASE v # Head(script).worker
    <3>1. Useful(v)' = Useful(v) /\ PlaceOf(v)' = PlaceOf(v) /\ (Due(v) => Due(v)')
      BY <1>4, <1>5, <2>1, <2>3 DEF TypeOK, Useful, PlaceOf, Due
    <3>2. QED BY <1>1, <3>1, UpToDateFrame
  <2>4. QED BY <2>2, <2>3
<1>6. CASE Head(script).step = "networkDown"
  <2>1. network' = [network EXCEPT ![Head(script).worker] = FALSE]
        /\ UNCHANGED <<configuration, notified>>
    BY <1>6 DEF GoesThroughScript
  <2>2. CASE v = Head(script).worker
    <3>1. ~Useful(v)'
      BY <2>1, <2>2 DEF TypeOK, Useful
    <3>2. QED BY <3>1 DEF UpToDate
  <2>3. CASE v # Head(script).worker
    <3>1. Useful(v)' = Useful(v) /\ PlaceOf(v)' = PlaceOf(v) /\ (Due(v) => Due(v)')
      BY <1>4, <1>6, <2>1, <2>3 DEF TypeOK, Useful, PlaceOf, Due
    <3>2. QED BY <1>1, <3>1, UpToDateFrame
  <2>4. QED BY <2>2, <2>3
<1>7. CASE Head(script).step = "configure"
  <2>1. UNCHANGED <<network, notified>>
    BY <1>7 DEF GoesThroughScript
  <2>2. Head(script).worker = "weather" /\ (v = "weather" => Due(v)')
    BY <1>1, <1>3, <1>7, NextNotifies
  <2>3. CASE v = "weather"
    BY <2>2, <2>3 DEF UpToDate
  <2>4. CASE v # "weather"
    <3>1. Useful(v)' = Useful(v) /\ PlaceOf(v)' = PlaceOf(v) /\ (Due(v) => Due(v)')
      BY <1>4, <1>7, <2>1, <2>4 DEF Useful, PlaceOf, Due
    <3>2. QED BY <1>1, <3>1, UpToDateFrame
  <2>5. QED BY <2>3, <2>4
<1>8. CASE Head(script).step = "notify"
  <2>1. notified' = [notified EXCEPT ![Head(script).worker] = TRUE]
        /\ UNCHANGED <<configuration, network>>
    BY <1>8 DEF GoesThroughScript
  <2>2. Due(v) => notified'[v]
    BY <1>3, <2>1 DEF TypeOK, Due, On
  <2>3. Useful(v)' = Useful(v) /\ PlaceOf(v)' = PlaceOf(v) /\ (Due(v) => Due(v)')
    BY <2>1, <2>2 DEF Useful, PlaceOf, Due
  <2>4. QED BY <1>1, <2>3, UpToDateFrame
<1>9. QED BY <1>5, <1>6, <1>7, <1>8 DEF GoesThroughScript

LEMMA WakeUpInductive == WakeUpInv /\ [Next]_vars => WakeUpInv'
<1> SUFFICES ASSUME WakeUpInv, [Next]_vars PROVE WakeUpInv'
  OBVIOUS
<1>1. /\ TypeOK /\ TypeOK' /\ ScriptNotifies /\ ConfiguresWeather
      /\ \A v \in Worker : UpToDate(v)
  BY TypeInductive DEF WakeUpInv
<1>2. UNCHANGED script => ScriptNotifies' /\ ConfiguresWeather'
  BY <1>1 DEF ScriptNotifies, ConfiguresWeather
<1> DEFINE Kept == ScriptNotifies' /\ ConfiguresWeather' /\ \A v \in Worker : UpToDate(v)'
<1> SUFFICES Kept
  BY <1>1 DEF WakeUpInv
<1>3. ASSUME NEW w \in Worker, Wakes(w) PROVE Kept
  <2>1. /\ pc' = [pc EXCEPT ![w] = "copy"]
        /\ notified' = [notified EXCEPT ![w] = FALSE]
        /\ UNCHANGED sharedVars /\ UNCHANGED <<sleep, current>>
    BY <1>3 DEF Wakes, Goes
  <2>2. ASSUME NEW v \in Worker PROVE UpToDate(v)'
    <3>1. CASE v = w
      BY <1>1, <2>1, <3>1 DEF TypeOK, UpToDate
    <3>2. CASE v # w
      BY <1>1, <2>1, <3>2, UpToDateOther DEF TypeOK
    <3>3. QED BY <3>1, <3>2
  <2>3. QED BY <1>2, <2>1, <2>2 DEF sharedVars
<1>4. ASSUME NEW w \in Worker, Copies(w) PROVE Kept
  <2>1. /\ current' = [current EXCEPT ![w] = PlaceOf(w)]
        /\ UNCHANGED sharedVars /\ UNCHANGED notified
        /\ \/ Useful(w) /\ pc' = [pc EXCEPT ![w] = "checkClock"] /\ UNCHANGED sleep
           \/ /\ ~Useful(w)
              /\ pc' = [pc EXCEPT ![w] = "wait"]
              /\ sleep' = [sleep EXCEPT ![w] = "forever"]
    BY <1>4 DEF Copies, Goes, Sleeps, Useful
  <2>2. ASSUME NEW v \in Worker PROVE UpToDate(v)'
    <3>1. CASE v = w
      <4>1. Useful(w)' = Useful(w) /\ PlaceOf(w)' = PlaceOf(w)
        BY <2>1 DEF Useful, PlaceOf, sharedVars
      <4>2. current'[w] = PlaceOf(w)
        BY <1>1, <2>1 DEF TypeOK
      <4>3. Useful(w) => pc'[w] = "checkClock"
        BY <1>1, <2>1 DEF TypeOK
      <4>4. QED BY <3>1, <4>1, <4>2, <4>3 DEF UpToDate
    <3>2. CASE v # w
      BY <1>1, <2>1, <3>2, UpToDateOther DEF TypeOK
    <3>3. QED BY <3>1, <3>2
  <2>3. QED BY <1>2, <2>1, <2>2 DEF sharedVars
<1>5. ASSUME NEW w \in Worker,
             ChecksClock(w) \/ TakesMutex(w) \/ Posts(w) \/ Discards(w) \/ Resends(w)
      PROVE  Kept
  <2>1. /\ pc[w] # "copy"
        /\ UNCHANGED sharedVars /\ UNCHANGED <<notified, current>>
        /\ \/ /\ \E to \in {"mutex", "fetch", "discard", "resend"} :
                   pc' = [pc EXCEPT ![w] = to]
              /\ UNCHANGED sleep
           \/ /\ pc' = [pc EXCEPT ![w] = "wait"]
              /\ sleep' = [sleep EXCEPT ![w] = "timed"]
    BY <1>5 DEF ChecksClock, TakesMutex, Posts, Discards, Resends, Goes, Sleeps, WaitAfter
  <2>2. ASSUME NEW v \in Worker PROVE UpToDate(v)'
    <3>1. CASE v = w
      <4>1. pc'[w] # "copy" /\ (pc'[w] = "wait" => sleep'[w] = "timed")
        BY <1>1, <2>1 DEF TypeOK
      <4>2. QED BY <1>1, <2>1, <3>1, <4>1, UpToDateGoesOn
    <3>2. CASE v # w
      BY <1>1, <2>1, <3>2, UpToDateOther DEF TypeOK
    <3>3. QED BY <3>1, <3>2
  <2>3. QED BY <1>2, <2>1, <2>2 DEF sharedVars
<1>6. ASSUME NEW w \in Worker, Fetches(w) \/ MutexTimesOut(w) PROVE Kept
  <2>1. PICK ok \in BOOLEAN : AfterRequest(w, ok)
    BY <1>6 DEF Fetches, MutexTimesOut
  <2>2. /\ pc[w] \in {"fetch", "mutex"}
        /\ UNCHANGED <<sharedVars, notified, sleep, current>>
    BY <1>6 DEF Fetches, MutexTimesOut
  <2>3. QED BY <1>1, <1>2, <2>1, <2>2, AfterRequestUpToDate DEF sharedVars
<1>7. CASE Calls
  <2>1. /\ script = <<>>
        /\ script' \in {NetworkUp, NetworkDown, Configure, Reload}
        /\ UNCHANGED <<configuration, network, notified, pc, sleep, current>>
    BY <1>7 DEF Calls, taskVars
  <2>2. ASSUME NEW v \in Worker PROVE UpToDate(v)'
    <3>1. Useful(v)' = Useful(v) /\ PlaceOf(v)' = PlaceOf(v) /\ (Due(v) => Due(v)')
      BY <2>1 DEF Useful, PlaceOf, Due
    <3>2. QED BY <1>1, <2>1, <3>1, UpToDateFrame
  <2>3. QED BY <2>1, <2>2, CallsNotify
<1>8. CASE SaveFails
  <2>1. /\ script # <<>> /\ Head(script).step = "configure" /\ script' = <<>>
        /\ UNCHANGED <<configuration, network, notified, pc, sleep, current>>
    BY <1>8 DEF SaveFails, InConfigure, taskVars
  <2>2. ASSUME NEW v \in Worker PROVE UpToDate(v)'
    <3>1. Useful(v)' = Useful(v) /\ PlaceOf(v)' = PlaceOf(v) /\ (Due(v) => Due(v)')
      BY <2>1 DEF Useful, PlaceOf, Due, On
    <3>2. QED BY <1>1, <2>1, <3>1, UpToDateFrame
  <2>3. ScriptNotifies' /\ ConfiguresWeather'
    BY <2>1 DEF ScriptNotifies, ConfiguresWeather
  <2>4. QED BY <2>2, <2>3
<1>9. CASE GoesThroughScript
  <2>1. \A v \in Worker : UpToDate(v)'
    BY <1>1, <1>9, UpToDateScript
  <2>2. ScriptNotifies' /\ ConfiguresWeather'
    BY <1>1, <1>9, RestNotifies DEF GoesThroughScript
  <2>3. QED BY <2>1, <2>2
<1>10. CASE TimeIsSet \/ UNCHANGED vars \/ \E w \in Worker : HandleEvent(w)
  <2>1. UNCHANGED <<configuration, network, script, notified, pc, sleep, current>>
    BY <1>10 DEF TimeIsSet, HandleEvent, vars, sharedVars, taskVars
  <2>2. ASSUME NEW v \in Worker PROVE UpToDate(v)'
    <3>1. Useful(v)' = Useful(v) /\ PlaceOf(v)' = PlaceOf(v) /\ (Due(v) => Due(v)')
      BY <2>1 DEF Useful, PlaceOf, Due
    <3>2. QED BY <1>1, <2>1, <3>1, UpToDateFrame
  <2>3. QED BY <1>2, <2>1, <2>2
<1>11. CASE Restart
  <2>1. script' = <<>> /\ network' = Both(FALSE)
    BY <1>11 DEF Restart, Boots
  <2>2. ScriptNotifies' /\ ConfiguresWeather'
    BY <2>1 DEF ScriptNotifies, ConfiguresWeather
  <2>3. \A v \in Worker : UpToDate(v)'
    BY <2>1 DEF UpToDate, Useful, Both
  <2>4. QED BY <2>2, <2>3
<1>12. QED
  BY <1>3, <1>4, <1>5, <1>6, <1>7, <1>8, <1>9, <1>10, <1>11 DEF Next, Task, Supervisor

\* Whatever the interleaving of the supervisor's changes and notifications with
\* the copying and sleeping of weather_task and market_task, a task that has
\* something to fetch never sleeps on it.
THEOREM WakeUpsKept == Spec => []NoLostWakeUp
<1>1. Init => WakeUpInv
  <2>1. Init => ScriptNotifies /\ ConfiguresWeather
    BY DEF Init, ScriptNotifies, ConfiguresWeather
  <2>2. Init => \A w \in Worker : UpToDate(w)
    BY DEF Init, Both, UpToDate, Useful
  <2>3. QED BY <2>1, <2>2, TypeInit DEF WakeUpInv
<1>2. WakeUpInv /\ [Next]_vars => WakeUpInv'
  BY WakeUpInductive
<1>3. WakeUpInv => NoLostWakeUp
  <2>1. ASSUME TypeOK, NEW w \in Worker, Due(w) PROVE WillBeNotified(w)
    <3>1. script \in Seq([step : Step, worker : Worker])
      BY <2>1 DEF TypeOK
    <3>2. script # <<>> => 1 \in 1 .. Len(script) /\ Head(script) = script[1]
      BY <3>1
    <3>3. QED BY <2>1, <3>2 DEF Due, WillBeNotified
  <2>2. QED BY <2>1 DEF WakeUpInv, UpToDate, NoLostWakeUp
<1>4. QED BY <1>1, <1>2, <1>3, PTL DEF Spec

------------------------------------------------------------------------------
(* The stored configuration                                                 *)

\* The place that the device said it had saved is the one it works with, and
\* the one it will load after a restart, unless a later save was cut short.
AcknowledgedIsKept ==
  acknowledged # 0 => configuration = acknowledged /\ Loaded(stored) = acknowledged

\* All entries are of the place that was saved last.
SavedInv ==
  /\ TypeOK
  /\ acknowledged # 0 => /\ acknowledged \in Given
                         /\ configuration = acknowledged
                         /\ \A e \in Entry : stored[e] = acknowledged

LEMMA SavesKeep ==
  ASSUME SavedInv, NEW place, NEW n \in {0} \cup Entry, Saves(place, n), acknowledged' # 0
  PROVE  acknowledged' = acknowledged /\ stored' = stored
<1>1. n = 0 /\ acknowledged' = acknowledged
  BY DEF Saves
<1>2. stored' = [e \in Entry |-> stored[e]]
  BY <1>1 DEF Saves, Entry
<1>3. stored = [e \in Entry |-> stored[e]]
  BY DEF SavedInv, TypeOK
<1>4. QED BY <1>1, <1>2, <1>3

LEMMA SavedInductive == SavedInv /\ [Next]_vars => SavedInv'
<1> SUFFICES ASSUME SavedInv, [Next]_vars, acknowledged' # 0
             PROVE  /\ acknowledged' \in Given
                    /\ configuration' = acknowledged'
                    /\ \A e \in Entry : stored'[e] = acknowledged'
  BY TypeInductive DEF SavedInv
<1>1. CASE UNCHANGED <<stored, acknowledged, configuration>>
  BY <1>1 DEF SavedInv
<1>2. CASE SaveFails
  BY <1>2, SavesKeep DEF SaveFails, SavedInv
<1>3. CASE GoesThroughScript /\ \E place \in Given : Configures(place)
  BY <1>3 DEF Configures
<1>4. CASE Restart
  <2>1. acknowledged' = acknowledged /\ stored' = stored /\ configuration' = Loaded(stored')
    BY <1>4, SavesKeep DEF Restart, Boots
  <2>2. acknowledged \in Given /\ \A e \in Entry : stored[e] = acknowledged
    BY <2>1 DEF SavedInv
  <2>3. Loaded(stored) = acknowledged
    BY <2>2, LoadedType DEF SavedInv, TypeOK
  <2>4. QED BY <2>1, <2>2, <2>3
<1>5. ASSUME NEW w \in Worker, Task(w)
      PROVE  UNCHANGED <<stored, acknowledged, configuration>>
  BY <1>5 DEF Task, Wakes, Copies, ChecksClock, TakesMutex, Fetches, MutexTimesOut, Posts,
              Discards, Resends, sharedVars
<1>6. QED
  BY <1>1, <1>2, <1>3, <1>4, <1>5
  DEF Next, Supervisor, Calls, GoesThroughScript, HandleEvent, TimeIsSet, vars, sharedVars

\* save_configuration writes four entries one after the other: whatever fails
\* or restarts in between, what desk_weather_configure_qweather has reported as
\* saved is loaded again, until a later save overwrites a part of it.
THEOREM ConfigurationKept == Spec => []AcknowledgedIsKept
<1>1. Init => SavedInv
  <2>1. Init => /\ acknowledged # 0 => acknowledged \in Given
                /\ \A e \in Entry : stored[e] = acknowledged
                /\ configuration = Loaded(stored)
    BY PublicDataAssumption DEF Init, Given
  <2>2. Init => (acknowledged # 0 => configuration = acknowledged)
    BY <2>1, TypeInit, LoadedType DEF TypeOK
  <2>3. QED BY <2>1, <2>2, TypeInit DEF SavedInv
<1>2. SavedInv /\ [Next]_vars => SavedInv'
  BY SavedInductive
<1>3. SavedInv => AcknowledgedIsKept
  BY LoadedType DEF SavedInv, AcknowledgedIsKept, TypeOK
<1>4. QED BY <1>1, <1>2, <1>3, PTL DEF Spec
==============================================================================
