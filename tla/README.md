# ESP32_Monitor: TLA+ models and proofs

ESP32_Monitor is a desk console: an ESP32-S3 with a touch screen (`src/firmware`) that shows the
state of a Mac, and a helper on the Mac (`src/macos-helper`) that feeds it over Bluetooth LE. The
device shows private data and acts on the Mac, so its main promise is privacy: only while an
authenticated Mac is connected and unlocked is the screen lit, the data there and the touch live.

This directory holds TLA+ modules translated from that code, TLC configurations that check them on
small instances, and theorems that TLAPS proves for every value of the constants. `PROJECT.json`
lists components, runs, mutants (the small bugs each property is known to catch), findings,
hazards and theorems, and maps each definition to the lines it models.

    tlc -workers 2 -config DeskSession_lossless.cfg MCDeskSession     # any run of PROJECT.json
    tlapm DeskSession_proofs.tla                                      # any *_proofs.tla

## Inventory

The firmware is a set of FreeRTOS tasks. The *supervisor* (`app_main.c`) owns the session: it takes
events from the queues of the other tasks and drives the screen. NimBLE's host task, the default
event loop with the `esp_timer` task, the LVGL task, and one task each for weather, market and
storage post to it; what they share is a queue or a few variables under a spin lock.

| component | state | operations | interacts by | hard part | what makes it correct | module |
|---|---|---|---|---|---|---|
| privacy state machine (`privacy_state_machine.c`) | LOCKED / AUTHENTICATING / ACTIVE, last heartbeat, timeout | init, dispatch, poll | pure; the supervisor carries out the actions it returns | 32-bit clock, events in states nobody expects | locks on every bad event; timeout neither missed nor early | `PrivacyStateMachine` |
| anti-replay window (`ble_protocol.c`) | newest sequence, 32-bit bitmap | accept | pure; cleared with each connection | 16-bit wrap, shift by 32 | accepts each number once, none wrongly refused | `SequenceWindow` |
| frame codec, reassembly (`ble_protocol.c`, `ble_link.c`, `DeskProtocol.swift`) | a partly filled frame | encode, decode, accept fragment | NimBLE's host task | interleaved or repeated fragments, reconnection in the middle | what is delivered is a stream of whole frames in order | `Wire`, `FrameStream` |
| BLE link (`ble_link.c`) | `link_state`: handle, connected, encrypted, subscribed; event queue | GAP events, send, disconnect, HID, Codex RPC | written by NimBLE, read by the supervisor | a full queue, a handle that changes hands | what is posted is in order; what is sent reaches the right peer; a key does not stay down; a request is answered | `BleLink` (link, queue), `Wire` (sending), `CodexLink` (HID, Codex) |
| application authentication (`app_auth.c`, `DeskAuthentication.swift`) | shared key in NVS and in a file, pending key, challenge, migration flag | init with migration, begin, verify, reset; makeHello, handleChallenge, handleResult | frames | crash between writes, lost answers, failing storage | a confirmed key is durable on both sides | `AppAuth` (keys), `DeskSession` (challenges) |
| supervisor (`app_main.c`) | `runtime`: privacy context, window, app state, touch queue, limit of the authentication | one loop: event, touches, timeouts, other events | all of the above | every other task runs between two of its steps | screen, data and touch follow the privacy state | `DeskSession`; its handlers for the others in `Network`, `PublicData`, `Panel`, `CodexLink` |
| application state (`app_model.c`) | what the UI shows | clear_private, apply payload | the supervisor only, copied to the UI | messages that replace parts of each other's records | private parts are empty when locked; nothing received is overwritten | `Panel`, in `DeskSession` its private part |
| user interface (`ui.c`) | page, LVGL objects and pointers to them, timers, chart history | apply state (refresh or rebuild), navigate, feedback, enable touch | LVGL task; touches go to the supervisor's queue | pointers to deleted objects, pages refreshed that should be rebuilt | no pointer outlives its object; what is shown is what was received last | `Panel`; touches in `DeskSession` and `CodexLink` |
| network (`network.c`) | five variables under `state_lock`, reconnect timer, event queue | event handler, timer callback, provision, reconnect | event loop task, timer task, supervisor | three tasks, one timer, one flag | keeps trying; no flag left behind; the supervisor's view | `Network` |
| weather, market (`weather.c`, `market.c`), HTTP (`http_fetch.c`) | configuration, cached state, result queue; mutex | task loop, configure, request refresh | queues to the supervisor | seconds between reading the configuration and posting; waking a sleeper; a full queue; a shared mutex | the newest result survives; no wake-up is lost; ends with the configured place's data | `PublicData` |
| board (`board.c`) | shadow of the expander's output register | update bits, reset touch, backlight, SD select | supervisor, LVGL, storage | shared register, failing I2C | the outputs are what was asked for | `BoardExpander` |
| storage, log policy (`storage.c`, `log_policy.c`) | queue, mount state, counters, open file | log, mount, flush, rotate | any task logs | loss and its accounting | losses are counted or bounded; the log recovers | `StorageLog` |
| Mac controller (`main.swift`) | peripheral, stage, timers, suspended, shown state | scan, connect, discover, authenticate, heartbeat, lock, wake, the user's buttons | CoreBluetooth callbacks and timers on one queue | callbacks of an old connection, timers, modal dialogs | always pursues a connection; no timer outlives its session | `MacController`; its frames in `DeskSession`, `AppAuth`, `Wire` |
| status sources, windows, scripts | files, counters | | | input and output | | not modelled |

## Modules

`PrivacyStateMachine` and `SequenceWindow` hold operators only: the C functions are pure. `BleLink`
adds the variables `link` and `bleQueue` and the operators for what NimBLE's task does to them.
`DeskSession` EXTENDS all three and is the core.

**DeskSession** is the supervisor's loop with everything that runs beside it. `pc` says where the
loop stands; one iteration is

| step | code |
|---|---|
| `HandleEvent` (one disjunct per event or message) or `ReceiveTimeout` | `desk_ble_link_receive_event`, `handle_ble_event`, `handle_protocol_frame` |
| `ApplyActions`: `BacklightOff`, `ClearPrivateData`, `UpdateUi`, `BacklightOn`, `DisconnectBle` | `apply_privacy_actions`, one step per effect, in the code's order; `todo` holds what is left |
| `ReadClock` | `now_ms = uptime_ms()` |
| `HandleUiAction` until the touch queue is empty | `while (xQueueReceive(...)) handle_ui_action` |
| `PollTimeouts` | `desk_privacy_poll` and the limit on the authentication, with the clock read before |

Between any two of them NimBLE (`LinkUp`, `LinkDown`, `LinkChanges`, a frame that arrives), the
LVGL task (`TouchUi`), the Mac and the clock may step. An event handler that dispatches only puts
the actions into `todo`; nothing else of the supervisor runs until they are done. Data are reduced
to what the properties need: a frame is a message, a sequence number, its connection and the
challenge it answers; the application state is one bit "private data present" and two flags; a
touch is the number of the session it was made in. `ghost` is history for the properties and for
the bounds; no guard of the code's own steps reads it except to number the challenges, which in the
code are random.

Two constants choose the peer. With `MacFollowsProtocol` it is the helper: `MaySend` and
`StageAfter` are `DeskMonitorController`'s guards and stages. Without it, the peer writes any frame
at any time (each numbered as the helper would). `DropsAllowed` says whether the event queue may
overflow; where it is FALSE a run considers only behaviours in which every event finds room.

**PrivacyGate** is the abstract specification of what all this is for, without queues, tasks, events or frames: a
session is with one peer, opens with a later connection than every session before it, and only in it can light,
touch and data be given; they may be withdrawn at any time, and are before the next session opens, but for
`Leftover`. `KeepsGate` is the refinement: the peer is the connection that answered the challenge (while
ACTIVE), what is shown is computed from `panel` and `app`, and `Leftover` is what the code can fail to
withdraw: private data where a lost DISCONNECTED lets the next connection begin in ACTIVE, and light where the backlight's
transfer fails.

**AppAuth** is the shared key on its two sides. NVS is a sequence of images: `nvs[1]` is committed,
each `nvs_set_*` or erase appends one, `nvs_commit` leaves only the last, and a crash leaves any of
them, because NVS may write to the flash before the commit. A key written over one that was not
committed takes its place, so that endless retries leave finitely many images. The erase of the
migration flag fails when its entry is already gone (`MigrationNotFound`), which `auth.migration`,
the flag's copy in memory, does not tell. Boot and the saving of a key go one NVS
call per step, so that a crash comes between any two. On the Mac, `file`, `cached`, `stored` and
`enrolling` are the key's copies in `DeskAuthenticator`. Messages do not outlive their connection
here; `DeskSession` covers that.

**Network** has three processes: `handler` (the event loop), `callback` (the timer) and `caller` (the
supervisor in `desk_network_provision` or `desk_network_reconnect`). Each critical section, driver
call and timer call is a step. The driver is external: a connect succeeds only on an idle station, a
disconnect of a station that is not idle is followed by a DISCONNECTED event, as is a failed attempt
or a lost connection. Errors of `esp_wifi_disconnect` other than "not connected" are left out.

**PublicData** runs `weather_task` and `market_task` with the same actions: `weather.c` and `market.c`
share their structure, and a worker's differences are `PlaceOf` (only the weather is configured) and
`Requests` (only the weather has one that may fail, for the alerts). A task goes through `Wakes`, `Copies`,
`ChecksClock`, then `TakesMutex` and `Fetches` (or `MutexTimesOut`) for each request, and `Posts`, with
`Discards` and `Resends` when the queue is full. The supervisor's calls are a `script` of single
assignments and notifications, so that a task may run between any two. A fetched value is the place it
was fetched for; `updated` starts from `cached`, as in the code. `stored` is the weather configuration's four
NVS entries: `save_configuration` writes one after the other, may fail at any of them (`SaveFails`), and a
`Restart` may cut it short; as in `AppAuth`, what is written may stay without the commit. After a restart
`Loaded(stored)` is the configuration, possibly one put together from two. `acknowledged` is the place of which the
device last said that it had saved it.

**BoardExpander** is the output register of the I/O expander with its shadow: `ch422g_output_update` in
its three steps (mode, lock, write) for the two tasks that call it, the resets of the boot, and transfers
that fail. A failed I2C write may still have reached the expander; a restart of the chip alone leaves the
outputs as they were. **StorageLog** EXTENDS it: `task` says where `storage_task` stands between
receiving a record, sorting it into its day, rotating, opening, writing and flushing, and on the way down and
up again after an error (`unmount`, `deselect`, `wait`, `select`, `card`). The font loader is the
second user of the card. A record is its day; a file's size is its number of records. Three things of the
code are in the model as they are: `written_entries` counts a record when it is written into the buffer
of the file, before the flush, so that a failure can lose up to a batch that counts as written; `mounted` stays true
while `unmount_card` runs; and the result of `sd_select(false)` is ignored. The file's buffer is taken to
hold a batch, so that it reaches the card at a flush only.

**Wire** carries frames in fragments, in one direction per behaviour. The senders differ: the Mac
hands all fragments to CoreBluetooth at once, the device notifies one by one, may fail at each, and
goes on over a reconnection, since `send_frame` reads the handle once. An identifier is spent on a refused frame as
well. The receivers decide alike: `Assembly` is `reassembly_state_t` and `DeskFragmentReassembler`; an
error at the Mac makes it cancel the connection. Foreign fragments stand for another program that writes
to the characteristic. The checksum is assumed to reject whatever is not one whole frame.
**FrameStream** is the abstract specification: frames are sent, and delivered at most once, in order.
`FramesAreAStream` is the refinement (`INSTANCE FrameStream WITH sent <- begun`).

**MacController** is `DeskBluetoothController`. All its code runs on the main queue, so a handler is one
action; armed timers and outstanding answers of CoreBluetooth are sets of which any member may come
next. `modal` is a modal dialog, during which the timers of the run loop's default mode stand still.
The retry's delay and the menu's items are left out.

**Panel** is `ui.c` over the state of `app_model.c`. `live` are the objects and timers of LVGL,
`pointer` the pointers that `ui.c` holds, `screen` what is drawn: `Renders` deletes all and creates
the page, `Refreshes` writes only the parts that exist, and `ShapeChanged` decides between the two.
`app` is `runtime.app_state` and the copy in `ui.c` at once, because the supervisor changes and applies it in one
step under the LVGL lock, which it waits for without limit. Each datum is a member of a small set;
readings of the system are their sequence numbers, which the chart's ring keeps. What the device reads
of itself (uptime, heap) and all layout is left out.

**CodexLink** is the Codex part of `ble_link.c` with the touches that use it: the supervisor sends
keys, NimBLE's task answers requests, and both cut their messages into HID reports under one mutex
while the connection may drop, resubscribe or refuse a report. `buffer` is the static buffer in
which a request is put together. A request that does not begin with `{"method"` and follows a
leftover is answered only after the buffer has overflowed; `RequestsAreAnswered` is about the others.
`excused` marks keys whose release is known to be lost (a full queue, a lock, a failed report).

Each `X_proofs` EXTENDS X with its inductive invariant and theorems.

## Runs

| run | question | bounds |
|---|---|---|
| `session_lossless` | any frames from any peer, no event lost: do panel, data and touch follow the privacy state, and does what is shown come from the connection that authenticated, and is it all a `PrivacyGate`? | 2 connections of 3 frames, 3 queued events, 1 queued touch; the clock stands still, so no timeout occurs |
| `session_lossy` | a queue of one event, so that every event may be dropped, and the clock moves within an iteration: timeouts, and nothing shown when locked | 2 connections of 3 frames, timeouts of 1 tick, 1 tick per iteration, a clock that wraps at 5 |
| `session_prompt` | the helper's own protocol, under fairness: who gets a touch action, does every connection end in a session or in a disconnection, does a Mac get over a wrong belief | 2 connections of 2 frames, timeouts and iterations of 1 tick, a clock that wraps at 4, the Mac waits a tick before it reconnects |
| `enrollment_faults` | upgrade, enrollment, authentication with faults anywhere | 3 faults among crashes, restarts, lost connections, failed writes; 4 keys |
| `network_busy` | handler, callback and supervisor interleaved with a connection that comes and goes | 2 calls, 1 fast retry, 3 queued events, counter stops at 2 |
| `public_data` | both tasks, the mutex, the supervisor's calls and restarts: wake-ups, the newest event, the data that the device ends with | 2 places, 3 calls or restarts, 1 request or save that fails, 2 queued events, 1 mandatory request |
| `storage_faults` | boot, logging, rotating, flushing and the backlight on the same register, with failures: what is lost, what do the outputs do, does the log recover? | 4 records of 2 days, a queue of 1, batches of 2, rotation at 4, 1 switch of the backlight, 2 faults |
| `wire_fragments` | fragments in either direction, cut short, mixed, repeated connections: do they implement a stream, and does an untouched frame arrive? | 3 frames of up to 3 fragments, 2 connections, 2 foreign fragments, 1 packet that cannot be copied, identifiers modulo 2, timeout of 1 tick |
| `mac_faults` | the helper through faults, power, locks, buttons and dialogs in every order: is it ever stranded, does a timer outlive its session, does a session come back? | 3 faults, Bluetooth off once, 2 suspensions, 1 manual reconnect, 1 dialog |
| `mac_locked` | a helper that is suspended is offline, as its README says (violated, below) | 1 suspension |
| `panel_pages` | every page under every message, lock and navigation: pointers, what is shown, the charts | 2 slots, 1 card, lists of at most 1 task of 2 statuses, a ring of 2, sequence numbers modulo 4 |
| `codex_keys` | keys and answers share the reports: lines, answers, keys that stay down | 2 queued touches, a buffer of 2 reports, 1 fault |

Why the bounds are enough. Two connections are what it takes for an event, a touch or a challenge of
one to meet the next; three frames are HELLO, AUTH_RESPONSE and one more, and a frame of the first
connection can still be queued when the second is up. `ClockMod` has to exceed the largest true
difference of two readings (timeout plus two iterations, plus one); it is that small so that the
counter wraps many times. The sequence window keeps its real widths (65536 and 32): only the
number of frames is bounded. `MaxLoopTicks` bounds the time of one iteration and stands for the
assumption that the supervisor is scheduled; `SilenceBounded` is stated in terms of it. In `AppAuth` three faults let a fault happen during the recovery from
another; four keys suffice because a key is fresh only if nobody holds it. In
`Network` the queue's length matters only where it overflows, which `network_busy` excludes (after a lost
event `AppAgreesOnceQuiet` is not claimed, and no run shows what it costs), as the session runs exclude a backlight that
fails (only `LockedClear` covers one); two
calls are the least for a provisioning to meet a reconnection and what a previous one left behind.
In `PublicData` one mandatory request stands for the three, which are alike (each fails the refresh); two
places are what it takes for an old one's data to meet the new one; with three calls the network comes up,
a place is configured and the network goes, the device restarts, or the place is configured again; a queue of 2 tells the oldest
event from the newest. `RetryCap` stops `retry_count` above `FastRetryLimit`, where the code no longer tells values apart.
In `StorageLog` two records fill a batch, two days change the file, four reach the rotation, and the second
fault can hit the recovery from the first. In `Wire` identifiers modulo 2 make the third frame meet the
identifier of the first, and three fragments have a first, a middle and a last. In `MacController` a
fault may come before, while and after a suspension, and the second suspension meets the state that a wake
leaves. In `Panel` a ring of 2 wraps and numbers modulo 4 restart it; of tasks only their presence and status
matter. `CodexLink` has a queue of 2 touches for 8: one that is taken and one that finds no room
are what it tells apart; the buffer's 2 reports stand for 4096 bytes, the least that a request of 2 reports
fills. In both the larger value is reached by the same steps.

Deadlock is checked in the session runs, `storage_faults`, `panel_pages` and `codex_keys`. It is not in
`AppAuth` (the pair rests once it is authenticated and the faults are used up), `Network` (a connected
station may stay so), `PublicData` (without a network both tasks sleep), `Wire` (all frames are sent) and
`MacController` (a suspended helper rests).

Fairness. `DeskSession`: the supervisor is a task without blocking calls other than its 250 ms wait
(weak fairness of its steps); time passes; draining the touch queue takes less time than making a
touch (strong fairness of `PollTimeouts`); a disconnection that either side has asked for comes
about, as both Bluetooth stacks promise with their supervision timeout (strong fairness of
`LinkEnds`, strong because the event has to find room where nothing is dropped). `AppAuth`: both
programs run, the Mac reconnects after a loss, and no new key or message is needed from a user.
`Network`: the tasks run and an armed timer fires; nothing is assumed of the driver, so an access
point may stay away for good. `PublicData`: the tasks and the supervisor run and a request ends (the HTTP
client has a timeout), and a task that waits for the mutex gets it (strong fairness of `TakesMutex`:
FreeRTOS hands it to a waiter). A timed wait, a minute or more in the code, ends only after the
supervisor, which looks every 250 ms, has taken the events queued before it. `StorageLog`: the tasks
run and their waits end; nobody has to log or to switch, and nobody waits for the expander's mutex for
ever, since it is held for one transfer. `MacController`: armed timers fire, CoreBluetooth reports what was asked for,
the device is there and answers or gives up, pairing succeeds in the end (strong fairness, as earlier
status values come in between), and the user closes dialogs; nothing is assumed of locks, power and
faults but that the bounds end them. `CodexLink`: the supervisor takes touches (weak fairness) and each task that sends goes on, a waiter for the mutex
included (strong fairness, as the other task may take it in between). `Wire` and `Panel` state
no liveness: `IntactDelivered` says what must have arrived once the channel is empty.

## What the checks show

* No transport event lost: panel, private data and touch follow the privacy state exactly
  (`PanelFollowsState`), private data comes over the connection that answered the challenge
  (`PrivateDataFromVerifiedPeer`), and the window refuses no honest frame (`NoFrameIgnored`); nothing is
  switched on or shown outside a session, no connection gets a second one, and none starts over what another
  left (`KeepsGate`).
* Whatever is lost: a locked device shows nothing (`LockedIsClear`), a touch stays in its session
  (`UiActionsBelongToSession`), a session outlives its last heartbeat by no more than the timeout and two iterations
  (`SilenceBounded`), no timeout comes early although the counter wraps (`NoSpuriousTimeout`).
* With a helper that waits before it reconnects (it does: `scheduleReconnect`), a touch action goes
  to the Mac that authenticated (`ActionReachesVerifiedPeer`), though the code sends to whichever
  connection is current; every connection ends in a session or is ended (`LinkResolves`, provided
  that no connection is handled in the one millisecond in 2^32 where the counter reads 0), and a Mac
  does not go on believing in a session that the device refused (`BeliefHeals`).
* `AppAuth`: success means both copies are durable (`SuccessIsDurable`), a confirmed key stays
  (`EnrolledKeyKept`), only one is confirmed (`EnrolledOnce`), and when the faults end the pair
  authenticates, or is left with copies that cannot (`Incompatible`) or with a device that can save no key
  before it restarts (`SavesFail`): `Settles`. Both exceptions are among the divergences below.
* `Network`: the flag of a provisioning never outlives its event (`PendingHasItsEvent`), the
  supervisor's view is right once everything is handled (`AppAgreesOnceQuiet`), and an idle station
  tries again if each connect on an idle station is accepted (`KeepsTrying`).
* `PublicData`: a task with something to fetch never sleeps on it or on an old configuration
  (`NoLostWakeUp`); a full queue loses old events only (`NewestIsKept`); when calls, restarts and failures end,
  the device shows the forecast of the place that it last said it had saved, unless a save was cut short
  later, and neither task starves the other (`Converges`).
* `StorageLog`: every record is waiting, in hand or in a counter (`LossAccounted`); a failure costs at
  most a batch of those counted as written (`SilentLossBounded`); two tasks that switch bits of one
  register do not undo each other, and panel and touch controller stay out of reset
  (`OutputsAsRequested`); after the last failure all that is left is written and the font is loaded
  (`Recovers`).
* `Wire`: what is delivered is a stream of whole frames (`FramesAreAStream`), and a frame to which nothing
  happened arrives whatever the receiver held before it (`IntactDelivered`).
* `MacController`: the helper is never stranded (`NeverIdle`), no timer outlives its session
  (`TimersBelongToSession`), and a session with heartbeats comes back (`Resumes`).
* `Panel`: no pointer outlives its object (`PointersAlive`), the page shows what was received last
  (`ScreenShowsLatest`), the charts show each reading of the session once (`ChartsShowSamples`).
* `CodexLink`: messages never mix in a line (`LinesAreMessages`), a request is answered whatever an earlier
  one left (`RequestsAreAnswered`), a key stays down only if its release is known to be lost
  (`KeysAreReleased`).

### Finding

`mac_locked`: `macDidLockOrSleep` (`main.swift:804`) leaves a scan running that is under way, and neither
`didDiscover` nor `didConnect` looks at `connectionSuspended`: a device found after the lock gets a
session with the locked Mac, whose heartbeats keep its screen on until the Mac is woken.
`src/macos-helper/README.md:19` says that a locked Mac disconnects.

### Divergences that no run checks

Seen while modelling; the models contain the behaviour, as the code does:

* A DISCONNECTED event that finds the queue full is dropped; the device stays open until the heartbeat
  times out, not for the 1 s of `BLE协议.md:9`. `SilenceBounded` bounds it.
* The limit on the authentication does not reset the challenge; a late AUTH_RESPONSE is answered with
  success by a device that stays locked (`BLE协议.md:61`). `BeliefHeals` shows that the pair gets over it.
* Result 2 reaches the Mac in stage `helloSent`, where `handleResult` throws before the branch that
  drops the key; the Mac never enrolls again (the excuse `Incompatible` of `Settles`).
* A save whose commit fails after the migration flag was erased leaves the flag set in memory; the erase
  of every later save then returns `ESP_ERR_NVS_NOT_FOUND`, and the enrollment is answered with STORAGE_FAILED until
  a restart (`app_auth.c:265`, while line 116 lets that code pass; `SavesFail` of `Settles`).
* A reset between two writes of the migration closes it with no key enrolled (`Incompatible` as well).
* A connect that fails in the timer's callback is only logged, and nothing arms the timer again
  (`network.c:52`: "never give up"); `network_busy` excludes it by `ConnectMayFail`.
* A save of the weather's configuration that fails half-way is reported as failed and leaves the one in memory, but
  after the next restart the device may load a place put together from both (`weather.c:114`).
* After the place has changed, an alert of the old place stays beside the new forecast when the new
  alerts cannot be fetched (`weather.c:272`, `功能规划.md:258`). The next successful request corrects it.
* A microphone key that is held when the screen locks stays down in Codex (`excused` of
  `KeysAreReleased`), while `docs/AI页规划参考.md:33` and `docs/AI控制中心收尾说明.md:36` have it released.
* A connection handled in the millisecond 0 has no limit on its authentication (`app_main.c:956`, `1343`).
* The touch stays enabled from boot to the first lock (`接板联调清单.md:47`); the actions it queues are
  ignored while locked, which `UiActionsBelongToSession` covers.
* A lock clears private data before it disables the touch (`技术架构.md:49`), harmless since the supervisor
  handles no touch in between.
* A Bluetooth reconnection does not refresh the weather (`功能规划.md:533`): only the network and the
  reload key do (`app_main.c:1050`, `1168`).

## What is proved

`DeskSession_proofs` proves for every value of the constants that satisfies the named assumptions of
the modules (timeouts, queue lengths and counters are natural numbers, the moduli positive), with
and without lost events, for both kinds of peer:

* `TypeCorrect`: `Spec => []TypeOK`.
* `LockedClear`: `Spec => []LockedIsClear`.
* `TouchesBelong`: `Spec => []UiActionsBelongToSession`.

Neither of the last two is inductive. The strengthening is `SessionInv`, the conjunction of

* `TypeOK`;
* `ClearInv`: in LOCKED, whatever is still shown has the action that clears it in `todo`, and the
  copy for the UI is refreshed after the data is cleared. Without it, nothing excludes a locked
  state whose actions are all done while the panel is lit. It needs that BACKLIGHT_ON never
  survives a lock: a dispatch replaces `todo`, and happens only when `todo` is empty;
* `TouchInv`: in ACTIVE all queued touches are of this session; in AUTHENTICATING the panel takes no
  touch (or TOUCH_DISABLE is still to be done), and the queue is empty whenever the supervisor waits
  for an event. Because the whole queue is drained in each iteration, none is left over when a
  success opens the next session, and none is added between.

* `GateKept`: `Spec => KeepsGate`, that is, `DeskSession` implements `PrivacyGate`, with and without lost events.
  `GateStep` maps each step: a success in AUTHENTICATING opens, a lock or a new connection closes, lighting, updating the UI and
  private frames in ACTIVE show, the actions of a lock withdraw, all else stutters. Two more invariants go into it.
  `ConnectionInv` orders the numbers of the connections: in the queue they never decrease, every CONNECTED is later than
  all events before it and than the last session, and so is all that is queued while AUTHENTICATING; dropping
  events cannot break this. `GateInv` says what an authentication may find: no action that lights is left, and a lit
  backlight or private data only as far as `Left` names them. That nothing private is left where no event is lost comes from
  `OrderInv` below.
* `NoneTooEarly`: `Spec => NoSpuriousTimeout`, and, if there is a timeout and the counter can tell it
  and two rounds of the loop from 0, `SilenceEnds`: `Spec => []SilenceBounded`.

Where no transport event is lost (`~DropsAllowed`), and each with the further conditions it names:

* `PanelFollows`: `[]PanelFollowsState`, if the backlight's switch works;
* `VerifiedPrivateData`: `PrivateDataFromVerifiedPeer`;
* `ActionsReachVerified`: `ActionReachesVerifiedPeer`, if events wait for less than a tick and the Mac
  takes longer than that to connect again;
* `NoneIgnored`: `NoFrameIgnored`, if there are at least four sequence numbers (65536 in the code; with fewer
  the next number is not ahead of the newest, and the theorem is false).

And whatever is lost, for an even number of sequence numbers: `ReplaysRefused`: `Spec => ReplayRefused`. This
action property, defined beside its proof, is the other half of `NoFrameIgnored`: a frame that is handled is refused from then on,
and a number that is refused stays so, in the same connection, until the newest number has gone on by half
of all numbers (half a round of the 16-bit counter, where `desk_sequence_window_accept` can no
longer tell old from new).

They rest on more invariants, of the clock, the queue, the connections and the numbers:

* `SilenceInv` and `OverdueInv` compare the time elapsed, modulo the counter's width and read at `clock` and at
  `loopNow`, with the silence that the properties count. `TimeStep` says that a step restarts the time, lets it go
  on, reads the clock, polls or ticks; `ElapsedValue` and `ElapsedTick` are the arithmetic of the wrapping.
* `OrderInv`: between two beginnings of connections, in the queue, in the supervisor or still to come, the
  queue holds an end, so that CONNECTED is never handled outside LOCKED. Without it a dispatch could drop the
  lighting of a session, or start an authentication over what a session left. `PanelInv` then says that what the
  panel lacks of the state, an action of `todo` will bring.
* `ConnInv`: frames with no end of a connection between them came over one connection; it is the current
  one if none follows them, and the verified one if none precedes them in a session. `DownInv` says that
  no connection begins while the end of the last one waits in the queue.
* `NumberInv` (for `NoneIgnored`): the frames of the queue between two beginnings of connections are numbered one by
  one, the first of them follows the window's newest number (or finds an empty window), and the Mac's
  next number follows the last of them. `AcceptsNext` and the lemmas on the modulus (`Division`, `Modulo`,
  `NextNumber`) turn this into what the window computes.
* `NewestSeen` (for `ReplaysRefused`): the newest number's own bit is set. The rest is about the operators:
  `Distances` gives both distances of `SequenceWindow` without the modulus, `TakenIsRefused` and
  `RefusedStays` say what `AfterSequence` does to a number's age and bit, `WindowSteps` that nothing else
  writes the window.

Each `...Inductive` has one step per action; lemmas about the
components (`DispatchType`, `DispatchLocks`, `WindowType`, `PostType`) are stated once.

`PublicData_proofs` does the same for the tasks, for every queue length and number of requests:

* `TypeCorrect`: `Spec => []TypeOK`.
* `WakeUpsKept`: `Spec => []NoLostWakeUp`. The invariant `WakeUpInv` says what `NoLostWakeUp` says at every
  place of the task (`UpToDate`), and excuses it only if the notification is there or the *next* step of
  the call (`Due`): an excuse by any later step is not preserved when the call ends early because
  the configuration cannot be saved. That the next step notifies is `ScriptNotifies`.
* `NewestKept`: `Spec => []NewestIsKept`. `NewestInv` adds that a task about to send again finds room: it
  has just discarded an event, and nobody else queues.
* `ConfigurationKept`: `Spec => []AcknowledgedIsKept`, which is the safety behind `Converges`: a place that the
  device said it had saved is the one in memory and the one that a restart loads, until a later save overwrites an
  entry. `SavedInv` says it of each of the four entries.

`AppAuth_proofs`, for any set of keys and any number of faults: `TypeCorrect`, `SuccessDurable`,
`EnrollmentOnce` and `KeyKept` (`SuccessIsDurable`, `EnrolledOnce`, `EnrolledKeyKept`). `NvsInv` says
that all images of NVS agree on a key that is in use or enrolled and that none of them will be migrated, so that
a crash may leave any of them; `MacInv` ties each message under way to the stages of both sides, one
message at a time, and to the copies of the key that its sender held.

`Network_proofs`, for any number of calls, retries and queued events: `TypeCorrect`, `MarkAnswered`
(`PendingHasItsEvent`) and, under `~DropsAllowed`, `ViewAgrees` (`AppAgreesOnceQuiet`). `PendingInv` says that the flag has its event under
way or the call that set it has still to ask for it; `NewsInv` says that the youngest report that tells
of the station's state, in the event loop, the handler, the queue or the supervisor's view, tells it
right.

`StorageLog_proofs`: `RecordsAccounted`, `SilentLoss` and `OutputsKept` (`LossAccounted`,
`SilentLossBounded`, `OutputsAsRequested`), for any lengths and numbers of failures. `BatchInv` says that
the buffer holds no more than one batch, and covers it by the count of records since the flush but on
the way out of a failure; `OutputInv` that register and shadow both honour each caller that was told of
success, differing only in the bit of one that was told of a failure.

`Wire_proofs` is about both services of `ble_link.c` and EXTENDS `Wire` and `CodexLink`; that is why the
names of `CodexLink` that a specification usually has begin with `Codex` (`CodexSpec`). Of `Wire`:

* `WireImplementsStream`: `Spec => FramesAreAStream`, a step lemma for each action. `StreamInv` orders the
  fragments in the channel: those of a frame by their index, frames by their number, all after what was
  delivered, and before what a sender has still to send. That a delivered frame is later than all
  before it follows because its last fragment leaves the channel first.
* `IntactAlways`: `Spec => []IntactDelivered`. `IntactInv` follows a frame to which nothing happened from end to
  end: `Unbroken` says that its fragments in the channel come one right after the other, that the first of them goes
  on with what the assembly holds, and that what the sender still has goes on with the last; `Quiet` that
  nothing of it is left when there is no connection. `AcceptsNext` shows
  that such a fragment is accepted, so the frame is complete when its last fragment is taken.
* `TypeCorrect`: `Spec => []TypeOK`.

Of `CodexLink`:

* `LinesKept`: `CodexSpec => []LinesAreMessages`. `NativeInv` says that only the holder of the mutex is in the
  middle of a message (`SenderType`), and that a line that is begun is exactly what this task has sent of its
  message, or else some message was cut off and has spoiled no line yet (`LineInv`).
* `RequestsKept`: `CodexSpec => RequestsAreAnswered`. `RequestInv`: of a request that starts with its method and
  is half written the buffer holds just its first report.

`MacController_proofs`: `AlwaysPursued` and `TimersEnd` (`NeverIdle`, `TimersBelongToSession`). Neither is
inductive without the outstanding answers: `SearchInv` and `DiscoveryInv` say that answers end with their
connection and come one after the other, so that none opens a session a second time.

`Panel_proofs`: `PointersKept` and `ScreenCurrent` (`PointersAlive`, `ScreenShowsLatest`), for any numbers of
slots, cards and statuses. The argument is that `ShapeChanged` and the create functions agree:
`SameShapeSameObjects` and `SameShapeSameParts` show that where a page is only refreshed, the new state would
have created the same objects and parts. `ObjectInv` says that the pointers are those of the page's objects,
with the feedback as a whole or not at all. `ChartsCurrent` (`ChartsShowSamples`), for every length of the ring:
`HistoryInv` says that the ring, read from its oldest cell on, holds the last readings of the session, and that
the reading that was applied last is the one that was recorded last.
It needs more than two sequence numbers (`PanelAssumption`; 2^32 in the code): a new reading is told by its number
not being the last one and not 0, and after 1 of two there is no such number.

All theorems rest on the assumptions named in the modules (`...Assumption`: lengths, counters and bounds are
natural numbers, sets have the values they need) and on nothing else but the conditions that
`ViewAgrees` and the theorems of `DeskSession` state in front.

Every invariant and every action property that a run checks is proved. Only model-checked are the liveness
properties, which are out of the prover's reach (fairness, ENABLED): `LinkResolves`, `BeliefHeals`,
`Settles`, `KeepsTrying`, `Converges`, `Recovers`, `Resumes` and `KeysAreReleased`. Because each theorem
is about the safety part of a specification, it holds of its fair form as well.

## External assumptions

NimBLE and CoreBluetooth deliver the fragments of a connection in order, end a connection that is
asked to end, and report its end; `ble_gap_terminate` takes effect when it returns success (a failure
is only logged, `app_main.c:115`). FreeRTOS queues are FIFO. A key from `esp_fill_random` is new; an
HMAC is the key it was made with. In `DeskSession` the device is enrolled. The Wi-Fi driver is as
said above.

CoreBluetooth reports the end of each connection and attempt it was asked to cancel. Codex puts reports together
into lines, ignores a line that is not one whole message, and takes a controller that is gone to hold
no key. LVGL deletes what its parent owns. The file system writes a buffer whole or fails.

## Not modelled

* Drawing, layout, colours and the fonts (over 8000 lines of generated glyphs): no state.
* The parsers of the weather service's and the exchanges' answers, and of the Mac's JSON payloads: a
  payload is accepted or refused as a whole. No property of the system is about their data.
* Advertising that fails to start, the pairing's passkey.
* The panel's and the touch controller's configuration, the numbers of the diagnostics, brightness, mock data.
* On the Mac: the status sources, the windows and the carrying out of actions. They read files and counters and
  draw; the controller polls them.
* Host tests and scripts.

## Plan

Done: the session, the keys, network, public data, storage with the expander, the wire with its
abstract stream, the helper's controller, the screen and the Codex link; each with its proofs.

What would add most next: the slot by which a touch names a task while the helper sorts its list anew
(`AIStatusMonitor.swift:473`), and an abstract specification of the enrollment, implemented by `AppAuth`.
