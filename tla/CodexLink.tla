------------------------------ MODULE CodexLink ------------------------------
(***************************************************************************)
(* The native controls of Codex: touches held on the screen (ui.c), the    *)
(* touch queue and handle_ui_action (app_main.c), and the HID service of   *)
(* ble_link.c over which the supervisor sends keys while the NimBLE host   *)
(* task answers the requests of Codex.  codex_notify_json cuts a message   *)
(* into reports and is shared by both tasks under a mutex; the connection  *)
(* is looked up anew for each report and may change in between.            *)
(*                                                                         *)
(* External: Codex assembles reports into lines, and a line that is not    *)
(* one whole message is of no effect; it takes a controller that           *)
(* disconnects to hold no key.  A report is written to a connection or     *)
(* lost with it, never reordered.                                          *)
(***************************************************************************)
EXTENDS Integers, Sequences, FiniteSets

CONSTANTS
  TouchQueueLength,  \* length of runtime.ui_action_queue
  BufferReports,     \* CODEX_RPC_BUFFER_SIZE, in reports
  MaxCodexFaults     \* bound: notifications that fail on a live connection
                     \* and cancelled subscriptions

ASSUME CodexAssumption ==
  /\ TouchQueueLength \in Nat \ {0}
  /\ BufferReports \in Nat \ {0, 1}
  /\ MaxCodexFaults \in Nat

VARIABLES
  finger,      \* the microphone key is held on the screen
  touches,     \* runtime.ui_action_queue
  active,      \* runtime.privacy.state is ACTIVE, and the touch is enabled
  link,        \* the members of link_state that the HID service uses
  sender,      \* for each task: the messages it has still to send, how much of
               \* the first one is sent, and (ghost) whether the connection
               \* that got it is gone
  mutex,       \* who holds codex_send_mutex
  request,     \* the request that Codex is writing
  buffer,      \* codex_rpc_buffer
  codex,       \* what Codex has received over this connection
  excused,     \* ghost: keys whose last release did not get through
  failures,    \* failed notifications and cancelled subscriptions
  cuts         \* ghost: messages of which this connection got only a part

codexVars == <<finger, touches, active, link, sender, mutex, request, buffer,
               codex, excused, failures, cuts>>

------------------------------------------------------------------------------
(* Messages                                                                 *)

Task == {"supervisor", "host"}

Touch == {"MIC_PRESS", "MIC_RELEASE", "TASK"}

Down(key) == [type |-> "DOWN", key |-> key, reports |-> 1]
Up(key)   == [type |-> "UP", key |-> key, reports |-> 1]
Response(reports) == [type |-> "RESPONSE", key |-> "NONE", reports |-> reports]

\* The JSON of a key fits one report, the answer to device.status needs two.
Message == {Down("MIC"), Up("MIC"), Down("AG"), Up("AG"), Response(1), Response(2)}

\* Mutant: a tap that presses its key and does not release it.
KeysPressOnly(action) ==
  CASE action = "MIC_PRESS"   -> <<Down("MIC")>>
    [] action = "MIC_RELEASE" -> <<Up("MIC")>>
    [] action = "TASK"        -> <<Down("AG")>>

\* What handle_ui_action sends: the two ends of a held key one by one, the
\* key of a task as a tap.  The other commands are taps like it.
Keys(action) ==
  CASE action = "MIC_PRESS"   -> <<Down("MIC")>>
    [] action = "MIC_RELEASE" -> <<Up("MIC")>>
    [] action = "TASK"        -> <<Down("AG"), Up("AG")>>

\* A request of Codex: whether its text starts with {"method", and in how many
\* reports it is written.
Request == [method : {"device.status", "thstatus"}, leads : BOOLEAN]

Reports(r) == IF r.method = "thstatus" THEN 2 ELSE 1

\* handle_codex_rpc
Answer(r) == IF r.method = "device.status" THEN Response(2) ELSE Response(1)

NoRequest == [of |-> [method |-> "NONE", leads |-> FALSE], written |-> 0]

Idle == [job |-> <<>>, sent |-> 0, cut |-> FALSE]

\* What Codex knows of a new connection.
NothingReceived == [line |-> <<>>, held |-> {}, spoiled |-> 0]

NotConnected == [up |-> FALSE, subscribed |-> FALSE]

CodexInit ==
  /\ finger = FALSE
  /\ touches = <<>>
  /\ active = FALSE
  /\ link = NotConnected
  /\ sender = [t \in Task |-> Idle]
  /\ mutex = "free"
  /\ request = NoRequest
  /\ buffer = <<>>
  /\ codex = NothingReceived
  /\ excused = {}
  /\ failures = 0
  /\ cuts = 0

------------------------------------------------------------------------------
(* The screen                                                               *)

\* queue_ui_action: an action for which there is no room is dropped.
Queued(action) ==
  IF Len(touches) < TouchQueueLength THEN Append(touches, action) ELSE touches

screenUnchanged == <<active, link, sender, mutex, request, buffer, codex, failures, cuts>>

\* LV_EVENT_PRESSED of the microphone key
Press ==
  /\ active
  /\ ~finger
  /\ finger' = TRUE
  /\ touches' = Queued("MIC_PRESS")
  /\ excused' = excused \ {"MIC"}
  /\ UNCHANGED screenUnchanged

\* LV_EVENT_RELEASED, or PRESS_LOST when the finger slides off the key.
Release ==
  /\ finger
  /\ finger' = FALSE
  /\ touches' = Queued("MIC_RELEASE")
  /\ excused' = IF touches' = touches THEN excused \cup {"MIC"} ELSE excused
  /\ UNCHANGED screenUnchanged

\* The touch was disabled under the finger: LVGL reports nothing any more.
ReleaseUnseen ==
  /\ finger
  /\ ~active
  /\ finger' = FALSE
  /\ excused' = excused \cup {"MIC"}
  /\ UNCHANGED <<touches>>
  /\ UNCHANGED screenUnchanged

\* LV_EVENT_CLICKED of a task
Tap ==
  /\ active
  /\ ~finger
  /\ touches' = Queued("TASK")
  /\ UNCHANGED <<finger, excused>>
  /\ UNCHANGED screenUnchanged

------------------------------------------------------------------------------
(* The supervisor's loop                                                    *)

SupervisorIdle == sender["supervisor"] = Idle

\* AUTH_SUCCEEDED
Opens ==
  /\ SupervisorIdle
  /\ ~active
  /\ link.up
  /\ active' = TRUE
  /\ UNCHANGED <<finger, touches, link, sender, mutex, request, buffer, codex,
                 excused, failures, cuts>>

\* Any event that locks.  MAC_LOCKED leaves the connection to the Mac alone.
Locks ==
  /\ SupervisorIdle
  /\ active
  /\ active' = FALSE
  /\ UNCHANGED <<finger, touches, link, sender, mutex, request, buffer, codex,
                 excused, failures, cuts>>

\* The loop takes an action; handle_ui_action drops it unless ACTIVE.
TakesTouch ==
  /\ SupervisorIdle
  /\ touches # <<>>
  /\ touches' = Tail(touches)
  /\ IF active
     THEN /\ sender' = [sender EXCEPT !["supervisor"].job = Keys(Head(touches))]
          /\ excused' = IF Head(touches) = "TASK" THEN excused \ {"AG"} ELSE excused
     ELSE /\ excused' = IF Head(touches) = "MIC_RELEASE"
                        THEN excused \cup {"MIC"} ELSE excused
          /\ UNCHANGED sender
  /\ UNCHANGED <<finger, active, link, mutex, request, buffer, codex, failures, cuts>>

------------------------------------------------------------------------------
(* codex_notify_json                                                        *)

Sending(t) == Head(sender[t].job)

CanNotify == link.up /\ link.subscribed

\* Mutant: codex_notify_json takes no mutex.
TakesMutexFreely(t) ==
  /\ sender[t].job # <<>>
  /\ mutex # t
  /\ mutex' = t

\* The mutex comes first; after 500 ms the call gives up.
TakesMutex(t) ==
  /\ sender[t].job # <<>>
  /\ mutex = "free"
  /\ mutex' = t

StartsSending(t) ==
  /\ TakesMutex(t)
  /\ UNCHANGED <<finger, touches, active, link, sender, request, buffer, codex,
                 excused, failures, cuts>>

\* The keys whose release the rest of a job would have sent.
ReleasesIn(job) == {job[i].key : i \in {j \in DOMAIN job : job[j].type = "UP"}}

\* The rest of a tap is not sent after a failure: send_codex_key_tap returns.
\* For a task handle_ui_action then asks the Mac's helper instead.
Abandons(t) ==
  /\ sender' = [sender EXCEPT ![t] = Idle]
  /\ excused' = excused \cup ReleasesIn(sender[t].job)
  /\ cuts' = IF sender[t].sent > 0 /\ ~sender[t].cut THEN cuts + 1 ELSE cuts

SendTimesOut(t) ==
  /\ sender[t].job # <<>>
  /\ mutex \notin {"free", t}
  /\ Abandons(t)
  /\ UNCHANGED <<finger, touches, active, link, mutex, request, buffer, codex, failures>>

\* ble_gatts_notify_custom fails, or there is no memory for the report.
NotifyFails(t) ==
  /\ mutex = t
  /\ ~CanNotify \/ failures < MaxCodexFaults
  /\ failures' = IF CanNotify THEN failures + 1 ELSE failures
  /\ mutex' = "free"
  /\ Abandons(t)
  /\ UNCHANGED <<finger, touches, active, link, request, buffer, codex>>

\* Codex appends a report to its line.  A report ends a line if it is the last
\* of its message; the line counts if it is that message and nothing else.
Received(message, index) ==
  LET line == Append(codex.line, [of |-> message, index |-> index])
      whole == /\ Len(line) = message.reports
               /\ \A i \in DOMAIN line : line[i] = [of |-> message, index |-> i]
  IN  IF index < message.reports THEN [codex EXCEPT !.line = line]
      ELSE [line |-> <<>>,
            held |-> CASE whole /\ message.type = "DOWN" -> codex.held \cup {message.key}
                       [] whole /\ message.type = "UP"   -> codex.held \ {message.key}
                       [] OTHER                          -> codex.held,
            spoiled |-> IF whole THEN codex.spoiled ELSE codex.spoiled + 1]

\* One round of the loop: the report goes to whichever connection there is.
Notify(t) ==
  /\ mutex = t
  /\ CanNotify
  /\ LET message == Sending(t)
         index == sender[t].sent + 1
     IN  /\ codex' = Received(message, index)
         /\ IF index < message.reports
            THEN /\ sender' = [sender EXCEPT ![t].sent = index]
                 /\ UNCHANGED <<mutex, cuts>>
            ELSE /\ sender' = [sender EXCEPT ![t] = [Idle EXCEPT !.job = Tail(sender[t].job)]]
                 /\ mutex' = "free"
                 /\ cuts' = IF sender[t].cut THEN cuts + 1 ELSE cuts
         /\ excused' = IF codex'.spoiled > codex.spoiled /\ message.type = "UP"
                       THEN excused \cup {message.key} ELSE excused
  /\ UNCHANGED <<finger, touches, active, link, request, buffer, failures>>

------------------------------------------------------------------------------
(* The NimBLE host task, which handles no event while it sends an answer     *)

HostIdle == sender["host"] = Idle

\* codex_report_written on an empty buffer: what comes before the first brace
\* is skipped.  A report that goes on with a request whose beginning is not
\* there may hold no brace, an object that is parsed for a request, or noise.
StartsBuffer(report) ==
  IF report.index = 1 THEN {<<report>>}
  ELSE {<<>>, <<[report EXCEPT !.index = 0]>>, <<report>>}

\* cJSON parses the buffer as soon as it starts with all of a request.
Parses(reports) ==
  /\ reports # <<>>
  /\ \/ reports[1].index = 0
     \/ /\ Len(reports) >= Reports(reports[1].of)
        /\ \A i \in 1 .. Reports(reports[1].of) :
             reports[i] = [of |-> reports[1].of, index |-> i]

\* Mutant: a request does not displace what is left of an earlier one.
FitsAsIs(report) == buffer
\* A report that starts with {"method" displaces what the buffer holds.
Fits(report) == IF report.index = 1 /\ report.of.leads THEN <<>> ELSE buffer

\* The buffer after a report; it is emptied when it is full.
Appended(report) ==
  LET kept == Fits(report)
  IN  IF kept = <<>> THEN StartsBuffer(report)
      ELSE IF Len(kept) = BufferReports THEN {<<>>}
      ELSE {Append(kept, report)}

\* Codex writes a report of a request, and codex_report_written handles it: a
\* request that parses is answered, an unknown method with an error.
ReportWritten(of) ==
  /\ link.up
  /\ HostIdle
  /\ request = NoRequest \/ request.of = of
  /\ LET report == [of |-> of, index |-> request.written + 1]
     IN  /\ request' = IF report.index = Reports(of) THEN NoRequest
                       ELSE [of |-> of, written |-> report.index]
         /\ \E after \in Appended(report) :
              IF Parses(after)
              THEN /\ buffer' = <<>>
                   /\ sender' = [sender EXCEPT !["host"].job =
                        <<IF after[1].index = 0 THEN Response(1) ELSE Answer(after[1].of)>>]
              ELSE /\ buffer' = after
                   /\ UNCHANGED sender
  /\ UNCHANGED <<finger, touches, active, link, mutex, codex, excused, failures, cuts>>

\* BLE_GAP_EVENT_CONNECT and the encryption of the link
GapConnects ==
  /\ HostIdle
  /\ ~link.up
  /\ link' = [link EXCEPT !.up = TRUE]
  /\ UNCHANGED <<finger, touches, active, sender, mutex, request, buffer, codex,
                 excused, failures, cuts>>

\* BLE_GAP_EVENT_SUBSCRIBE for the input report.  NimBLE may restore the
\* subscription of a bonded Mac before it reports the connection.
GapSubscribes ==
  /\ HostIdle
  /\ link.up \/ ~link.subscribed
  /\ link' = [link EXCEPT !.subscribed = ~@]
  /\ failures' = IF link.subscribed THEN failures + 1 ELSE failures
  /\ failures' <= MaxCodexFaults
  /\ UNCHANGED <<finger, touches, active, sender, mutex, request, buffer, codex,
                 excused, cuts>>

\* BLE_GAP_EVENT_DISCONNECT: the RPC buffer is left as it is.
GapDisconnects ==
  /\ HostIdle
  /\ link.up
  /\ link' = NotConnected
  /\ request' = NoRequest
  /\ codex' = NothingReceived
  /\ sender' = [t \in Task |-> [sender[t] EXCEPT !.cut = sender[t].sent > 0]]
  /\ cuts' = 0
  /\ UNCHANGED <<finger, touches, active, mutex, buffer, excused, failures>>

SendStep(t) == StartsSending(t) \/ Notify(t) \/ NotifyFails(t)

CodexNext ==
  \/ Press \/ Release \/ ReleaseUnseen \/ Tap
  \/ Opens \/ Locks \/ TakesTouch
  \/ \E t \in Task : StartsSending(t) \/ SendTimesOut(t) \/ NotifyFails(t) \/ Notify(t)
  \/ \E of \in Request : ReportWritten(of)
  \/ GapConnects \/ GapSubscribes \/ GapDisconnects

CodexSpec == CodexInit /\ [][CodexNext]_codexVars

\* Both tasks run on, and the scheduler lets a task that waits for the mutex
\* have it in the end.
CodexFairSpec ==
  /\ CodexSpec
  /\ WF_codexVars(TakesTouch)
  /\ \A t \in Task : SF_codexVars(SendStep(t))

------------------------------------------------------------------------------
(* Properties                                                               *)

CodexTypeOK ==
  /\ {finger, active} \subseteq BOOLEAN
  /\ touches \in Seq(Touch) /\ Len(touches) <= TouchQueueLength
  /\ link \in [up : BOOLEAN, subscribed : BOOLEAN]
  /\ \A t \in Task : /\ sender[t].job \in Seq(Message)
                     /\ sender[t].job = <<>> => sender[t].sent = 0
                     /\ sender[t].job # <<>> => sender[t].sent < Sending(t).reports
  /\ mutex \in Task \cup {"free"}
  /\ request.written \in 0 .. 1
  /\ Len(buffer) <= BufferReports
  /\ codex.held \subseteq {"MIC", "AG"} /\ excused \subseteq {"MIC", "AG"}

\* Keys and answers are never mixed up in one line, although two tasks send
\* them report by report: a line is spoiled only by a message that was cut off,
\* and each of those spoils no more than one.
LinesAreMessages == codex.spoiled <= cuts

\* A request that starts with its method and arrives in one connection is
\* answered, whatever an earlier one left in the buffer.
RequestsAreAnswered ==
  [][\A of \in Request :
       of.leads /\ ReportWritten(of) /\ request' = NoRequest
         => sender'["host"].job = <<Answer(of)>>]_codexVars

\* Once the finger is up, the key does not stay down in Codex, unless its
\* release was lost: to a full queue, a lock, a failed or a spoiled report.
KeysAreReleased ==
  /\ "MIC" \in codex.held /\ ~finger
       ~> "MIC" \notin codex.held \/ "MIC" \in excused \/ finger
  /\ "AG" \in codex.held ~> "AG" \notin codex.held \/ "AG" \in excused
==============================================================================
