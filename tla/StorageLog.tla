------------------------------ MODULE StorageLog -----------------------------
(***************************************************************************)
(* storage.c and log_policy.c: the queue into which other tasks log, the   *)
(* storage task that mounts the card, writes, rotates and flushes the      *)
(* files and mounts again after an error; the font loader, which waits for *)
(* the card.  Composed with the expander, whose SD_CHIP_SELECT bit the     *)
(* storage task drives while the supervisor switches the backlight.        *)
(*                                                                         *)
(* A log record is the bucket of its time; every record takes one unit of  *)
(* a file.                                                                 *)
(***************************************************************************)
EXTENDS BoardExpander, Sequences

CONSTANTS
  Bucket,          \* buckets of desk_log_bucket_key: "boot" and days
  LogQueueLength,  \* LOG_QUEUE_LENGTH
  FlushEntries,    \* LOG_FLUSH_ENTRY_COUNT
  RotateSize,      \* LOG_ROTATE_BYTES in records
  MaxLogs,         \* bound: calls of desk_storage_log
  MaxSwitches      \* bound: calls of desk_board_backlight_set

\* The bucket of a time that localtime_r does not convert.
NoBucket == "none"

ASSUME StorageLogAssumption ==
  /\ NoBucket \notin Bucket
  /\ LogQueueLength \in Nat \ {0}
  /\ FlushEntries \in Nat \ {0}
  /\ RotateSize \in Nat
  /\ MaxLogs \in Nat
  /\ MaxSwitches \in Nat

VARIABLES
  task,        \* where storage_task stands
  state,       \* storage_status.state
  mounted,     \* storage_status.mounted
  card,        \* context.card: the file system is mounted
  logQueue,    \* log_queue
  entry,       \* the record that the task has received, or NoBucket
  logFile,     \* log_file is open
  bucket,      \* active_bucket
  segment,     \* segment
  bytes,       \* current_bytes
  sinceFlush,  \* entries_since_flush
  buffered,    \* records in the buffer of log_file
  fileSize,    \* the size of every file on the card
  written,     \* storage_status.written_entries
  dropped,     \* storage_status.dropped_entries
  lost,        \* history: records counted as written that never reached the card
  logs,        \* number of calls of desk_storage_log so far
  font,        \* where font_loader_task stands
  switches     \* number of calls of desk_board_backlight_set so far

fileVars == <<logFile, bucket, segment, bytes, sinceFlush, buffered, fileSize, lost>>
storageVars == <<task, state, mounted, card, logQueue, entry, fileVars, written, dropped,
                 logs, font>>
vars == <<boardVars, storageVars, switches>>

File == Bucket \X (0 .. MaxLogs)

TypeOK ==
  /\ BoardTypeOK
  /\ task \in {"start", "mount", "select", "card", "receive", "sort", "rotate", "open",
               "write", "flush", "unmount", "deselect", "wait"}
  /\ state \in {"stopped", "mounting", "ready", "retryWait"}
  /\ mounted \in BOOLEAN
  /\ card \in BOOLEAN
  /\ logQueue \in Seq(Bucket \cup {NoBucket})
  /\ Len(logQueue) <= LogQueueLength
  /\ entry \in Bucket \cup {NoBucket}
  /\ logFile \in BOOLEAN
  /\ bucket \in Bucket \cup {NoBucket}
  /\ segment \in 0 .. MaxLogs
  /\ bytes \in Nat
  /\ sinceFlush \in 0 .. FlushEntries
  /\ buffered \in 0 .. FlushEntries
  /\ fileSize \in [File -> Nat]
  /\ written \in Nat
  /\ dropped \in Nat
  /\ lost \in Nat
  /\ logs \in 0 .. MaxLogs
  /\ font \in {"wait", "load", "loaded"}
  /\ switches \in 0 .. MaxSwitches

Init ==
  /\ BoardInit
  /\ task = "start"
  /\ state = "stopped"
  /\ mounted = FALSE
  /\ card = FALSE
  /\ logQueue = <<>>
  /\ entry = NoBucket
  /\ logFile = FALSE
  /\ bucket = NoBucket
  /\ segment = 0
  /\ bytes = 0
  /\ sinceFlush = 0
  /\ buffered = 0
  /\ fileSize = [f \in File |-> 0]
  /\ written = 0
  /\ dropped = 0
  /\ lost = 0
  /\ logs = 0
  /\ font = "wait"
  /\ switches = 0

------------------------------------------------------------------------------
(* The other tasks                                                          *)

HasRoom == Len(logQueue) < LogQueueLength

\* desk_storage_log never waits: a record for which there is no room is dropped.
Log(b) ==
  /\ task # "start"
  /\ logs < MaxLogs
  /\ logs' = logs + 1
  /\ IF HasRoom
     THEN logQueue' = Append(logQueue, b) /\ UNCHANGED dropped
     ELSE dropped' = dropped + 1 /\ UNCHANGED logQueue
  /\ UNCHANGED <<boardVars, task, state, mounted, card, entry, fileVars, written, font,
                 switches>>

SwitchBacklight(enabled) ==
  /\ boot = "up"
  /\ switches < MaxSwitches
  /\ switches' = switches + 1
  /\ BacklightSet(enabled)
  /\ UNCHANGED <<boot, register, shadow, outputMutex, faults, storageVars>>

\* font_loader_task looks at the mounted flag, then reads the card for long.
FontWaits ==
  /\ task # "start"
  /\ font = "wait"
  /\ mounted
  /\ font' = "load"
  /\ UNCHANGED <<boardVars, task, state, mounted, card, logQueue, entry, fileVars, written,
                 dropped, logs, switches>>

FontLoads ==
  /\ font = "load"
  /\ \/ card /\ font' = "loaded" /\ UNCHANGED faults
     \/ ~card /\ font' = "wait" /\ UNCHANGED faults
     \/ Fault /\ font' = "wait"
  /\ UNCHANGED <<boot, register, shadow, outputMutex, update, task, state, mounted, card,
                 logQueue, entry, fileVars, written, dropped, logs, switches>>

------------------------------------------------------------------------------
(* What storage_task does to the open file                                  *)

Reaches(n) == fileSize' = [fileSize EXCEPT ![<<bucket, segment>>] = @ + n]

\* fclose, whose result is nowhere looked at: what is in the buffer is lost
\* if it cannot be written.
ClosesFile ==
  /\ logFile' = FALSE
  /\ buffered' = 0
  /\ \/ logFile /\ Reaches(buffered) /\ UNCHANGED <<lost, faults>>
     \/ logFile /\ Fault /\ lost' = lost + buffered /\ UNCHANGED fileSize
     \/ ~logFile /\ UNCHANGED <<fileSize, lost, faults>>

\* fflush that succeeds, and one that fails when some of the records have been
\* written; the C library may or may not keep the others.
Flushes == Reaches(buffered) /\ buffered' = 0 /\ UNCHANGED <<lost, faults>>
FlushFails ==
  /\ Fault
  /\ \E n \in 0 .. buffered, kept \in BOOLEAN :
       /\ Reaches(n)
       /\ buffered' = IF kept THEN buffered - n ELSE 0
       /\ lost' = IF kept THEN lost ELSE lost + buffered - n

------------------------------------------------------------------------------
(* storage_task: mounting and unmounting                                    *)

Goes(to) == task' = to
TakesState(s) == state' = s /\ mounted' = (s = "ready")

\* desk_storage_start, once app_main has got that far.
Starts ==
  /\ boot = "up"
  /\ task = "start"
  /\ Goes("mount")
  /\ UNCHANGED <<boardVars, state, mounted, card, logQueue, entry, fileVars, written,
                 dropped, logs, font, switches>>

\* mount_card
Mounts ==
  /\ task = "mount"
  /\ TakesState("mounting")
  /\ SdSelect(TRUE)
  /\ Goes("select")
  /\ UNCHANGED <<boot, register, shadow, outputMutex, faults, card, logQueue, entry,
                 fileVars, written, dropped, logs, font, switches>>

Selects ==
  /\ task = "select"
  /\ Idle("storage")
  /\ IF update["storage"].ok
     THEN Goes("card") /\ UNCHANGED <<state, mounted>>
     ELSE TakesState("retryWait") /\ Goes("wait")
  /\ UNCHANGED <<boardVars, card, logQueue, entry, fileVars, written, dropped, logs, font,
                 switches>>

\* The SPI bus, the file system and the four directories.
MountsCard ==
  /\ task = "card"
  /\ card' = TRUE
  /\ TakesState("ready")
  /\ Goes("receive")
  /\ UNCHANGED <<boardVars, logQueue, entry, fileVars, written, dropped, logs, font,
                 switches>>

MountFails ==
  /\ task = "card"
  /\ Fault
  /\ SdSelect(FALSE)
  /\ Goes("deselect")
  /\ UNCHANGED <<boot, register, shadow, outputMutex, state, mounted, card, logQueue, entry,
                 fileVars, written, dropped, logs, font, switches>>

\* What an error leads to: fclose, which may lose what is in the buffer, and
\* unmount_card.  The variables of the open file end with it.
Unmounts ==
  /\ task = "unmount"
  /\ ClosesFile
  /\ bucket' = NoBucket
  /\ segment' = 0
  /\ bytes' = 0
  /\ sinceFlush' = 0
  /\ card' = FALSE
  /\ SdSelect(FALSE)
  /\ Goes("deselect")
  /\ UNCHANGED <<boot, register, shadow, outputMutex, state, mounted, logQueue, entry,
                 written, dropped, logs, font, switches>>

\* The result of the deselection is not looked at.
Deselects ==
  /\ task = "deselect"
  /\ Idle("storage")
  /\ TakesState("retryWait")
  /\ Goes("wait")
  /\ UNCHANGED <<boardVars, card, logQueue, entry, fileVars, written, dropped, logs, font,
                 switches>>

\* vTaskDelay(MOUNT_RETRY_INTERVAL_MS)
Waits ==
  /\ task = "wait"
  /\ Goes("mount")
  /\ UNCHANGED <<boardVars, state, mounted, card, logQueue, entry, fileVars, written, dropped,
                 logs, font, switches>>

------------------------------------------------------------------------------
(* storage_task: the records                                                *)

\* xQueueReceive, and its timeout, after which what is in the buffer is flushed.
Receives ==
  /\ task = "receive"
  /\ logQueue # <<>>
  /\ entry' = Head(logQueue)
  /\ logQueue' = Tail(logQueue)
  /\ Goes("sort")
  /\ UNCHANGED <<boardVars, state, mounted, card, fileVars, written, dropped, logs, font,
                 switches>>

\* Mutant: a timeout flushes nothing.
IdleForgets == UNCHANGED <<fileSize, buffered, lost, faults>>
IdleFlushes == Flushes

ReceivesNothing ==
  /\ task = "receive"
  /\ logQueue = <<>>
  /\ sinceFlush' = 0
  /\ \/ logFile /\ IdleFlushes /\ UNCHANGED task
     \/ logFile /\ FlushFails /\ Goes("unmount")
     \/ ~logFile /\ UNCHANGED <<task, fileSize, buffered, lost, faults>>
  /\ UNCHANGED <<boot, register, shadow, outputMutex, update, state, mounted, card, logQueue,
                 entry, logFile, bucket, segment, bytes, written, dropped, logs, font,
                 switches>>

\* The record is counted as dropped and let go; a mutant does not count it.
DropsUncounted == entry' = NoBucket /\ UNCHANGED <<dropped, written>>
Drops == dropped' = dropped + 1 /\ entry' = NoBucket /\ UNCHANGED written

\* desk_log_bucket_key and the change of the bucket
SortsOut ==
  /\ task = "sort"
  /\ entry = NoBucket
  /\ Drops
  /\ Goes("receive")
  /\ UNCHANGED <<boardVars, state, mounted, card, logQueue, fileVars, logs, font, switches>>

Sorts ==
  /\ task = "sort"
  /\ entry # NoBucket
  /\ IF bucket # entry
     THEN ClosesFile /\ bucket' = entry /\ segment' = 0 /\ bytes' = 0
     ELSE UNCHANGED <<logFile, buffered, fileSize, lost, faults, bucket, segment, bytes>>
  /\ Goes("rotate")
  /\ UNCHANGED <<boot, register, shadow, outputMutex, update, state, mounted, card, logQueue,
                 entry, sinceFlush, written, dropped, logs, font, switches>>

\* desk_log_should_rotate for one more record
ShouldRotate == RotateSize = 0 \/ bytes >= RotateSize \/ 1 >= RotateSize - bytes

Rotates ==
  /\ task = "rotate"
  /\ IF logFile /\ ShouldRotate
     THEN ClosesFile /\ segment' = segment + 1 /\ bytes' = 0
     ELSE UNCHANGED <<logFile, buffered, fileSize, lost, faults, segment, bytes>>
  /\ Goes(IF logFile' THEN "write" ELSE "open")
  /\ UNCHANGED <<boot, register, shadow, outputMutex, update, state, mounted, card, logQueue,
                 entry, bucket, sinceFlush, written, dropped, logs, font, switches>>

\* open_log_file appends to a file that an earlier mount has begun.
Opens ==
  /\ task = "open"
  /\ \/ /\ logFile' = TRUE
        /\ bytes' = fileSize[<<bucket, segment>>]
        /\ Goes("write")
        /\ UNCHANGED <<entry, written, dropped, faults>>
     \/ Fault /\ Drops /\ Goes("unmount") /\ UNCHANGED <<logFile, bytes>>
  /\ UNCHANGED <<boot, register, shadow, outputMutex, update, state, mounted, card, logQueue,
                 bucket, segment, sinceFlush, buffered, fileSize, lost, logs, font, switches>>

\* Mutant: a flush one record late.
FlushIsDueLate(n) == n > FlushEntries
FlushIsDue(n) == n >= FlushEntries

\* write_log_entry
Writes ==
  /\ task = "write"
  /\ \/ /\ buffered' = buffered + 1
        /\ bytes' = bytes + 1
        /\ written' = written + 1
        /\ sinceFlush' = sinceFlush + 1
        /\ entry' = NoBucket
        /\ Goes(IF FlushIsDue(sinceFlush + 1) THEN "flush" ELSE "receive")
        /\ UNCHANGED <<dropped, faults>>
     \/ Fault /\ Drops /\ Goes("unmount") /\ UNCHANGED <<buffered, bytes, sinceFlush>>
  /\ UNCHANGED <<boot, register, shadow, outputMutex, update, state, mounted, card, logQueue,
                 logFile, bucket, segment, fileSize, lost, logs, font, switches>>

FlushesBatch ==
  /\ task = "flush"
  /\ sinceFlush' = 0
  /\ \/ Flushes /\ Goes("receive")
     \/ FlushFails /\ Goes("unmount")
  /\ UNCHANGED <<boot, register, shadow, outputMutex, update, state, mounted, card, logQueue,
                 entry, logFile, bucket, segment, bytes, written, dropped, logs, font,
                 switches>>

StorageTask ==
  \/ Starts
  \/ Mounts
  \/ Selects
  \/ MountsCard
  \/ MountFails
  \/ Unmounts
  \/ Deselects
  \/ Waits
  \/ Receives
  \/ ReceivesNothing
  \/ SortsOut
  \/ Sorts
  \/ Rotates
  \/ Opens
  \/ Writes
  \/ FlushesBatch

Board == Boots \/ \E c \in Caller : UpdatesOutput(c)

Next ==
  \/ Board /\ UNCHANGED <<storageVars, switches>>
  \/ StorageTask
  \/ \E b \in Bucket \cup {NoBucket} : Log(b)
  \/ \E enabled \in BOOLEAN : SwitchBacklight(enabled)
  \/ FontWaits
  \/ FontLoads

Spec == Init /\ [][Next]_vars

\* The tasks run and their waits end.  Nobody has to log, and nobody waits for
\* the expander for ever, since its mutex is held for one transfer only.
FairSpec ==
  /\ Spec
  /\ WF_vars(Boots /\ UNCHANGED <<storageVars, switches>>)
  /\ WF_vars(UpdatesOutput("supervisor") /\ UNCHANGED <<storageVars, switches>>)
  /\ WF_vars(UpdatesOutput("storage") /\ UNCHANGED <<storageVars, switches>>)
  /\ WF_vars(StorageTask)
  /\ WF_vars(FontWaits)
  /\ WF_vars(FontLoads)

------------------------------------------------------------------------------
(* Properties                                                               *)

InHand == IF task \in {"sort", "rotate", "open", "write"} THEN 1 ELSE 0

\* No record disappears between the tasks that log, the queue and the storage
\* task, whichever step fails: each is waiting, being written or in one of the
\* two counters that the diagnostics show.
LossAccounted == logs = Len(logQueue) + InHand + written + dropped

\* What the counters hide is bounded: a failure costs at most one batch of the
\* records that are counted as written, however closing, flushing, changing the
\* file and mounting again follow each other.
SilentLossBounded == lost <= FlushEntries * faults

\* After the last failure the card is mounted again, all that is queued or
\* buffered reaches it, and the font is loaded.
Recovers == <>[](logQueue = <<>> /\ InHand = 0 /\ buffered = 0 /\ font = "loaded")
==============================================================================
