-------------------------- MODULE StorageLog_proofs --------------------------
(***************************************************************************)
(* Proofs about StorageLog and the BoardExpander it contains: that every   *)
(* record is accounted for, that the silent loss is bounded by the         *)
(* failures, and that the expander puts out what its callers were told.    *)
(***************************************************************************)
EXTENDS StorageLog, TLAPS

------------------------------------------------------------------------------
(* Records                                                                  *)

Tasks ==
  {"start", "mount", "select", "card", "receive", "sort", "rotate", "open", "write",
   "flush", "unmount", "deselect", "wait"}

\* A record in hand is one of the four steps' between the queue and the file.
LossInv ==
  /\ task \in Tasks
  /\ logQueue \in Seq(Bucket \cup {NoBucket})
  /\ written \in Nat
  /\ dropped \in Nat
  /\ logs \in Nat
  /\ logs = Len(logQueue) + InHand + written + dropped

LEMMA AppendLength ==
  ASSUME NEW S, NEW q \in Seq(S), NEW e \in S
  PROVE  Append(q, e) \in Seq(S) /\ Len(Append(q, e)) = Len(q) + 1
  OBVIOUS

LEMMA TailLength ==
  ASSUME NEW S, NEW q \in Seq(S), q # <<>>
  PROVE  Tail(q) \in Seq(S) /\ Len(q) = Len(Tail(q)) + 1 /\ Len(Tail(q)) \in Nat
  OBVIOUS

\* Every record that was handed to desk_storage_log is waiting, in hand or counted.
LEMMA LossStep == LossInv /\ [Next]_vars => LossInv'
<1> SUFFICES ASSUME LossInv, [Next]_vars PROVE LossInv'
  OBVIOUS
<1> USE DEF LossInv, InHand, Tasks, Goes
<1>0. Len(logQueue) \in Nat
  OBVIOUS
<1>1. CASE Board /\ UNCHANGED <<storageVars, switches>>
  BY <1>1 DEF storageVars
<1>2. CASE Starts
  BY <1>0, <1>2 DEF Starts
<1>3. CASE Mounts
  BY <1>0, <1>3 DEF Mounts
<1>4. CASE Selects
  BY <1>0, <1>4 DEF Selects
<1>5. CASE MountsCard
  BY <1>0, <1>5 DEF MountsCard
<1>6. CASE MountFails
  BY <1>0, <1>6 DEF MountFails
<1>7. CASE Unmounts
  BY <1>0, <1>7 DEF Unmounts
<1>8. CASE Deselects
  BY <1>0, <1>8 DEF Deselects
<1>9. CASE Waits
  BY <1>0, <1>9 DEF Waits
<1>10. CASE Receives
  BY <1>0, <1>10, TailLength DEF Receives
<1>11. CASE ReceivesNothing
  BY <1>0, <1>11 DEF ReceivesNothing
<1>12. CASE SortsOut
  BY <1>0, <1>12 DEF SortsOut, Drops
<1>13. CASE Sorts
  BY <1>0, <1>13 DEF Sorts
<1>14. CASE Rotates
  BY <1>0, <1>14 DEF Rotates
<1>15. CASE Opens
  BY <1>0, <1>15 DEF Opens, Drops
<1>16. CASE Writes
  BY <1>0, <1>16 DEF Writes, Drops
<1>17. CASE FlushesBatch
  BY <1>0, <1>17 DEF FlushesBatch
<1>18. ASSUME NEW b \in Bucket \cup {NoBucket}, Log(b) PROVE LossInv'
  <2>1. CASE HasRoom
    BY <1>0, <1>18, <2>1, AppendLength DEF Log
  <2>2. CASE ~HasRoom
    BY <1>0, <1>18, <2>2 DEF Log
  <2> QED BY <2>1, <2>2
<1>19. ASSUME NEW enabled \in BOOLEAN, SwitchBacklight(enabled) PROVE LossInv'
  BY <1>19 DEF SwitchBacklight, storageVars
<1>20. CASE FontWaits
  BY <1>20 DEF FontWaits
<1>21. CASE FontLoads
  BY <1>21 DEF FontLoads
<1>22. CASE UNCHANGED vars
  BY <1>22 DEF vars, storageVars
<1> QED
  BY <1>1, <1>2, <1>3, <1>4, <1>5, <1>6, <1>7, <1>8, <1>9, <1>10, <1>11, <1>12, <1>13,
     <1>14, <1>15, <1>16, <1>17, <1>18, <1>19, <1>20, <1>21, <1>22 DEF Next, StorageTask

\* No record disappears: each is in the queue, in hand or in a counter.
THEOREM RecordsAccounted == Spec => []LossAccounted
<1>1. Init => LossInv
  BY DEF Init, LossInv, InHand, Tasks
<1>2. LossInv => LossAccounted
  BY DEF LossInv, LossAccounted
<1> QED
  BY <1>1, <1>2, LossStep, PTL DEF Spec

------------------------------------------------------------------------------
(* Silent loss                                                              *)

\* The buffer never holds more than one batch, and only a file that could not
\* be flushed keeps a rest that the count of the batch no longer covers.
LossBounded ==
  /\ lost \in Nat
  /\ faults \in Nat
  /\ lost <= FlushEntries * faults

BatchInv ==
  /\ LossBounded
  /\ task \in Tasks
  /\ buffered \in Nat
  /\ sinceFlush \in Nat
  /\ buffered <= FlushEntries
  /\ sinceFlush <= FlushEntries
  /\ task # "unmount" => buffered <= sinceFlush
  /\ task # "flush" => sinceFlush < FlushEntries \/ task = "unmount"
  /\ logFile \/ buffered = 0
  /\ task = "write" => logFile

LEMMA OneBatchMore ==
  ASSUME NEW k \in Nat, NEW n \in Nat, NEW m \in Nat, NEW b \in Nat,
         m <= k * n, b <= k
  PROVE  /\ m + b <= k * (n + 1)
         /\ m <= k * (n + 1)
<1>1. k * (n + 1) = k * n + k
  OBVIOUS
<1> QED
  BY <1>1

LEMMA CloseLoss ==
  ASSUME BatchInv, ClosesFile PROVE LossBounded' /\ buffered' = 0 /\ logFile' = FALSE
<1> USE StorageLogAssumption DEF BatchInv, ClosesFile, LossBounded
<1>1. CASE logFile /\ Reaches(buffered) /\ UNCHANGED <<lost, faults>>
  BY <1>1
<1>2. CASE logFile /\ Fault /\ lost' = lost + buffered /\ UNCHANGED fileSize
  BY <1>2, OneBatchMore DEF Fault
<1>3. CASE ~logFile /\ UNCHANGED <<fileSize, lost, faults>>
  BY <1>3
<1> QED
  BY <1>1, <1>2, <1>3

LEMMA FlushLoss ==
  ASSUME BatchInv, Flushes \/ FlushFails
  PROVE  LossBounded' /\ buffered' \in Nat /\ buffered' <= buffered
<1> USE StorageLogAssumption DEF BatchInv, LossBounded
<1>1. CASE Flushes
  BY <1>1 DEF Flushes
<1>2. CASE FlushFails
  <2>1. PICK n \in 0 .. buffered, kept \in BOOLEAN :
          /\ buffered' = IF kept THEN buffered - n ELSE 0
          /\ lost' = IF kept THEN lost ELSE lost + buffered - n
    BY <1>2 DEF FlushFails
  <2>2. faults' = faults + 1
    BY <1>2 DEF FlushFails, Fault
  <2>3. buffered - n \in Nat /\ buffered - n <= buffered
    OBVIOUS
  <2>4. lost' = lost \/ lost' = lost + (buffered - n)
    BY <2>1
  <2> QED
    BY <2>1, <2>2, <2>3, <2>4, OneBatchMore
<1> QED
  BY <1>1, <1>2

\* An operation that fails without touching the file's buffer.
LEMMA FaultLoss ==
  ASSUME BatchInv, Fault \/ UNCHANGED faults, UNCHANGED lost PROVE LossBounded'
  BY StorageLogAssumption, OneBatchMore DEF BatchInv, LossBounded, Fault

\* Steps of the others, and those of the task that leave the file alone.
LEMMA FileStill ==
  ASSUME BatchInv, UNCHANGED <<lost, buffered, sinceFlush, logFile>>,
         Fault \/ UNCHANGED faults,
         \/ UNCHANGED task
         \/ task' \in Tasks \ {"flush", "unmount", "write"} /\ task \notin {"flush", "unmount"}
  PROVE  BatchInv'
  BY FaultLoss DEF BatchInv

LEMMA BatchStep == BatchInv /\ [Next]_vars => BatchInv'
<1> SUFFICES ASSUME BatchInv, [Next]_vars PROVE BatchInv'
  OBVIOUS
<1> USE StorageLogAssumption DEF Tasks, Goes
<1>1. CASE Board /\ UNCHANGED <<storageVars, switches>>
  <2>1. Fault \/ UNCHANGED faults
    BY <1>1 DEF Board, Boots, BootWrites, BootWriteFails, BootDark, UpdatesOutput,
                WritesMode, TakesOutputMutex, WritesOutput
  <2> QED
    BY <1>1, <2>1, FileStill DEF storageVars, fileVars
<1>2. CASE Starts
  BY <1>2, FileStill DEF Starts, fileVars, boardVars
<1>3. CASE Mounts
  BY <1>3, FileStill DEF Mounts, fileVars
<1>4. CASE Selects
  BY <1>4, FileStill DEF Selects, fileVars, boardVars
<1>5. CASE MountsCard
  BY <1>5, FileStill DEF MountsCard, fileVars, boardVars
<1>6. CASE MountFails
  BY <1>6, FileStill DEF MountFails, fileVars
<1>7. CASE Unmounts
  <2>1. LossBounded' /\ buffered' = 0
    BY <1>7, CloseLoss DEF Unmounts
  <2>2. task' = "deselect" /\ sinceFlush' = 0
    BY <1>7 DEF Unmounts
  <2> QED
    BY <2>1, <2>2 DEF BatchInv
<1>8. CASE Deselects
  BY <1>8, FileStill DEF Deselects, fileVars, boardVars
<1>9. CASE Waits
  BY <1>9, FileStill DEF Waits, fileVars, boardVars
<1>10. CASE Receives
  BY <1>10, FileStill DEF Receives, fileVars, boardVars
<1>11. CASE ReceivesNothing
  <2>1. CASE logFile
    <3>1. Flushes \/ FlushFails
      BY <1>11, <2>1 DEF ReceivesNothing, IdleFlushes
    <3>2. LossBounded' /\ buffered' \in Nat /\ buffered' <= buffered
      BY <3>1, FlushLoss
    <3>3. (task' = "receive" /\ buffered' = 0) \/ task' = "unmount"
      BY <1>11, <2>1 DEF ReceivesNothing, IdleFlushes, Flushes
    <3> QED
      BY <1>11, <3>2, <3>3 DEF ReceivesNothing, BatchInv
  <2>2. CASE ~logFile
    <3>1. UNCHANGED <<task, buffered, logFile, lost, faults>> /\ sinceFlush' = 0
      BY <1>11, <2>2 DEF ReceivesNothing
    <3> QED
      BY <2>2, <3>1, FaultLoss DEF BatchInv
  <2> QED
    BY <2>1, <2>2
<1>12. CASE SortsOut
  BY <1>12, FileStill DEF SortsOut, fileVars, boardVars
<1>13. CASE Sorts
  <2>1. LossBounded'
    BY <1>13, CloseLoss, FaultLoss DEF Sorts
  <2>2. buffered' = 0 \/ UNCHANGED <<buffered, logFile>>
    BY <1>13, CloseLoss DEF Sorts
  <2>3. task = "sort" /\ task' = "rotate" /\ UNCHANGED sinceFlush
    BY <1>13 DEF Sorts
  <2> QED
    BY <2>1, <2>2, <2>3 DEF BatchInv
<1>14. CASE Rotates
  <2>1. LossBounded'
    BY <1>14, CloseLoss, FaultLoss DEF Rotates
  <2>2. buffered' = 0 \/ UNCHANGED <<buffered, logFile>>
    BY <1>14, CloseLoss DEF Rotates
  <2>3. task = "rotate" /\ task' \in {"write", "open"} /\ UNCHANGED sinceFlush
    BY <1>14 DEF Rotates
  <2>4. task' = "write" => logFile'
    BY <1>14 DEF Rotates
  <2> QED
    BY <2>1, <2>2, <2>3, <2>4 DEF BatchInv
<1>15. CASE Opens
  BY <1>15, FaultLoss DEF Opens, BatchInv
<1>16. CASE Writes
  <2>1. CASE buffered' = buffered + 1 /\ sinceFlush' = sinceFlush + 1
    <3>1. LossBounded'
      BY <1>16, <2>1, FaultLoss DEF Writes, BatchInv
    <3>2. task = "write" /\ UNCHANGED logFile
      BY <1>16 DEF Writes
    <3>3. task' = IF sinceFlush + 1 >= FlushEntries THEN "flush" ELSE "receive"
      BY <1>16, <2>1 DEF Writes, FlushIsDue, BatchInv
    <3> QED
      BY <2>1, <3>1, <3>2, <3>3 DEF BatchInv
  <2>2. CASE Fault /\ UNCHANGED <<buffered, sinceFlush>> /\ task' = "unmount"
    BY <1>16, <2>2, FaultLoss DEF Writes, BatchInv
  <2> QED
    BY <1>16, <2>1, <2>2 DEF Writes
<1>17. CASE FlushesBatch
  <2>1. LossBounded' /\ buffered' \in Nat /\ buffered' <= buffered
    BY <1>17, FlushLoss DEF FlushesBatch
  <2>2. (task' = "receive" /\ buffered' = 0) \/ task' = "unmount"
    BY <1>17 DEF FlushesBatch, Flushes
  <2> QED
    BY <1>17, <2>1, <2>2 DEF FlushesBatch, BatchInv
<1>18. ASSUME NEW b \in Bucket \cup {NoBucket}, Log(b) PROVE BatchInv'
  BY <1>18, FileStill DEF Log, fileVars, boardVars
<1>19. ASSUME NEW enabled \in BOOLEAN, SwitchBacklight(enabled) PROVE BatchInv'
  BY <1>19, FileStill DEF SwitchBacklight, storageVars, fileVars
<1>20. CASE FontWaits
  BY <1>20, FileStill DEF FontWaits, fileVars, boardVars
<1>21. CASE FontLoads
  BY <1>21, FileStill DEF FontLoads, fileVars
<1>22. CASE UNCHANGED vars
  BY <1>22, FileStill DEF vars, storageVars, fileVars, boardVars
<1> QED
  BY <1>1, <1>2, <1>3, <1>4, <1>5, <1>6, <1>7, <1>8, <1>9, <1>10, <1>11, <1>12, <1>13,
     <1>14, <1>15, <1>16, <1>17, <1>18, <1>19, <1>20, <1>21, <1>22 DEF Next, StorageTask

\* A failure costs at most one batch of the records counted as written, for
\* every length of the batch and of the queue and every order of failures.
THEOREM SilentLoss == Spec => []SilentLossBounded
<1>1. Init => BatchInv
  BY StorageLogAssumption DEF Init, BoardInit, BatchInv, LossBounded, Tasks
<1>2. BatchInv => SilentLossBounded
  BY DEF BatchInv, LossBounded, SilentLossBounded
<1> QED
  BY <1>1, <1>2, BatchStep, PTL DEF Spec

------------------------------------------------------------------------------
(* The expander's outputs                                                   *)

UpdateType ==
  [step : {"idle", "mode", "lock", "write"}, set : SUBSET Bit, clear : SUBSET Bit,
   next : SUBSET Bit, ok : BOOLEAN]

\* What an output value has to be for a caller that was told that its bit is
\* set or cleared.
Honours(output, c) ==
  Idle(c) /\ update[c].ok =>
    update[c].set \subseteq output /\ update[c].clear \cap output = {}

\* A caller changes nothing but its own bit.
OwnOnly(c) ==
  /\ update[c].set \subseteq OwnBit(c)
  /\ update[c].clear \subseteq OwnBit(c)
  /\ update[c].set \cap update[c].clear = {}

\* The caller that writes holds the mutex, and what it writes was computed from
\* the shadow as it still is.
Writing(c) ==
  /\ update[c].step = "write" => outputMutex = c
  /\ update[c].step = "write" => update[c].next = NextOutput(c)

Holding ==
  outputMutex # "free" => outputMutex \in Caller /\ update[outputMutex].step = "write"

\* Before the tasks run the storage task has not called, and up to the last
\* write of the boot nobody has.
Booting ==
  /\ boot # "up" => update["storage"] = NoCall /\ task = "start"
  /\ boot \in DOMAIN BootStep =>
       Idle("supervisor") /\ update["supervisor"].ok = FALSE /\ outputMutex = "free"

Steady(output) == boot \in {"dark", "up"} => {"TP_RESET", "LCD_RESET"} \subseteq output

\* Register and shadow may differ after a failure, but only in a bit of a
\* caller that was told of it: both honour every caller.
OutputInv ==
  /\ boot \in {"assert", "release", "steady", "dark", "up"}
  /\ shadow \subseteq Bit
  /\ update \in [Caller -> UpdateType]
  /\ Holding
  /\ Booting
  /\ Steady(register)
  /\ Steady(shadow)
  /\ \A c \in Caller : /\ OwnOnly(c)
                       /\ Writing(c)
                       /\ Honours(register, c)
                       /\ Honours(shadow, c)

\* A step that leaves the expander alone, and the start of the storage task.
LEMMA OutputStill ==
  ASSUME OutputInv, UNCHANGED <<boot, register, shadow, outputMutex, update>>,
         task' = task \/ boot = "up"
  PROVE  OutputInv'
  BY DEF OutputInv, Booting, Holding, Steady, OwnOnly, Writing, Honours, Idle, NextOutput

\* A call that begins.
LEMMA CallStep ==
  ASSUME OutputInv, NEW c \in Caller, NEW high \in BOOLEAN, Call(c, high), boot = "up",
         UNCHANGED <<boot, register, shadow, outputMutex>>
  PROVE  OutputInv'
<1> DEFINE call == [step |-> "mode", set |-> IF high THEN OwnBit(c) ELSE {},
                    clear |-> IF high THEN {} ELSE OwnBit(c), next |-> {}, ok |-> FALSE]
<1>1. update' = [update EXCEPT ![c] = call]
  BY DEF Call
<1>2. call \in UpdateType
  BY DEF UpdateType, OwnBit, Bit
<1>3. update' \in [Caller -> UpdateType]
  BY <1>1, <1>2 DEF OutputInv
<1>4. update'[c] = call /\ \A d \in Caller \ {c} : update'[d] = update[d]
  BY <1>1 DEF OutputInv
<1>5. OwnOnly(c)' /\ Writing(c)' /\ Honours(register, c)' /\ Honours(shadow, c)'
  BY <1>4 DEF OwnOnly, Writing, Honours, Idle
<1>6. \A d \in Caller \ {c} :
        OwnOnly(d)' /\ Writing(d)' /\ Honours(register, d)' /\ Honours(shadow, d)'
  BY <1>4 DEF OutputInv, OwnOnly, Writing, Honours, Idle, NextOutput
<1>7. Booting' /\ Steady(register)' /\ Steady(shadow)'
  BY DEF OutputInv, Booting, Steady, BootStep
<1>8. Holding'
  BY <1>4 DEF OutputInv, Holding, Call, Idle
<1> QED
  BY <1>3, <1>5, <1>6, <1>7, <1>8 DEF OutputInv

\* The three steps of a call that is under way change, of the records of the
\* calls, the step, the next value and the result of the caller's own.
LEMMA RecordStep ==
  ASSUME OutputInv, NEW c \in Caller, NEW u \in UpdateType,
         update' = [update EXCEPT ![c] = u], ~Idle(c),
         u.set = update[c].set, u.clear = update[c].clear,
         UNCHANGED <<boot, task>>
  PROVE  /\ update' \in [Caller -> UpdateType]
         /\ update'[c] = u
         /\ \A d \in Caller \ {c} : update'[d] = update[d]
         /\ \A d \in Caller : OwnOnly(d)'
         /\ Booting'
         /\ boot \in {"dark", "up"}
<1>1. update' \in [Caller -> UpdateType] /\ update'[c] = u
  BY DEF OutputInv
<1>2. \A d \in Caller \ {c} : update'[d] = update[d]
  BY DEF OutputInv
<1>3. \A d \in Caller : OwnOnly(d)'
  BY <1>1, <1>2 DEF OutputInv, OwnOnly
<1>4. boot = "up" \/ (boot = "dark" /\ c = "supervisor")
  <2>1. DOMAIN BootStep = {"assert", "release", "steady"}
    BY DEF BootStep
  <2> QED
    BY <2>1 DEF OutputInv, Booting, Caller, NoCall, Idle
<1>5. Booting'
  BY <1>2, <1>4 DEF OutputInv, Booting, BootStep, Caller
<1> QED
  BY <1>1, <1>2, <1>3, <1>4, <1>5

\* The caller waits for the mutex, or gives up.
LEMMA WaitingStep ==
  ASSUME OutputInv, NEW c \in Caller, NEW u \in UpdateType,
         update' = [update EXCEPT ![c] = u], update[c].step \in {"mode", "lock"},
         u.set = update[c].set, u.clear = update[c].clear,
         u.step = "lock" \/ (u.step = "idle" /\ u.ok = FALSE),
         UNCHANGED <<boot, task, register, shadow, outputMutex>>
  PROVE  OutputInv'
<1>0. ~Idle(c)
  BY DEF Idle
<1>1. /\ update' \in [Caller -> UpdateType]
      /\ update'[c] = u
      /\ \A d \in Caller \ {c} : update'[d] = update[d]
      /\ \A d \in Caller : OwnOnly(d)'
      /\ Booting'
  BY <1>0, RecordStep
<1>2. Writing(c)' /\ Honours(register, c)' /\ Honours(shadow, c)'
  BY <1>1 DEF Writing, Honours, Idle
<1>3. \A d \in Caller \ {c} : Writing(d)' /\ Honours(register, d)' /\ Honours(shadow, d)'
  BY <1>1 DEF OutputInv, Writing, Honours, Idle, NextOutput
<1>4. Steady(register)' /\ Steady(shadow)' /\ Holding'
  BY <1>1 DEF OutputInv, Steady, Holding
<1> QED
  BY <1>1, <1>2, <1>3, <1>4 DEF OutputInv

\* The caller has the mutex and computes what it writes.
LEMMA LockingStep ==
  ASSUME OutputInv, NEW c \in Caller, NEW u \in UpdateType,
         update' = [update EXCEPT ![c] = u], update[c].step = "lock",
         u.set = update[c].set, u.clear = update[c].clear,
         u.step = "write", u.next = NextOutput(c), outputMutex = "free", outputMutex' = c,
         UNCHANGED <<boot, task, register, shadow>>
  PROVE  OutputInv'
<1>0. ~Idle(c)
  BY DEF Idle
<1>1. /\ update' \in [Caller -> UpdateType]
      /\ update'[c] = u
      /\ \A d \in Caller \ {c} : update'[d] = update[d]
      /\ \A d \in Caller : OwnOnly(d)'
      /\ Booting'
  BY <1>0, RecordStep
<1>2. Writing(c)' /\ Honours(register, c)' /\ Honours(shadow, c)'
  BY <1>1 DEF Writing, Honours, Idle, NextOutput
<1>3. \A d \in Caller \ {c} : Writing(d)' /\ Honours(register, d)' /\ Honours(shadow, d)'
  BY <1>1 DEF OutputInv, Writing, Honours, Idle, NextOutput, Caller
<1>4. Steady(register)' /\ Steady(shadow)' /\ Holding'
  BY <1>1 DEF OutputInv, Steady, Holding
<1> QED
  BY <1>1, <1>2, <1>3, <1>4 DEF OutputInv

\* What the holder of the mutex writes honours the other caller as the shadow
\* does, and itself once it is told so.
LEMMA NextHonours ==
  ASSUME OutputInv, NEW c \in Caller
  PROVE  /\ \A d \in Caller \ {c} : Honours(NextOutput(c), d)
         /\ update[c].set \subseteq NextOutput(c)
         /\ update[c].clear \cap NextOutput(c) = {}
         /\ Steady(NextOutput(c))
<1>1. update[c].set \subseteq OwnBit(c) /\ update[c].clear \subseteq OwnBit(c)
      /\ update[c].set \cap update[c].clear = {}
  BY DEF OutputInv, OwnOnly
<1>2. \A d \in Caller \ {c} : Honours(NextOutput(c), d)
  <2> SUFFICES ASSUME NEW d \in Caller \ {c}, Idle(d), update[d].ok
               PROVE  /\ update[d].set \subseteq NextOutput(c)
                      /\ update[d].clear \cap NextOutput(c) = {}
    BY DEF Honours
  <2>1. update[d].set \subseteq shadow /\ update[d].clear \cap shadow = {}
    BY DEF OutputInv, Honours
  <2>2. update[d].set \subseteq OwnBit(d) /\ update[d].clear \subseteq OwnBit(d)
    BY DEF OutputInv, OwnOnly
  <2>3. OwnBit(c) \cap OwnBit(d) = {}
    BY DEF OwnBit, Caller
  <2> QED
    BY <1>1, <2>1, <2>2, <2>3 DEF NextOutput
<1>3. Steady(NextOutput(c))
  BY <1>1 DEF OutputInv, Steady, NextOutput, OwnBit
<1> QED
  BY <1>1, <1>2, <1>3 DEF NextOutput

\* The transfer, which may fail after the expander has taken it.
LEMMA WritingStep ==
  ASSUME OutputInv, NEW c \in Caller, NEW u \in UpdateType,
         update' = [update EXCEPT ![c] = u], update[c].step = "write",
         u.set = update[c].set, u.clear = update[c].clear, u.step = "idle",
         register' \in {register, update[c].next},
         shadow' \in {shadow, update[c].next},
         u.ok => register' = update[c].next /\ shadow' = update[c].next,
         outputMutex' = "free", UNCHANGED <<boot, task>>
  PROVE  OutputInv'
<1>0. ~Idle(c)
  BY DEF Idle
<1>1. /\ update' \in [Caller -> UpdateType]
      /\ update'[c] = u
      /\ \A d \in Caller \ {c} : update'[d] = update[d]
      /\ \A d \in Caller : OwnOnly(d)'
      /\ Booting'
  BY <1>0, RecordStep
<1>2. update[c].next = NextOutput(c) /\ outputMutex = c
  BY DEF OutputInv, Writing
<1>3. Writing(c)' /\ Honours(register, c)' /\ Honours(shadow, c)'
  BY <1>1, <1>2, NextHonours DEF Writing, Honours
<1>4. \A d \in Caller \ {c} : update[d].step # "write"
  BY <1>2 DEF OutputInv, Writing
<1>5. ASSUME NEW d \in Caller \ {c}
      PROVE  Writing(d)' /\ Honours(register, d)' /\ Honours(shadow, d)'
  <2>1. Honours(register, d) /\ Honours(shadow, d) /\ Honours(NextOutput(c), d)
    BY NextHonours DEF OutputInv
  <2>2. update'[d] = update[d] /\ Writing(d)'
    BY <1>1, <1>4 DEF Writing
  <2>3. register' \in {register, NextOutput(c)} /\ shadow' \in {shadow, NextOutput(c)}
    BY <1>2
  <2> QED
    BY <2>1, <2>2, <2>3 DEF Honours, Idle
<1>6. Steady(register)' /\ Steady(shadow)'
  BY <1>2, NextHonours DEF OutputInv, Steady
<1>7. shadow' \subseteq Bit
  BY DEF OutputInv, UpdateType
<1> QED
  BY <1>1, <1>3, <1>5, <1>6, <1>7 DEF OutputInv, Holding

LEMMA UpdateStep ==
  ASSUME OutputInv, NEW c \in Caller, UpdatesOutput(c), UNCHANGED task
  PROVE  OutputInv'
<1>0. update[c] \in UpdateType
  BY DEF OutputInv
<1> DEFINE Gave(ok) == [update[c] EXCEPT !.step = "idle", !.next = {}, !.ok = ok]
<1>1. ASSUME NEW ok \in BOOLEAN
      PROVE  /\ Gave(ok) \in UpdateType
             /\ Gave(ok).set = update[c].set /\ Gave(ok).clear = update[c].clear
             /\ Gave(ok).step = "idle" /\ Gave(ok).ok = ok
  BY <1>0 DEF UpdateType
<1>2. ASSUME NEW ok \in BOOLEAN, Returns(c, ok) PROVE update' = [update EXCEPT ![c] = Gave(ok)]
  BY <1>2 DEF Returns
<1> HIDE DEF Gave
<1>3. CASE WritesMode(c)
  <2>1. CASE update' = [update EXCEPT ![c].step = "lock"]
    <3> DEFINE u == [update[c] EXCEPT !.step = "lock"]
    <3>1. u \in UpdateType /\ u.set = update[c].set /\ u.clear = update[c].clear
          /\ u.step = "lock"
      BY <1>0 DEF UpdateType
    <3>2. update' = [update EXCEPT ![c] = u]
      BY <2>1
    <3> HIDE DEF u
    <3> QED
      BY <1>3, <3>1, <3>2, WaitingStep DEF WritesMode
  <2>2. CASE Returns(c, FALSE)
    BY <1>1, <1>2, <1>3, <2>2, WaitingStep DEF WritesMode
  <2> QED
    BY <1>3, <2>1, <2>2 DEF WritesMode
<1>4. CASE TakesOutputMutex(c)
  <2>1. CASE MutexFree /\ outputMutex' = c
             /\ update' = [update EXCEPT ![c].step = "write", ![c].next = NextOutput(c)]
    <3> DEFINE u == [update[c] EXCEPT !.step = "write", !.next = NextOutput(c)]
    <3>1. NextOutput(c) \in SUBSET Bit
      BY <1>0 DEF NextOutput, OutputInv, UpdateType
    <3>2. u \in UpdateType /\ u.set = update[c].set /\ u.clear = update[c].clear
          /\ u.step = "write" /\ u.next = NextOutput(c)
      BY <1>0, <3>1 DEF UpdateType
    <3>3. update' = [update EXCEPT ![c] = u]
      BY <2>1
    <3> HIDE DEF u
    <3> QED
      BY <1>4, <2>1, <3>2, <3>3, LockingStep DEF TakesOutputMutex, MutexFree
  <2>2. CASE Returns(c, FALSE) /\ UNCHANGED outputMutex
    BY <1>1, <1>2, <1>4, <2>2, WaitingStep DEF TakesOutputMutex
  <2> QED
    BY <1>4, <2>1, <2>2 DEF TakesOutputMutex
<1>5. CASE WritesOutput(c)
  <2>1. CASE Returns(c, TRUE)
    BY <1>1, <1>2, <1>5, <2>1, WritingStep DEF WritesOutput
  <2>2. CASE Returns(c, FALSE)
    BY <1>1, <1>2, <1>5, <2>2, WritingStep DEF WritesOutput
  <2> QED
    BY <1>5, <2>1, <2>2 DEF WritesOutput
<1> QED
  BY <1>3, <1>4, <1>5 DEF UpdatesOutput

\* The boot, whose last write is followed by the first call of the supervisor.
LEMMA BootsStep ==
  ASSUME OutputInv, Boots, UNCHANGED task PROVE OutputInv'
<1>0. DOMAIN BootStep = {"assert", "release", "steady"}
  BY DEF BootStep
<1>1. boot # "up"
  BY <1>0 DEF Boots, BootWrites, BootWriteFails, BootDark
<1>2. update["storage"] = NoCall /\ task = "start"
  BY <1>1 DEF OutputInv, Booting
<1>3. NoCall \in UpdateType /\ NoCall.step = "idle" /\ NoCall.ok = FALSE
      /\ NoCall.set = {} /\ NoCall.clear = {}
  BY DEF NoCall, UpdateType
<1>4. ASSUME boot \in DOMAIN BootStep, boot' \in {"assert", "release", "steady"},
             shadow' \subseteq Bit, UNCHANGED <<outputMutex, update, task>>
      PROVE  OutputInv'
  <2>1. \A c \in Caller : Idle(c) /\ update[c].ok = FALSE /\ outputMutex = "free"
    BY <1>2, <1>3, <1>4 DEF OutputInv, Booting, Caller, Idle
  <2>2. \A c \in Caller : OwnOnly(c)' /\ Writing(c)' /\ Honours(register, c)'
                          /\ Honours(shadow, c)'
    BY <2>1, <1>4 DEF OutputInv, OwnOnly, Writing, Honours, Idle
  <2> QED
    BY <2>1, <2>2, <1>2, <1>4, <1>0 DEF OutputInv, Booting, Holding, Steady, Idle, Caller
<1>5. CASE BootWrites
  <2>1. CASE boot = "steady"
    <3>1. register' = SteadyOff /\ shadow' = SteadyOff /\ boot' = "dark"
      BY <1>5, <2>1 DEF BootWrites, BootOutput, BootStep
    <3> DEFINE u == [step |-> "mode", set |-> {}, clear |-> {"LCD_BACKLIGHT"},
                     next |-> {}, ok |-> FALSE]
    <3>2. update' = [update EXCEPT !["supervisor"] = u]
      BY <1>5, <2>1 DEF BootWrites, BacklightSet, Call, OwnBit
    <3>3. u \in UpdateType
      BY DEF UpdateType, Bit
    <3>4. update' \in [Caller -> UpdateType] /\ update'["supervisor"] = u
          /\ update'["storage"] = NoCall
      BY <1>2, <3>2, <3>3 DEF OutputInv, Caller
    <3>5. \A c \in Caller : OwnOnly(c)' /\ Writing(c)' /\ Honours(register, c)'
                            /\ Honours(shadow, c)'
      BY <3>4, <1>3 DEF OwnOnly, Writing, Honours, Idle, Caller, OwnBit
    <3>6. shadow' \subseteq Bit /\ Steady(register)' /\ Steady(shadow)'
      BY <3>1 DEF SteadyOff, Bit, Steady
    <3>7. Booting'
      BY <3>1, <3>4, <1>2, <1>0 DEF Booting, BootStep
    <3>8. outputMutex = "free"
      BY <2>1, <1>0 DEF OutputInv, Booting
    <3> QED
      BY <1>5, <3>1, <3>4, <3>5, <3>6, <3>7, <3>8 DEF OutputInv, Holding, BootWrites
  <2>2. CASE boot # "steady"
    <3>1. boot' \in {"release", "steady"} /\ shadow' \subseteq Bit /\ UNCHANGED update
      BY <1>5, <2>2, <1>0 DEF BootWrites, BootStep, BootOutput, TouchResetAssert,
                              TouchResetRelease, Bit
    <3> QED
      BY <1>5, <3>1, <1>4 DEF BootWrites
  <2> QED
    BY <2>1, <2>2
<1>6. CASE BootWriteFails
  BY <1>4, <1>6 DEF BootWriteFails, SteadyOff, Bit
<1>7. CASE BootDark
  <2>1. CASE update["supervisor"].ok
    <3>1. boot' = "up" /\ UNCHANGED <<register, shadow, update, outputMutex>>
      BY <1>7, <2>1 DEF BootDark
    <3> QED
      BY <1>7, <3>1, <1>0 DEF OutputInv, Booting, Holding, Steady, OwnOnly, Writing, Honours, Idle,
                              NextOutput, BootStep, BootDark
  <2>2. CASE ~update["supervisor"].ok
    <3>1. boot' = "assert" /\ shadow' = SteadyOff /\ update' = [c \in Caller |-> NoCall]
          /\ UNCHANGED <<register, outputMutex>>
      BY <1>7, <2>2 DEF BootDark
    <3>2. outputMutex = "free"
      BY <1>2, <1>3, <1>7 DEF OutputInv, Holding, BootDark, Idle, Caller
    <3> QED
      BY <3>1, <3>2, <1>0, <1>2, <1>3 DEF OutputInv, Booting, Holding, Steady, OwnOnly, Writing,
         Honours, Idle, SteadyOff, Bit, Caller
  <2> QED
    BY <2>1, <2>2
<1> QED
  BY <1>5, <1>6, <1>7 DEF Boots

LEMMA OutputStep == OutputInv /\ [Next]_vars => OutputInv'
<1> SUFFICES ASSUME OutputInv, [Next]_vars PROVE OutputInv'
  OBVIOUS
<1> USE DEF Goes
<1>0. task # "start" => boot = "up"
  BY DEF OutputInv, Booting
<1>1. CASE Board /\ UNCHANGED <<storageVars, switches>>
  BY <1>1, UpdateStep, BootsStep DEF Board, storageVars
<1>2. CASE Starts
  BY <1>2, OutputStill DEF Starts, boardVars
<1>3. CASE Mounts
  BY <1>0, <1>3, CallStep DEF Mounts, SdSelect, Caller
<1>4. CASE Selects
  BY <1>0, <1>4, OutputStill DEF Selects, boardVars
<1>5. CASE MountsCard
  BY <1>0, <1>5, OutputStill DEF MountsCard, boardVars
<1>6. CASE MountFails
  BY <1>0, <1>6, CallStep DEF MountFails, SdSelect, Caller
<1>7. CASE Unmounts
  BY <1>0, <1>7, CallStep DEF Unmounts, SdSelect, Caller
<1>8. CASE Deselects
  BY <1>0, <1>8, OutputStill DEF Deselects, boardVars
<1>9. CASE Waits
  BY <1>0, <1>9, OutputStill DEF Waits, boardVars
<1>10. CASE Receives
  BY <1>0, <1>10, OutputStill DEF Receives, boardVars
<1>11. CASE ReceivesNothing
  BY <1>0, <1>11, OutputStill DEF ReceivesNothing
<1>12. CASE SortsOut
  BY <1>0, <1>12, OutputStill DEF SortsOut, boardVars
<1>13. CASE Sorts
  BY <1>0, <1>13, OutputStill DEF Sorts
<1>14. CASE Rotates
  BY <1>0, <1>14, OutputStill DEF Rotates
<1>15. CASE Opens
  BY <1>0, <1>15, OutputStill DEF Opens
<1>16. CASE Writes
  BY <1>0, <1>16, OutputStill DEF Writes
<1>17. CASE FlushesBatch
  BY <1>0, <1>17, OutputStill DEF FlushesBatch
<1>18. ASSUME NEW b \in Bucket \cup {NoBucket}, Log(b) PROVE OutputInv'
  BY <1>18, OutputStill DEF Log, boardVars
<1>19. ASSUME NEW enabled \in BOOLEAN, SwitchBacklight(enabled) PROVE OutputInv'
  BY <1>19, CallStep DEF SwitchBacklight, BacklightSet, Caller
<1>20. CASE FontWaits
  BY <1>20, OutputStill DEF FontWaits, boardVars
<1>21. CASE FontLoads
  BY <1>21, OutputStill DEF FontLoads
<1>22. CASE UNCHANGED vars
  BY <1>22, OutputStill DEF vars, boardVars, storageVars
<1> QED
  BY <1>1, <1>2, <1>3, <1>4, <1>5, <1>6, <1>7, <1>8, <1>9, <1>10, <1>11, <1>12, <1>13,
     <1>14, <1>15, <1>16, <1>17, <1>18, <1>19, <1>20, <1>21, <1>22 DEF Next, StorageTask

\* What a caller was last told to have done is what the expander puts out,
\* whatever the other one does to its bit and however many transfers fail.
THEOREM OutputsKept == Spec => []OutputsAsRequested
<1>1. Init => OutputInv
  <2> SUFFICES ASSUME Init PROVE OutputInv
    OBVIOUS
  <2>1. NoCall \in UpdateType
    BY DEF NoCall, UpdateType
  <2>2. update = [c \in Caller |-> NoCall] /\ boot = "assert" /\ shadow = SteadyOff
        /\ outputMutex = "free" /\ task = "start"
    BY DEF Init, BoardInit
  <2> QED
    BY <2>1, <2>2 DEF OutputInv, Booting, Holding, Steady, OwnOnly, Writing, Honours, Idle,
                      NoCall, SteadyOff, Bit, Caller
<1>2. OutputInv => OutputsAsRequested
  BY DEF OutputInv, OutputsAsRequested, Steady, Honours
<1> QED
  BY <1>1, <1>2, OutputStep, PTL DEF Spec
==============================================================================
