------------------------------- MODULE AppAuth -------------------------------
(***************************************************************************)
(* The shared key that app_auth.c keeps in NVS and DeskAuthentication.swift *)
(* in a file of the Mac: its enrollment over the challenge and response    *)
(* exchange, the one-time migration at boot, and what crashes of the       *)
(* device, restarts of the Mac, lost connections and failing storage do to *)
(* the two copies.                                                         *)
(*                                                                         *)
(* NVS is a sequence of images: the first one is committed, every write    *)
(* since then adds one, and a crash leaves any of them (nvs_set_ may reach *)
(* the flash before nvs_commit does).  An HMAC is the key it was made with *)
(* and the nonces are left out: one HELLO is sent per connection, and no   *)
(* message outlives its connection here (DeskSession has the late ones).   *)
(***************************************************************************)
EXTENDS Naturals, Sequences, FiniteSets

CONSTANTS
  Keys,            \* 32-byte random keys
  NoKey,           \* no key is stored
  MaxFaults,       \* bound: crashes, restarts, lost connections and failures
  StorageMayFail   \* TRUE: writing to NVS and to the key file may fail

ASSUME AuthAssumption ==
  /\ NoKey \notin Keys
  /\ MaxFaults \in Nat
  /\ StorageMayFail \in BOOLEAN

VARIABLES
  allowEnrollment, \* CONFIG_DESK_ALLOW_APP_ENROLLMENT of the build
  nvs,             \* images of the namespace
  phase,           \* where desk_app_auth_init, or the saving of a key, stands
  auth,            \* auth_state
  mac,             \* DeskAuthenticator, its cache and its key file
  link,            \* "down", "up", or "closing" once the device ends it
  toDevice, toMac, \* frames under way
  enrolled,        \* history: keys whose enrollment was answered with success
  faults           \* number of faults so far

deviceVars == <<nvs, phase, auth>>
vars == <<allowEnrollment, nvs, phase, auth, mac, link, toDevice, toMac,
          enrolled, faults>>

Image == [revision : {"old", "current"}, key : Keys \cup {NoKey}, migration : BOOLEAN]

Phase == {"readRevision", "eraseKey", "setRevision", "openMigration", "commitMigration",
          "loadKey", "up", "storeKey", "closeMigration", "commitKey"}

Stage == {"idle", "helloSent", "responseSent", "authenticated", "failed"}

\* desk_auth_result_code_t; "challenge" for an AUTH_CHALLENGE.
Answer == {"challenge", "succeeded", "failed", "enrollmentRequired",
           "enrollmentClosed", "invalidRequest", "storageFailed"}

TypeOK ==
  /\ allowEnrollment \in BOOLEAN
  /\ nvs \in Seq(Image) \ {<<>>}
  /\ phase \in Phase
  /\ auth \in [shared : Keys \cup {NoKey}, pending : Keys \cup {NoKey},
               challenge : BOOLEAN, migration : BOOLEAN]
  /\ mac \in [stage : Stage, file : Keys \cup {NoKey}, cached : Keys \cup {NoKey},
              stored : Keys \cup {NoKey}, enrolling : Keys \cup {NoKey}]
  /\ link \in {"down", "up", "closing"}
  /\ toDevice \in Seq([type : {"hello", "response"}, enroll : BOOLEAN,
                       key : Keys \cup {NoKey}])
  /\ toMac \in Seq([answer : Answer, key : Keys \cup {NoKey}])
  /\ Len(toDevice) <= 1 /\ Len(toMac) <= 1
  /\ enrolled \subseteq Keys
  /\ faults \in 0 .. MaxFaults

View == nvs[Len(nvs)]
Durable == nvs[1]

Cleared(a) == [a EXCEPT !.pending = NoKey, !.challenge = FALSE]  \* clear_session_material

Booting == [shared |-> NoKey, pending |-> NoKey, challenge |-> FALSE, migration |-> FALSE]

\* A device of an earlier storage revision, or a blank one, and a Mac that may
\* hold the same key.
Init ==
  /\ allowEnrollment \in BOOLEAN
  /\ \E key, file \in Keys \cup {NoKey} :
       /\ file \in {key, NoKey}
       /\ nvs = <<[revision |-> "old", key |-> key, migration |-> FALSE]>>
       /\ mac = [stage |-> "idle", file |-> file, cached |-> NoKey,
                 stored |-> NoKey, enrolling |-> NoKey]
  /\ phase = "readRevision"
  /\ auth = Booting
  /\ link = "down"
  /\ toDevice = <<>> /\ toMac = <<>>
  /\ enrolled = {}
  /\ faults = 0

------------------------------------------------------------------------------
(* desk_app_auth_init.  An NVS error aborts the firmware: a Crash.          *)

DeviceOnly == UNCHANGED <<allowEnrollment, mac, link, toDevice, toMac, enrolled, faults>>

ReadRevision ==
  /\ phase = "readRevision"
  /\ IF View.revision = "old"
     THEN phase' = "eraseKey" /\ UNCHANGED auth
     ELSE phase' = "loadKey" /\ auth' = [auth EXCEPT !.migration = View.migration]
  /\ UNCHANGED nvs
  /\ DeviceOnly

EraseKey ==
  /\ phase = "eraseKey"
  /\ nvs' = Append(nvs, [View EXCEPT !.key = NoKey])
  /\ phase' = "setRevision"
  /\ UNCHANGED auth
  /\ DeviceOnly

SetRevision ==
  /\ phase = "setRevision"
  /\ nvs' = Append(nvs, [View EXCEPT !.revision = "current"])
  /\ phase' = "openMigration"
  /\ UNCHANGED auth
  /\ DeviceOnly

OpenMigration ==
  /\ phase = "openMigration"
  /\ nvs' = Append(nvs, [View EXCEPT !.migration = TRUE])
  /\ phase' = "commitMigration"
  /\ UNCHANGED auth
  /\ DeviceOnly

CommitMigration ==
  /\ phase = "commitMigration"
  /\ nvs' = <<View>>
  /\ auth' = [auth EXCEPT !.migration = TRUE]
  /\ phase' = "loadKey"
  /\ DeviceOnly

LoadKey ==
  /\ phase = "loadKey"
  /\ auth' = Cleared([auth EXCEPT !.shared = View.key])
  /\ phase' = "up"
  /\ UNCHANGED nvs
  /\ DeviceOnly

Boot == ReadRevision \/ EraseKey \/ SetRevision \/ OpenMigration \/ CommitMigration \/ LoadKey

------------------------------------------------------------------------------
(* desk_app_auth_begin and desk_app_auth_verify, called by the supervisor   *)

Receives(type) ==
  /\ phase = "up"
  /\ toDevice # <<>>
  /\ Head(toDevice).type = type
  /\ toDevice' = Tail(toDevice)
  /\ UNCHANGED <<allowEnrollment, nvs, mac, faults>>

\* The answer is lost with the connection.  Every answer but a challenge and a
\* success ends the connection (AUTH_FAILED).
Reply(answer, key) ==
  IF link = "down"
  THEN UNCHANGED <<toMac, link>>
  ELSE /\ toMac' = Append(toMac, [answer |-> answer, key |-> key])
       /\ link' = IF answer \in {"challenge", "succeeded"} THEN link ELSE "closing"

MayEnroll == allowEnrollment \/ auth.migration

\* esp_fill_random does not repeat a key that anybody knows.
FreshKeys ==
  Keys \ ({nvs[i].key : i \in 1 .. Len(nvs)} \cup enrolled
            \cup {auth.shared, mac.file, mac.cached})

\* desk_app_auth_begin
HandleHello ==
  /\ Receives("hello")
  /\ UNCHANGED <<phase, enrolled>>
  /\ \/ /\ auth.shared # NoKey
        /\ auth' = [Cleared(auth) EXCEPT !.challenge = TRUE]
        /\ Reply("challenge", NoKey)
     \/ /\ auth.shared = NoKey
        /\ Head(toDevice).enroll
        /\ MayEnroll
        /\ \E key \in FreshKeys :
             /\ auth' = [auth EXCEPT !.pending = key, !.challenge = TRUE]
             /\ Reply("challenge", key)
     \/ /\ auth.shared = NoKey
        /\ ~(Head(toDevice).enroll /\ MayEnroll)
        /\ auth' = Cleared(auth)
        /\ Reply(IF Head(toDevice).enroll THEN "enrollmentClosed" ELSE "enrollmentRequired",
                 NoKey)

ExpectedKey == IF auth.pending # NoKey THEN auth.pending ELSE auth.shared

\* desk_app_auth_verify, up to the saving of a pending key.
HandleResponse ==
  /\ Receives("response")
  /\ UNCHANGED enrolled
  /\ IF auth.challenge /\ Head(toDevice).key = ExpectedKey /\ auth.pending # NoKey
     THEN phase' = "storeKey" /\ UNCHANGED <<auth, link, toMac>>
     ELSE /\ auth' = Cleared(auth)
          /\ UNCHANGED phase
          /\ Reply(CASE ~auth.challenge -> "invalidRequest"
                     [] auth.challenge /\ Head(toDevice).key = ExpectedKey -> "succeeded"
                     [] OTHER -> "failed", NoKey)

\* The last write was the key of an earlier save, which failed after it.
KeyUncommitted ==
  /\ Len(nvs) > 1
  /\ \E key \in Keys \cup {NoKey} : nvs[Len(nvs) - 1] = [View EXCEPT !.key = key]

\* A key written over an uncommitted one replaces it, so that retries leave
\* finitely many images.
StoreKey ==
  /\ phase = "storeKey"
  /\ LET image == [View EXCEPT !.key = auth.pending] IN
     nvs' = IF KeyUncommitted THEN [nvs EXCEPT ![Len(nvs)] = image] ELSE Append(nvs, image)
  /\ phase' = IF auth.migration THEN "closeMigration" ELSE "commitKey"
  /\ UNCHANGED auth
  /\ DeviceOnly

CloseMigration ==
  /\ phase = "closeMigration"
  /\ View.migration
  /\ nvs' = Append(nvs, [View EXCEPT !.migration = FALSE])
  /\ phase' = "commitKey"
  /\ UNCHANGED auth
  /\ DeviceOnly

SaveRejected ==
  /\ auth' = Cleared(auth)
  /\ phase' = "up"
  /\ Reply("storageFailed", NoKey)
  /\ UNCHANGED <<allowEnrollment, nvs, mac, toDevice, enrolled>>

\* nvs_erase_key does not find what an earlier save erased before its commit
\* failed: ESP_ERR_NVS_NOT_FOUND is an error here (desk_app_auth_init lets it pass).
MigrationNotFound ==
  /\ phase = "closeMigration"
  /\ ~View.migration
  /\ SaveRejected
  /\ UNCHANGED faults

Uncommitted == nvs  \* mutant: nvs_commit is left out
Committed == <<View>>

AfterCommitForgetful(a) == Cleared([a EXCEPT !.migration = FALSE])  \* mutant
AfterCommit(a) == Cleared([a EXCEPT !.shared = a.pending, !.migration = FALSE])

CommitKey ==
  /\ phase = "commitKey"
  /\ nvs' = Committed
  /\ auth' = AfterCommit(auth)
  /\ phase' = "up"
  /\ enrolled' = enrolled \cup {auth.pending}
  /\ Reply("succeeded", NoKey)
  /\ UNCHANGED <<allowEnrollment, mac, toDevice, faults>>

\* One of the three NVS calls fails; what is written so far stays written.
SaveFails ==
  /\ StorageMayFail
  /\ faults < MaxFaults
  /\ faults' = faults + 1
  /\ phase \in {"storeKey", "closeMigration", "commitKey"}
  /\ SaveRejected

Save == StoreKey \/ CloseMigration \/ MigrationNotFound \/ CommitKey

Device == Boot \/ HandleHello \/ HandleResponse \/ Save

------------------------------------------------------------------------------
(* The Mac: DeskAuthenticator                                               *)

MacOnly == UNCHANGED <<allowEnrollment, nvs, phase, auth, link, enrolled>>

Known == IF mac.cached # NoKey THEN mac.cached ELSE mac.file

\* makeHello; enrollment is asked for when no key is known.
SendHello ==
  /\ link = "up"
  /\ mac.stage = "idle"
  /\ mac' = [mac EXCEPT !.stage = "helloSent", !.cached = Known, !.stored = Known]
  /\ toDevice' = Append(toDevice, [type |-> "hello", enroll |-> Known = NoKey, key |-> NoKey])
  /\ UNCHANGED <<toMac, faults>>
  /\ MacOnly

MacReceives(answers) ==
  /\ link # "down"
  /\ toMac # <<>>
  /\ Head(toMac).answer \in answers
  /\ toMac' = Tail(toMac)
  /\ MacOnly

\* The cache and the file once an enrollment key is saved.
SavedInCacheOnly(key) == [mac EXCEPT !.cached = key]  \* mutant: no save
Saved(key) == [mac EXCEPT !.cached = key, !.file = key]

\* handleChallenge: the key is kept before the device confirms it.
HandleChallenge ==
  /\ MacReceives({"challenge"})
  /\ mac.stage = "helloSent"
  /\ LET key == Head(toMac).key IN
     IF key = NoKey /\ mac.stored = NoKey
     THEN mac' = [mac EXCEPT !.stage = "failed"] /\ UNCHANGED toDevice
     ELSE /\ mac' = [IF key = NoKey THEN mac ELSE Saved(key)
                       EXCEPT !.stage = "responseSent", !.enrolling = key]
          /\ toDevice' = Append(toDevice, [type |-> "response", enroll |-> FALSE,
                           key |-> IF key = NoKey THEN mac.stored ELSE key])
  /\ UNCHANGED faults

\* DeskLocalKeyStore.save throws, before or after the file is written.
KeyFileFails ==
  /\ StorageMayFail
  /\ faults < MaxFaults
  /\ faults' = faults + 1
  /\ MacReceives({"challenge"})
  /\ mac.stage = "helloSent"
  /\ Head(toMac).key # NoKey
  /\ \E file \in {mac.file, Head(toMac).key} :
       mac' = [mac EXCEPT !.stage = "failed", !.file = file]
  /\ UNCHANGED toDevice

\* handleResult of a rejection that makes the Mac forget its key; try? ignores
\* a deletion that fails.
Forgets(answer) == mac.enrolling # NoKey \/ answer = "enrollmentRequired"

HandleResult ==
  /\ MacReceives(Answer \ {"challenge"})
  /\ UNCHANGED toDevice
  /\ LET answer == Head(toMac).answer IN
     \/ /\ mac.stage = "responseSent" /\ answer = "succeeded"
        /\ mac' = [mac EXCEPT !.stage = "authenticated"]
        /\ UNCHANGED faults
     \/ /\ mac.stage = "responseSent" /\ answer # "succeeded"
        /\ \E deleted \in BOOLEAN :
             /\ deleted \/ (StorageMayFail /\ faults < MaxFaults)
             /\ faults' = IF deleted THEN faults ELSE faults + 1
             /\ mac' = IF Forgets(answer)
                       THEN [mac EXCEPT !.stage = "failed", !.cached = NoKey,
                                        !.file = IF deleted THEN NoKey ELSE @]
                       ELSE [mac EXCEPT !.stage = "failed"]
     \/ /\ mac.stage # "responseSent"
        /\ mac' = [mac EXCEPT !.stage = "failed"]
        /\ UNCHANGED faults

TheMac == SendHello \/ HandleChallenge \/ HandleResult

------------------------------------------------------------------------------
(* The connection, and the faults                                           *)

\* BLE_CONNECTED is handled once the device is up: desk_app_auth_reset_session.
Connect ==
  /\ link = "down"
  /\ phase = "up"
  /\ link' = "up"
  /\ auth' = Cleared(auth)
  /\ UNCHANGED <<allowEnrollment, nvs, phase, mac, toDevice, toMac, enrolled, faults>>

\* resetSession on the Mac, and what is under way is lost.
StageKept == mac.stage  \* mutant: authenticator.reset() is left out
StageAfterReset == "idle"

ConnectionEnds ==
  /\ link' = "down"
  /\ mac' = [mac EXCEPT !.stage = StageAfterReset, !.stored = NoKey, !.enrolling = NoKey]
  /\ toDevice' = <<>>
  /\ toMac' = <<>>

\* desk_ble_link_disconnect, or cancelPeripheralConnection after a failure.
Disconnect ==
  /\ link = "closing" \/ (link = "up" /\ mac.stage = "failed")
  /\ ConnectionEnds
  /\ UNCHANGED <<allowEnrollment, nvs, phase, auth, enrolled, faults>>

Fault == faults < MaxFaults /\ faults' = faults + 1

ConnectionLost ==
  /\ Fault
  /\ link # "down"
  /\ ConnectionEnds
  /\ UNCHANGED <<allowEnrollment, nvs, phase, auth, enrolled>>

\* The device resets: of what is not committed, any prefix is in the flash.
Crash ==
  /\ Fault
  /\ \E i \in 1 .. Len(nvs) : nvs' = <<nvs[i]>>
  /\ phase' = "readRevision"
  /\ auth' = Booting
  /\ ConnectionEnds
  /\ UNCHANGED <<allowEnrollment, enrolled>>

\* The helper starts again; a key file of the wrong length is removed.
MacRestarts ==
  /\ Fault
  /\ \E file \in {mac.file, NoKey} :
       mac' = [stage |-> "idle", file |-> file, cached |-> NoKey,
               stored |-> NoKey, enrolling |-> NoKey]
  /\ link' = "down"
  /\ toDevice' = <<>> /\ toMac' = <<>>
  /\ UNCHANGED <<allowEnrollment, nvs, phase, auth, enrolled>>

Next ==
  \/ Device
  \/ SaveFails
  \/ TheMac
  \/ KeyFileFails
  \/ Connect
  \/ Disconnect
  \/ ConnectionLost
  \/ Crash
  \/ MacRestarts

Spec == Init /\ [][Next]_vars

\* The supervisor runs, the Mac answers and keeps reconnecting.
FairSpec ==
  /\ Spec
  /\ WF_vars(Device)
  /\ WF_vars(TheMac)
  /\ WF_vars(Connect)
  /\ WF_vars(Disconnect)

------------------------------------------------------------------------------
(* Properties                                                               *)

\* A Mac that was told of success holds, in its file, the key that the device
\* has committed: neither a crash nor a restart parts them (nvs_commit and
\* DeskLocalKeyStore.save both come before the AUTH_RESULT).
SuccessIsDurable ==
  mac.stage = "authenticated" => Durable.key # NoKey /\ mac.file = Durable.key

\* A key whose enrollment was confirmed is never replaced or erased, whatever
\* crashes and failures follow.
EnrolledKeyKept ==
  [][View.key \in enrolled => nvs'[Len(nvs')].key = View.key]_vars

\* At most one enrollment is ever confirmed: the migration lets a Mac enroll
\* once, and an enrolled device hands out no key.
EnrolledOnce == Cardinality(enrolled) <= 1

\* The two copies cannot lead to an authentication any more.
Incompatible ==
  \/ auth.shared # mac.file
  \/ auth.shared = NoKey /\ ~MayEnroll

\* The flag in memory outlived its entry in NVS: no key can be saved before the
\* device restarts.
SavesFail == auth.shared = NoKey /\ auth.migration /\ ~View.migration

\* Once the faults are over, the pair authenticates for good, unless it was left
\* with two copies of the key that cannot, or with a device that cannot save one.
Settles ==
  \/ <>[](mac.stage = "authenticated")
  \/ <>[](Incompatible /\ phase = "up")
  \/ <>[]SavesFail
==============================================================================
