---------------------------- MODULE AppAuth_proofs ----------------------------
(***************************************************************************)
(* Proofs about AppAuth: its types; that a Mac which was told of success   *)
(* holds the key that the device has committed; that one enrollment at     *)
(* most is ever confirmed, and its key never lost.                         *)
(***************************************************************************)
EXTENDS AppAuth, FiniteSetTheorems, TLAPS

------------------------------------------------------------------------------
(* Records and short queues                                                 *)

AuthType == [shared : Keys \cup {NoKey}, pending : Keys \cup {NoKey},
             challenge : BOOLEAN, migration : BOOLEAN]

MacType == [stage : Stage, file : Keys \cup {NoKey}, cached : Keys \cup {NoKey},
            stored : Keys \cup {NoKey}, enrolling : Keys \cup {NoKey}]

ToDevice == [type : {"hello", "response"}, enroll : BOOLEAN, key : Keys \cup {NoKey}]

ToMac == [answer : Answer, key : Keys \cup {NoKey}]

LEMMA ClearedType ==
  ASSUME NEW a \in AuthType
  PROVE  /\ Cleared(a) \in AuthType
         /\ Cleared(a).shared = a.shared /\ Cleared(a).pending = NoKey
         /\ Cleared(a).migration = a.migration
  BY DEF Cleared, AuthType

LEMMA WriteLast ==
  ASSUME NEW q \in Seq(Image), q # <<>>, NEW e \in Image
  PROVE  /\ Append(q, e) \in Seq(Image) \ {<<>>}
         /\ Len(Append(q, e)) \in Nat \ {0, 1}
         /\ Append(q, e)[Len(Append(q, e))] = e
         /\ \A i \in 1 .. Len(Append(q, e)) :
              Append(q, e)[i] = e \/ \E j \in 1 .. Len(q) : Append(q, e)[i] = q[j]
<1>1. Len(q) \in Nat \ {0} /\ Len(Append(q, e)) = Len(q) + 1
      /\ Append(q, e) \in Seq(Image) /\ Append(q, e)[Len(q) + 1] = e
      /\ \A i \in 1 .. Len(q) : Append(q, e)[i] = q[i]
  OBVIOUS
<1>2. Append(q, e) # <<>>
  BY <1>1
<1> QED
  BY <1>1, <1>2

LEMMA OneImage ==
  ASSUME NEW e \in Image
  PROVE  <<e>> \in Seq(Image) \ {<<>>} /\ Len(<<e>>) = 1 /\ <<e>>[1] = e
  OBVIOUS

LEMMA Images ==
  ASSUME NEW q \in Seq(Image) \ {<<>>}
  PROVE  Len(q) \in Nat \ {0} /\ \A i \in 1 .. Len(q) : q[i] \in Image
  OBVIOUS

LEMMA ShortTail ==
  ASSUME NEW S, NEW q \in Seq(S), Len(q) <= 1, q # <<>>
  PROVE  Tail(q) = <<>> /\ Head(q) \in S
<1>1. Len(q) = 1 /\ q[1] \in S
  BY Len(q) \in Nat, Len(q) # 0
<1>2. Len(Tail(q)) = 0 /\ Tail(q) \in Seq(S)
  BY <1>1
<1>3. Tail(q) = <<>>
  BY <1>2
<1> QED
  BY <1>1, <1>3

LEMMA ShortAppend ==
  ASSUME NEW S, NEW m \in S
  PROVE  LET q == Append(<<>>, m)
         IN  q \in Seq(S) /\ Len(q) <= 1 /\ q # <<>> /\ Head(q) = m
  OBVIOUS

------------------------------------------------------------------------------
(* The invariant                                                            *)

Storing == {"storeKey", "closeMigration", "commitKey"}
Starting == Phase \ (Storing \cup {"up"})

\* All images hold the key k and will not be migrated.
AllHold(k) == \A i \in 1 .. Len(nvs) : nvs[i].key = k /\ nvs[i].revision = "current"

\* The device's copy in NVS and its state in memory.
NvsInv ==
  /\ phase \in {"readRevision", "loadKey"} => Len(nvs) = 1
  /\ phase \notin {"readRevision", "eraseKey", "setRevision"} => View.revision = "current"
  /\ phase \in {"closeMigration", "commitKey"} => View.key = auth.pending
  /\ phase \in Storing => auth.pending # NoKey
  /\ phase \in Starting => auth.shared = NoKey /\ auth.pending = NoKey
  /\ auth.shared # NoKey => phase = "up" /\ auth.pending = NoKey /\ AllHold(auth.shared)
  /\ \A k \in enrolled : /\ AllHold(k)
                         /\ phase \in {"readRevision", "loadKey", "up"}
                         /\ phase = "up" => auth.shared = k

\* A frame under way to the device belongs to the stage the Mac is in.
Asked(m) ==
  \/ /\ m.type = "hello"
     /\ mac.stage = "helloSent"
     /\ m.enroll = (mac.stored = NoKey)
  \/ /\ m.type = "response"
     /\ mac.stage = "responseSent"
     /\ m.key = mac.file

Agreed == phase = "up" /\ Durable.key = mac.file /\ mac.file # NoKey

\* An enrollment key is offered to a Mac without a key; success is reported
\* when both copies agree.
Answered(m) ==
  /\ m.answer = "challenge" => mac.stage = "helloSent" /\ (m.key # NoKey => mac.stored = NoKey)
  /\ m.answer = "succeeded" => mac.stage = "responseSent" /\ Agreed

\* The Mac's copy and the exchange.
MacInv ==
  /\ link = "down" => mac.stage = "idle"
  /\ mac.stage \in {"idle", "authenticated", "failed"} => toDevice = <<>> /\ toMac = <<>>
  /\ toDevice = <<>> \/ toMac = <<>>
  /\ toDevice # <<>> => phase = "up" /\ Asked(Head(toDevice))
  /\ toMac # <<>> => phase = "up" /\ Answered(Head(toMac))
  /\ mac.cached # NoKey => mac.cached = mac.file
  /\ mac.stage = "helloSent" => mac.stored = mac.file
  /\ mac.stage = "responseSent" => mac.file # NoKey
  /\ phase \in Storing /\ link # "down" =>
       /\ mac.stage = "responseSent" /\ toDevice = <<>> /\ toMac = <<>>
       /\ mac.file = auth.pending
  /\ phase \in Starting => link = "down"
  /\ mac.stage = "authenticated" => Agreed

IInv == TypeOK /\ NvsInv /\ MacInv

LEMMA InitInv == Init => IInv
<1> SUFFICES ASSUME Init PROVE IInv
  OBVIOUS
<1> USE AuthAssumption DEF Init
<1>1. PICK key \in Keys \cup {NoKey}, file \in Keys \cup {NoKey} :
        /\ nvs = <<[revision |-> "old", key |-> key, migration |-> FALSE]>>
        /\ mac = [stage |-> "idle", file |-> file, cached |-> NoKey,
                  stored |-> NoKey, enrolling |-> NoKey]
  OBVIOUS
<1>2. [revision |-> "old", key |-> key, migration |-> FALSE] \in Image
  BY DEF Image
<1>3. nvs \in Seq(Image) \ {<<>>} /\ Len(nvs) = 1
  BY <1>1, <1>2, OneImage
<1>4. mac \in MacType /\ auth \in AuthType
  BY <1>1 DEF MacType, AuthType, Stage, Booting
<1>5. TypeOK
  BY <1>3, <1>4 DEF TypeOK, MacType, AuthType, Phase
<1>6. NvsInv
  BY <1>3 DEF NvsInv, Storing, Starting, Phase, Booting
<1>7. MacInv
  BY <1>1 DEF MacInv, Storing, Starting, Phase
<1> QED
  BY <1>5, <1>6, <1>7 DEF IInv

\* The invariant in the form in which the steps use it.
LEMMA Facts ==
  ASSUME IInv
  PROVE  /\ TypeOK /\ NvsInv /\ MacInv
         /\ auth \in AuthType /\ mac \in MacType /\ NoKey \notin Keys
         /\ nvs \in Seq(Image) /\ nvs # <<>> /\ Len(nvs) \in Nat \ {0}
         /\ View \in Image /\ Durable \in Image
         /\ toDevice \in Seq(ToDevice) /\ Len(toDevice) <= 1
         /\ toMac \in Seq(ToMac) /\ Len(toMac) <= 1
<1>1. /\ nvs \in Seq(Image) \ {<<>>} /\ toDevice \in Seq(ToDevice) /\ toMac \in Seq(ToMac)
      /\ auth \in AuthType /\ mac \in MacType
      /\ Len(toDevice) <= 1 /\ Len(toMac) <= 1
  BY DEF IInv, TypeOK, ToDevice, ToMac, AuthType, MacType
<1>2. Len(nvs) \in Nat \ {0} /\ \A i \in 1 .. Len(nvs) : nvs[i] \in Image
  BY <1>1, Images
<1> QED
  BY <1>1, <1>2, AuthAssumption DEF IInv, View, Durable

\* What all images hold, the last and the first one do.
LEMMA HeldByEnds ==
  ASSUME IInv, NEW k, AllHold(k)
  PROVE  View.key = k /\ View.revision = "current" /\ Durable.key = k
<1>1. Len(nvs) \in 1 .. Len(nvs) /\ 1 \in 1 .. Len(nvs)
  BY Facts
<1> QED
  BY <1>1 DEF AllHold, View, Durable

\* A write adds an image to NVS.
LEMMA Written ==
  ASSUME IInv, NEW e \in Image, nvs' = Append(nvs, e)
  PROVE  /\ nvs' \in Seq(Image) \ {<<>>}
         /\ Len(nvs') \in Nat \ {0, 1}
         /\ View' = e
         /\ Durable' = Durable
<1>1. nvs \in Seq(Image) /\ nvs # <<>> /\ Len(nvs) \in Nat \ {0}
  BY Facts
<1>2. Append(nvs, e) \in Seq(Image) \ {<<>>} /\ Len(Append(nvs, e)) \in Nat \ {0, 1}
      /\ Append(nvs, e)[Len(Append(nvs, e))] = e
  BY <1>1, WriteLast
<1>3. Append(nvs, e)[1] = nvs[1]
  BY <1>1
<1> QED
  BY <1>2, <1>3 DEF View, Durable

\* A commit, or a reset, leaves one image.
LEMMA Single ==
  ASSUME NEW e \in Image, nvs' = <<e>>
  PROVE  /\ nvs' \in Seq(Image) \ {<<>>}
         /\ Len(nvs') = 1
         /\ View' = e
         /\ Durable' = e
         /\ \A k : AllHold(k)' <=> (e.key = k /\ e.revision = "current")
<1>1. <<e>> \in Seq(Image) \ {<<>>} /\ Len(<<e>>) = 1 /\ <<e>>[1] = e
  BY OneImage
<1>2. ASSUME NEW k PROVE AllHold(k)' <=> (e.key = k /\ e.revision = "current")
  BY <1>1 DEF AllHold
<1> QED
  BY <1>1, <1>2 DEF View, Durable

\* A key written over an uncommitted one takes the place of the last image.
LEMMA Rewritten ==
  ASSUME IInv, NEW e \in Image, Len(nvs) > 1, nvs' = [nvs EXCEPT ![Len(nvs)] = e]
  PROVE  /\ nvs' \in Seq(Image) \ {<<>>}
         /\ View' = e
         /\ Durable' = Durable
<1>1. nvs \in Seq(Image) /\ nvs # <<>> /\ Len(nvs) \in Nat \ {0}
  BY Facts
<1>2. nvs' \in Seq(Image) /\ Len(nvs') = Len(nvs)
  BY <1>1
<1>3. nvs'[Len(nvs)] = e /\ nvs'[1] = nvs[1]
  BY <1>1
<1>4. nvs' # <<>>
  BY <1>1, <1>2
<1> QED
  BY <1>2, <1>3, <1>4 DEF View, Durable

------------------------------------------------------------------------------
(* The steps of the boot                                                    *)

LEMMA ReadRevisionStep == IInv /\ ReadRevision => IInv'
<1> SUFFICES ASSUME IInv, ReadRevision PROVE IInv'
  OBVIOUS
<1> USE Facts
<1>1. /\ phase = "readRevision" /\ nvs' = nvs /\ View' = View
      /\ auth' \in AuthType /\ auth'.shared = auth.shared /\ auth'.pending = auth.pending
      /\ \/ phase' = "eraseKey" /\ View.revision # "current"
         \/ phase' = "loadKey" /\ View.revision = "current"
  BY DEF ReadRevision, View, AuthType, Image
<1>2. TypeOK'
  BY <1>1 DEF ReadRevision, DeviceOnly, TypeOK, Phase, AuthType
<1>3. NvsInv'
  <2>1. View.revision # "current" => enrolled = {}
    BY HeldByEnds DEF NvsInv
  <2> QED
    BY <1>1, <2>1 DEF ReadRevision, DeviceOnly, NvsInv, AllHold, Storing, Starting, Phase
<1>4. MacInv'
  BY <1>1 DEF ReadRevision, DeviceOnly, MacInv, Asked, Answered, Agreed, Durable,
              Storing, Starting, Phase
<1> QED
  BY <1>2, <1>3, <1>4 DEF IInv

\* The three writes of the migration.
LEMMA MigrationStep ==
  IInv /\ (EraseKey \/ SetRevision \/ OpenMigration) => IInv'
<1> SUFFICES ASSUME IInv, EraseKey \/ SetRevision \/ OpenMigration PROVE IInv'
  OBVIOUS
<1> USE Facts
<1>1. PICK e \in Image :
        /\ nvs' = Append(nvs, e)
        /\ phase' \notin {"eraseKey", "setRevision"} => e.revision = "current"
  <2>1. CASE EraseKey
    <3>1. [View EXCEPT !.key = NoKey] \in Image
      BY DEF Image
    <3> QED
      BY <2>1, <3>1 DEF EraseKey
  <2>2. CASE SetRevision
    <3>1. [View EXCEPT !.revision = "current"] \in Image
          /\ [View EXCEPT !.revision = "current"].revision = "current"
      BY DEF Image
    <3> QED
      BY <2>2, <3>1 DEF SetRevision
  <2>3. CASE OpenMigration
    <3>1. [View EXCEPT !.migration = TRUE] \in Image
          /\ [View EXCEPT !.migration = TRUE].revision = View.revision
      BY DEF Image
    <3> QED
      BY <2>3, <3>1 DEF OpenMigration, NvsInv
  <2> QED
    BY <2>1, <2>2, <2>3
<1>2. /\ phase \in {"eraseKey", "setRevision", "openMigration"}
      /\ phase' \in {"setRevision", "openMigration", "commitMigration"}
      /\ auth' = auth /\ DeviceOnly
  BY DEF EraseKey, SetRevision, OpenMigration
<1>3. nvs' \in Seq(Image) \ {<<>>} /\ View' = e /\ Durable' = Durable
  BY <1>1, Written
<1>4. TypeOK'
  BY <1>2, <1>3 DEF DeviceOnly, TypeOK, Phase
<1>5. NvsInv'
  <2>1. enrolled = {} /\ auth.shared = NoKey /\ auth.pending = NoKey
    BY <1>2 DEF NvsInv, Storing, Starting, Phase
  <2> QED
    BY <1>1, <1>2, <1>3, <2>1 DEF DeviceOnly, NvsInv, Storing, Starting, Phase
<1>6. MacInv'
  BY <1>2, <1>3 DEF DeviceOnly, MacInv, Asked, Answered, Agreed, Storing, Starting, Phase
<1> QED
  BY <1>4, <1>5, <1>6 DEF IInv

LEMMA CommitMigrationStep == IInv /\ CommitMigration => IInv'
<1> SUFFICES ASSUME IInv, CommitMigration PROVE IInv'
  OBVIOUS
<1> USE Facts
<1>1. /\ phase = "commitMigration" /\ phase' = "loadKey" /\ DeviceOnly /\ nvs' = <<View>>
      /\ auth' \in AuthType /\ auth'.shared = auth.shared /\ auth'.pending = auth.pending
  BY DEF CommitMigration, AuthType
<1>2. nvs' \in Seq(Image) \ {<<>>} /\ Len(nvs') = 1 /\ View' = View
  BY <1>1, Single
<1>3. TypeOK'
  BY <1>1, <1>2 DEF DeviceOnly, TypeOK, Phase, AuthType
<1>4. NvsInv'
  BY <1>1, <1>2 DEF DeviceOnly, NvsInv, Storing, Starting, Phase
<1>5. MacInv'
  BY <1>1 DEF DeviceOnly, MacInv, Asked, Answered, Agreed, Storing, Starting, Phase
<1> QED
  BY <1>3, <1>4, <1>5 DEF IInv

LEMMA LoadKeyStep == IInv /\ LoadKey => IInv'
<1> SUFFICES ASSUME IInv, LoadKey PROVE IInv'
  OBVIOUS
<1> USE Facts
<1> DEFINE a == [auth EXCEPT !.shared = View.key]
<1>1. a \in AuthType /\ a.shared = View.key
  BY DEF AuthType, Image
<1>2. /\ phase = "loadKey" /\ phase' = "up" /\ nvs' = nvs /\ DeviceOnly
      /\ auth' \in AuthType /\ auth'.shared = View.key /\ auth'.pending = NoKey
  BY <1>1, ClearedType DEF LoadKey
<1>3. View' = View /\ AllHold(View.key) /\ View.revision = "current"
  <2>1. Len(nvs) = 1 /\ View.revision = "current" /\ View' = View
    BY <1>2 DEF NvsInv, View
  <2>2. View = nvs[1]
    BY <2>1 DEF View
  <2> QED
    BY <2>1, <2>2 DEF AllHold
<1>4. TypeOK'
  BY <1>2 DEF DeviceOnly, TypeOK, Phase, AuthType
<1>5. NvsInv'
  <2>1. \A k \in enrolled : k = View.key
    BY HeldByEnds DEF NvsInv
  <2>2. \A k : AllHold(k)' <=> AllHold(k)
    BY <1>2 DEF AllHold
  <2> QED
    BY <1>2, <1>3, <2>1, <2>2 DEF DeviceOnly, NvsInv, Storing, Starting, Phase
<1>6. MacInv'
  BY <1>2 DEF DeviceOnly, MacInv, Asked, Answered, Agreed, Storing, Starting, Phase
<1> QED
  BY <1>4, <1>5, <1>6 DEF IInv

LEMMA BootStep == IInv /\ Boot => IInv'
  BY ReadRevisionStep, MigrationStep, CommitMigrationStep, LoadKeyStep DEF Boot

------------------------------------------------------------------------------
(* The steps of the exchange on the device                                  *)

\* An answer to a connected Mac is the one frame under way.
LEMMA Replied ==
  ASSUME IInv, NEW answer \in Answer, NEW key \in Keys \cup {NoKey},
         Reply(answer, key), link # "down", toMac = <<>>
  PROVE  /\ toMac' \in Seq(ToMac) /\ Len(toMac') <= 1 /\ toMac' # <<>>
         /\ Head(toMac').answer = answer /\ Head(toMac').key = key
         /\ link' \in {"up", "closing"}
<1> DEFINE m == [answer |-> answer, key |-> key]
<1>1. m \in ToMac /\ m.answer = answer /\ m.key = key
  BY DEF ToMac
<1>2. toMac' = Append(<<>>, m) /\ link' \in {link, "closing"}
  BY DEF Reply
<1> HIDE DEF m
<1>3. toMac' \in Seq(ToMac) /\ Len(toMac') <= 1 /\ toMac' # <<>> /\ Head(toMac') = m
  BY <1>1, <1>2, ShortAppend
<1>4. link \in {"up", "closing"}
  BY Facts DEF TypeOK
<1> QED
  BY <1>1, <1>2, <1>3, <1>4

\* A frame that arrives finds the Mac waiting and nothing else under way.
LEMMA Received ==
  ASSUME IInv, NEW type, Receives(type)
  PROVE  /\ phase = "up" /\ link # "down" /\ toMac = <<>> /\ toDevice' = <<>>
         /\ Asked(Head(toDevice)) /\ Head(toDevice).type = type
         /\ UNCHANGED <<allowEnrollment, nvs, mac, faults>>
         /\ View' = View /\ Durable' = Durable
         /\ \A k : AllHold(k)' <=> AllHold(k)
<1>1. /\ phase = "up" /\ toMac = <<>> /\ Asked(Head(toDevice)) /\ toDevice # <<>>
      /\ toDevice' = Tail(toDevice) /\ Head(toDevice).type = type
      /\ UNCHANGED <<allowEnrollment, nvs, mac, faults>>
  BY Facts DEF Receives, MacInv
<1>2. link # "down"
  BY <1>1, Facts DEF Asked, MacInv
<1>3. Tail(toDevice) = <<>>
  BY <1>1, Facts, ShortTail
<1>4. \A k : AllHold(k)' <=> AllHold(k)
  BY <1>1 DEF AllHold
<1> QED
  BY <1>1, <1>2, <1>3, <1>4 DEF View, Durable

LEMMA HandleHelloStep == IInv /\ HandleHello => IInv'
<1> SUFFICES ASSUME IInv, HandleHello PROVE IInv'
  OBVIOUS
<1> USE Facts
<1>1. /\ phase = "up" /\ link # "down" /\ toMac = <<>> /\ toDevice' = <<>>
      /\ Asked(Head(toDevice)) /\ Head(toDevice).type = "hello"
      /\ UNCHANGED <<allowEnrollment, nvs, mac, faults>>
      /\ View' = View /\ Durable' = Durable
      /\ \A k : AllHold(k)' <=> AllHold(k)
      /\ UNCHANGED <<phase, enrolled>>
  BY Received DEF HandleHello
<1>2. /\ auth' \in AuthType /\ auth'.shared = auth.shared
      /\ auth.shared # NoKey => auth'.pending = NoKey
  <2>1. Cleared(auth) \in AuthType /\ Cleared(auth).shared = auth.shared
        /\ Cleared(auth).pending = NoKey
    BY ClearedType
  <2>2. CASE auth' = Cleared(auth)
    BY <2>1, <2>2
  <2>3. CASE auth' = [Cleared(auth) EXCEPT !.challenge = TRUE]
    BY <2>1, <2>3 DEF AuthType
  <2>4. ASSUME NEW key \in FreshKeys, auth.shared = NoKey,
               auth' = [auth EXCEPT !.pending = key, !.challenge = TRUE]
        PROVE  /\ auth' \in AuthType /\ auth'.shared = auth.shared
    BY <2>4 DEF AuthType, FreshKeys
  <2> QED
    BY <2>2, <2>3, <2>4 DEF HandleHello
<1>3. PICK answer \in Answer \ {"succeeded"}, key \in Keys \cup {NoKey} :
        /\ Reply(answer, key)
        /\ key # NoKey => Head(toDevice).enroll
  BY DEF HandleHello, Answer, FreshKeys
<1>4. /\ toMac' \in Seq(ToMac) /\ Len(toMac') <= 1 /\ toMac' # <<>>
      /\ Head(toMac').answer = answer /\ Head(toMac').key = key
      /\ link' \in {"up", "closing"}
  BY <1>1, <1>3, Replied
<1>5. TypeOK'
  BY <1>1, <1>2, <1>4 DEF TypeOK, AuthType, ToMac
<1>6. NvsInv'
  BY <1>1, <1>2 DEF NvsInv, Storing, Starting, Phase
<1>7. MacInv'
  <2>1. mac.stage = "helloSent" /\ (key # NoKey => mac.stored = NoKey)
    BY <1>1, <1>3 DEF Asked
  <2> QED
    BY <1>1, <1>3, <1>4, <2>1 DEF MacInv, Answered, Storing, Starting, Phase
<1> QED
  BY <1>5, <1>6, <1>7 DEF IInv

LEMMA HandleResponseStep == IInv /\ HandleResponse => IInv'
<1> SUFFICES ASSUME IInv, HandleResponse PROVE IInv'
  OBVIOUS
<1> USE Facts
<1>1. /\ phase = "up" /\ link # "down" /\ toMac = <<>> /\ toDevice' = <<>>
      /\ Asked(Head(toDevice)) /\ Head(toDevice).type = "response"
      /\ UNCHANGED <<allowEnrollment, nvs, mac, faults>>
      /\ View' = View /\ Durable' = Durable
      /\ \A k : AllHold(k)' <=> AllHold(k)
      /\ enrolled' = enrolled
  BY Received DEF HandleResponse
<1>2. mac.stage = "responseSent" /\ Head(toDevice).key = mac.file /\ mac.file # NoKey
  BY <1>1 DEF Asked, MacInv
<1>3. CASE auth.challenge /\ Head(toDevice).key = ExpectedKey /\ auth.pending # NoKey
  <2>1. phase' = "storeKey" /\ UNCHANGED <<auth, link, toMac>> /\ mac.file = auth.pending
    BY <1>2, <1>3 DEF HandleResponse, ExpectedKey
  <2>2. auth.shared = NoKey /\ enrolled = {}
    BY <1>1, <1>3 DEF NvsInv, TypeOK
  <2>3. TypeOK'
    BY <1>1, <2>1 DEF TypeOK, Phase
  <2>4. NvsInv'
    BY <1>1, <1>3, <2>1, <2>2 DEF NvsInv, Storing, Starting, Phase
  <2>5. MacInv'
    BY <1>1, <1>2, <2>1 DEF MacInv, Storing, Starting, Phase
  <2> QED
    BY <2>3, <2>4, <2>5 DEF IInv
<1>4. CASE ~(auth.challenge /\ Head(toDevice).key = ExpectedKey /\ auth.pending # NoKey)
  <2>1. auth' = Cleared(auth) /\ phase' = phase
    BY <1>4 DEF HandleResponse
  <2>2. /\ auth' \in AuthType /\ auth'.shared = auth.shared /\ auth'.pending = NoKey
    BY <2>1, ClearedType
  <2>3. PICK answer \in Answer \ {"challenge"} :
          /\ Reply(answer, NoKey)
          /\ answer = "succeeded" => Head(toDevice).key = ExpectedKey /\ auth.pending = NoKey
    BY <1>4 DEF HandleResponse, Answer
  <2>4. /\ toMac' \in Seq(ToMac) /\ Len(toMac') <= 1 /\ toMac' # <<>>
        /\ Head(toMac').answer = answer /\ Head(toMac').key = NoKey
        /\ link' \in {"up", "closing"}
    BY <1>1, <2>3, Replied
  <2>5. answer = "succeeded" => Durable.key = mac.file
    BY <1>2, <2>3, HeldByEnds DEF ExpectedKey, NvsInv
  <2>6. TypeOK'
    BY <1>1, <2>1, <2>2, <2>4 DEF TypeOK, AuthType, ToMac
  <2>7. NvsInv'
    BY <1>1, <2>1, <2>2 DEF NvsInv, Storing, Starting, Phase
  <2>8. MacInv'
    BY <1>1, <1>2, <2>1, <2>3, <2>4, <2>5
       DEF MacInv, Answered, Agreed, Storing, Starting, Phase
  <2> QED
    BY <2>6, <2>7, <2>8 DEF IInv
<1> QED
  BY <1>3, <1>4

\* The two writes of an enrollment key.
LEMMA StoringStep == IInv /\ (StoreKey \/ CloseMigration) => IInv'
<1> SUFFICES ASSUME IInv, StoreKey \/ CloseMigration PROVE IInv'
  OBVIOUS
<1> USE Facts
<1>1. /\ phase \in {"storeKey", "closeMigration"}
      /\ phase' \in {"closeMigration", "commitKey"}
      /\ auth' = auth /\ DeviceOnly
  BY DEF StoreKey, CloseMigration
<1>2. PICK e \in Image :
        /\ e.key = auth.pending /\ e.revision = "current"
        /\ \/ nvs' = Append(nvs, e)
           \/ Len(nvs) > 1 /\ nvs' = [nvs EXCEPT ![Len(nvs)] = e]
  <2>1. CASE StoreKey
    <3> DEFINE e == [View EXCEPT !.key = auth.pending]
    <3>1. e \in Image /\ e.key = auth.pending /\ e.revision = View.revision
      BY DEF Image, AuthType
    <3>2. View.revision = "current"
      BY <2>1 DEF StoreKey, NvsInv
    <3>3. \/ nvs' = Append(nvs, e)
          \/ Len(nvs) > 1 /\ nvs' = [nvs EXCEPT ![Len(nvs)] = e]
      BY <2>1 DEF StoreKey, KeyUncommitted
    <3> HIDE DEF e
    <3> QED
      BY <3>1, <3>2, <3>3
  <2>2. CASE CloseMigration
    <3> DEFINE e == [View EXCEPT !.migration = FALSE]
    <3>1. e \in Image /\ e.key = View.key /\ e.revision = View.revision
      BY DEF Image
    <3> QED
      BY <1>1, <2>2, <3>1 DEF CloseMigration, NvsInv
  <2> QED
    BY <2>1, <2>2
<1>3. nvs' \in Seq(Image) \ {<<>>} /\ View' = e /\ Durable' = Durable
  BY <1>2, Written, Rewritten
<1>4. TypeOK'
  BY <1>1, <1>3 DEF DeviceOnly, TypeOK, Phase
<1>5. NvsInv'
  <2>1. enrolled = {} /\ auth.shared = NoKey /\ auth.pending # NoKey
    BY <1>1 DEF NvsInv, Storing
  <2> QED
    BY <1>1, <1>2, <1>3, <2>1 DEF DeviceOnly, NvsInv, Storing, Starting, Phase
<1>6. MacInv'
  BY <1>1, <1>3 DEF DeviceOnly, MacInv, Asked, Answered, Agreed, Storing, Starting, Phase
<1> QED
  BY <1>4, <1>5, <1>6 DEF IInv

\* The answer at the end of the saving, whether it succeeded or failed.
LEMMA SavingAnswered ==
  ASSUME IInv, phase \in Storing, NEW answer \in {"succeeded", "storageFailed"},
         Reply(answer, NoKey), phase' = "up", UNCHANGED <<mac, toDevice>>,
         answer = "succeeded" => Durable'.key = auth.pending
  PROVE  /\ toMac' \in Seq(ToMac) /\ Len(toMac') <= 1
         /\ link' \in {"down", "up", "closing"}
         /\ MacInv'
<1> USE Facts
<1>1. CASE link = "down"
  <2>1. UNCHANGED <<toMac, link>>
    BY <1>1 DEF Reply
  <2>2. mac.stage = "idle" /\ toDevice = <<>> /\ toMac = <<>>
    BY <1>1 DEF MacInv
  <2>3. MacInv'
    BY <1>1, <2>1, <2>2 DEF MacInv, Storing, Starting, Phase
  <2> QED
    BY <1>1, <2>1, <2>3
<1>2. CASE link # "down"
  <2>1. /\ mac.stage = "responseSent" /\ toDevice = <<>> /\ toMac = <<>>
        /\ mac.file = auth.pending /\ mac.file # NoKey
    BY <1>2 DEF MacInv
  <2>2. /\ toMac' \in Seq(ToMac) /\ Len(toMac') <= 1 /\ toMac' # <<>>
        /\ Head(toMac').answer = answer /\ Head(toMac').key = NoKey
        /\ link' \in {"up", "closing"}
    BY <1>2, <2>1, Replied DEF Answer
  <2>3. MacInv'
    BY <2>1, <2>2 DEF MacInv, Answered, Agreed, Storing, Starting, Phase
  <2> QED
    BY <2>2, <2>3
<1> QED
  BY <1>1, <1>2

LEMMA CommitKeyStep == IInv /\ CommitKey => IInv'
<1> SUFFICES ASSUME IInv, CommitKey PROVE IInv'
  OBVIOUS
<1> USE Facts
<1> DEFINE a == [auth EXCEPT !.shared = auth.pending, !.migration = FALSE]
<1>1. a \in AuthType /\ a.shared = auth.pending
  BY DEF AuthType
<1>2. Cleared(a) \in AuthType /\ Cleared(a).shared = auth.pending /\ Cleared(a).pending = NoKey
  BY <1>1, ClearedType
<1>3. /\ phase = "commitKey" /\ phase' = "up" /\ nvs' = <<View>>
      /\ enrolled' = enrolled \cup {auth.pending} /\ Reply("succeeded", NoKey)
      /\ UNCHANGED <<allowEnrollment, mac, toDevice, faults>>
      /\ auth' = Cleared(a)
  BY DEF CommitKey, Committed, AfterCommit
<1> HIDE DEF a
<1>4. /\ enrolled = {} /\ auth.pending # NoKey
      /\ View.key = auth.pending /\ View.revision = "current"
  BY <1>3 DEF NvsInv, Storing
<1>5. /\ nvs' \in Seq(Image) \ {<<>>} /\ Len(nvs') = 1 /\ View' = View /\ Durable' = View
      /\ \A k : AllHold(k)' <=> (View.key = k /\ View.revision = "current")
  BY <1>3, Single
<1>6. /\ toMac' \in Seq(ToMac) /\ Len(toMac') <= 1
      /\ link' \in {"down", "up", "closing"}
      /\ MacInv'
  BY <1>3, <1>4, <1>5, SavingAnswered DEF Storing
<1>7. TypeOK'
  BY <1>2, <1>3, <1>4, <1>5, <1>6 DEF TypeOK, AuthType, ToMac, Phase
<1>8. NvsInv'
  BY <1>2, <1>3, <1>4, <1>5 DEF NvsInv, Storing, Starting, Phase
<1> QED
  BY <1>6, <1>7, <1>8 DEF IInv

\* A save that ends without the key, by a fault or for the missing entry.
LEMMA SaveFailsStep == IInv /\ (SaveFails \/ MigrationNotFound) => IInv'
<1> SUFFICES ASSUME IInv, SaveFails \/ MigrationNotFound PROVE IInv'
  OBVIOUS
<1> USE Facts
<1>1. /\ phase \in Storing /\ phase' = "up" /\ Reply("storageFailed", NoKey)
      /\ faults' \in 0 .. MaxFaults
      /\ UNCHANGED <<allowEnrollment, nvs, mac, toDevice, enrolled>>
      /\ View' = View
      /\ auth' \in AuthType /\ auth'.shared = auth.shared /\ auth'.pending = NoKey
  <2>1. phase \in Storing /\ SaveRejected
    BY DEF SaveFails, MigrationNotFound, Storing
  <2>2. faults' \in 0 .. MaxFaults
    BY AuthAssumption DEF SaveFails, MigrationNotFound, TypeOK
  <2> QED
    BY <2>1, <2>2, ClearedType DEF SaveRejected, View
<1>2. auth.shared = NoKey /\ enrolled = {}
  BY <1>1 DEF NvsInv, Storing
<1>3. /\ toMac' \in Seq(ToMac) /\ Len(toMac') <= 1
      /\ link' \in {"down", "up", "closing"}
      /\ MacInv'
  BY <1>1, SavingAnswered
<1>4. TypeOK'
  BY <1>1, <1>3, AuthAssumption DEF TypeOK, AuthType, ToMac, Phase
<1>5. NvsInv'
  BY <1>1, <1>2 DEF NvsInv, Storing, Starting, Phase
<1> QED
  BY <1>3, <1>4, <1>5 DEF IInv

------------------------------------------------------------------------------
(* The steps of the Mac                                                     *)

\* A step that leaves the device alone leaves its part of the invariant.
LEMMA DeviceKept ==
  ASSUME IInv, UNCHANGED <<nvs, phase, auth, enrolled>>
  PROVE  /\ NvsInv' /\ View' = View /\ Durable' = Durable
<1>1. View' = View /\ Durable' = Durable /\ \A k : AllHold(k)' <=> AllHold(k)
  BY DEF View, Durable, AllHold
<1> QED
  BY <1>1, Facts DEF NvsInv

\* A frame is sent when none is under way.
LEMMA Sent ==
  ASSUME IInv, toDevice = <<>>, NEW m \in ToDevice, toDevice' = Append(toDevice, m)
  PROVE  /\ toDevice' \in Seq(ToDevice) /\ Len(toDevice') <= 1 /\ toDevice' # <<>>
         /\ Head(toDevice') = m
  BY ShortAppend

LEMMA SendHelloStep == IInv /\ SendHello => IInv'
<1> SUFFICES ASSUME IInv, SendHello PROVE IInv'
  OBVIOUS
<1> USE Facts
<1> DEFINE m == [type |-> "hello", enroll |-> Known = NoKey, key |-> NoKey]
<1>1. /\ link = "up" /\ mac.stage = "idle" /\ toDevice' = Append(toDevice, m)
      /\ mac' = [mac EXCEPT !.stage = "helloSent", !.cached = Known, !.stored = Known]
      /\ UNCHANGED <<toMac, faults, allowEnrollment, nvs, phase, auth, link, enrolled>>
  BY DEF SendHello, MacOnly
<1>2. m \in ToDevice /\ m.type = "hello" /\ m.enroll = (Known = NoKey)
  BY DEF ToDevice
<1> HIDE DEF m
<1>3. Known = mac.file /\ toDevice = <<>> /\ toMac = <<>> /\ phase = "up"
  BY <1>1 DEF MacInv, Known, Storing, Starting, Phase, TypeOK
<1>4. /\ mac' \in MacType /\ mac'.stage = "helloSent" /\ mac'.file = mac.file
      /\ mac'.cached = mac.file /\ mac'.stored = mac.file
  BY <1>1, <1>3 DEF MacType, Stage
<1>5. /\ toDevice' \in Seq(ToDevice) /\ Len(toDevice') <= 1 /\ toDevice' # <<>>
      /\ Head(toDevice') = m
  BY <1>1, <1>2, <1>3, Sent
<1>6. TypeOK'
  BY <1>1, <1>4, <1>5 DEF TypeOK, MacType, ToDevice
<1>7. NvsInv'
  BY <1>1, DeviceKept
<1>8. MacInv'
  BY <1>1, <1>2, <1>3, <1>4, <1>5 DEF MacInv, Asked, Storing, Starting, Phase
<1> QED
  BY <1>6, <1>7, <1>8 DEF IInv

\* An answer that arrives is the only frame under way, from a device that is up.
LEMMA MacReceived ==
  ASSUME IInv, NEW answers, MacReceives(answers)
  PROVE  /\ phase = "up" /\ link # "down" /\ toDevice = <<>> /\ toMac' = <<>>
         /\ Answered(Head(toMac)) /\ Head(toMac).answer \in answers
         /\ Head(toMac) \in ToMac
         /\ UNCHANGED <<allowEnrollment, nvs, phase, auth, link, enrolled>>
         /\ NvsInv' /\ View' = View /\ Durable' = Durable
<1>1. /\ phase = "up" /\ link # "down" /\ toDevice = <<>> /\ toMac # <<>>
      /\ toMac' = Tail(toMac) /\ Answered(Head(toMac)) /\ Head(toMac).answer \in answers
      /\ UNCHANGED <<allowEnrollment, nvs, phase, auth, link, enrolled>>
  BY Facts DEF MacReceives, MacOnly, MacInv
<1>2. Tail(toMac) = <<>> /\ Head(toMac) \in ToMac
  BY <1>1, Facts, ShortTail
<1> QED
  BY <1>1, <1>2, DeviceKept

LEMMA HandleChallengeStep == IInv /\ HandleChallenge => IInv'
<1> SUFFICES ASSUME IInv, HandleChallenge PROVE IInv'
  OBVIOUS
<1> USE Facts
<1> DEFINE key == Head(toMac).key
           offered == IF key = NoKey THEN mac.stored ELSE key
           m == [type |-> "response", enroll |-> FALSE, key |-> offered]
<1>1. /\ phase = "up" /\ link # "down" /\ toDevice = <<>> /\ toMac' = <<>>
      /\ key \in Keys \cup {NoKey}
      /\ UNCHANGED <<allowEnrollment, nvs, phase, auth, link, enrolled>>
      /\ NvsInv' /\ mac.stage = "helloSent" /\ faults' = faults
  BY MacReceived DEF HandleChallenge, ToMac
<1>2. mac.stored = mac.file
  BY <1>1 DEF MacInv
<1>3. CASE key = NoKey /\ mac.stored = NoKey
  <2>1. /\ toDevice' = toDevice /\ mac' \in MacType /\ mac'.stage = "failed"
        /\ mac'.file = mac.file /\ mac'.cached = mac.cached
    BY <1>3 DEF HandleChallenge, MacType, Stage
  <2>2. TypeOK'
    BY <1>1, <2>1 DEF TypeOK, MacType, ToMac
  <2>3. MacInv'
    BY <1>1, <2>1 DEF MacInv, Storing, Starting, Phase
  <2> QED
    BY <1>1, <2>2, <2>3 DEF IInv
<1>4. CASE ~(key = NoKey /\ mac.stored = NoKey)
  <2>1. toDevice' = Append(toDevice, m)
    BY <1>4 DEF HandleChallenge
  <2>2. /\ mac' \in MacType /\ mac'.stage = "responseSent" /\ mac'.file = offered
        /\ mac'.cached # NoKey => mac'.cached = mac'.file
    <3>1. CASE key = NoKey
      <4>1. mac' = [mac EXCEPT !.stage = "responseSent", !.enrolling = key]
        BY <1>4, <3>1 DEF HandleChallenge
      <4> QED
        BY <1>1, <1>2, <3>1, <4>1 DEF MacType, Stage, MacInv
    <3>2. CASE key # NoKey
      <4> DEFINE saved == [mac EXCEPT !.cached = key, !.file = key]
      <4>1. mac' = [saved EXCEPT !.stage = "responseSent", !.enrolling = key]
        BY <1>4, <3>2 DEF HandleChallenge, Saved
      <4>2. saved \in MacType /\ saved.cached = key /\ saved.file = key
        BY <1>1 DEF MacType
      <4> HIDE DEF saved
      <4> QED
        BY <1>1, <3>2, <4>1, <4>2 DEF MacType, Stage
    <3> QED
      BY <3>1, <3>2
  <2>3. m \in ToDevice /\ m.type = "response" /\ m.key = offered
    BY <1>1 DEF ToDevice, MacType
  <2>4. offered # NoKey
    BY <1>4
  <2> HIDE DEF m, offered
  <2>5. /\ toDevice' \in Seq(ToDevice) /\ Len(toDevice') <= 1 /\ toDevice' # <<>>
        /\ Head(toDevice') = m
    BY <1>1, <2>1, <2>3, Sent
  <2>6. TypeOK'
    BY <1>1, <2>2, <2>5 DEF TypeOK, MacType, ToMac, ToDevice
  <2>7. MacInv'
    BY <1>1, <2>2, <2>3, <2>4, <2>5 DEF MacInv, Asked, Storing, Starting, Phase
  <2> QED
    BY <1>1, <2>6, <2>7 DEF IInv
<1> QED
  BY <1>3, <1>4

\* Only a Mac without a key is offered one, so a file that was not written
\* leaves nothing in the cache that is not in the file.
LEMMA KeyFileFailsStep == IInv /\ KeyFileFails => IInv'
<1> SUFFICES ASSUME IInv, KeyFileFails PROVE IInv'
  OBVIOUS
<1> USE Facts
<1>1. /\ phase = "up" /\ link # "down" /\ toDevice' = <<>> /\ toMac' = <<>>
      /\ Answered(Head(toMac)) /\ Head(toMac).answer = "challenge"
      /\ Head(toMac).key \in Keys \cup {NoKey} /\ Head(toMac).key # NoKey
      /\ UNCHANGED <<allowEnrollment, nvs, phase, auth, link, enrolled>>
      /\ NvsInv' /\ mac.stage = "helloSent"
      /\ faults < MaxFaults /\ faults' = faults + 1
  BY MacReceived DEF KeyFileFails, ToMac
<1>2. PICK file \in {mac.file, Head(toMac).key} :
        mac' = [mac EXCEPT !.stage = "failed", !.file = file]
  BY DEF KeyFileFails
<1>3. mac' \in MacType /\ mac'.stage = "failed" /\ mac'.cached = mac.cached
  BY <1>1, <1>2 DEF MacType, Stage
<1>4. mac.cached = NoKey
  BY <1>1 DEF MacInv, Answered
<1>5. TypeOK'
  BY <1>1, <1>3, AuthAssumption DEF TypeOK, MacType, ToMac, ToDevice
<1>6. MacInv'
  BY <1>1, <1>3, <1>4 DEF MacInv, Storing, Starting, Phase
<1> QED
  BY <1>1, <1>5, <1>6 DEF IInv

LEMMA HandleResultStep == IInv /\ HandleResult => IInv'
<1> SUFFICES ASSUME IInv, HandleResult PROVE IInv'
  OBVIOUS
<1> USE Facts
<1>1. /\ phase = "up" /\ link # "down" /\ toDevice' = <<>> /\ toMac' = <<>>
      /\ Answered(Head(toMac)) /\ Durable' = Durable
      /\ UNCHANGED <<allowEnrollment, nvs, phase, auth, link, enrolled>>
      /\ NvsInv'
  BY MacReceived DEF HandleResult
<1>2. /\ mac' \in MacType /\ mac'.stage \in {"authenticated", "failed"}
      /\ mac'.cached # NoKey => mac'.cached = mac'.file
      /\ mac'.stage = "authenticated" =>
           Head(toMac).answer = "succeeded" /\ mac'.file = mac.file
      /\ faults' \in 0 .. MaxFaults
  <2>1. mac.cached # NoKey => mac.cached = mac.file
    BY DEF MacInv
  <2>2. faults \in 0 .. MaxFaults /\ (faults < MaxFaults => faults + 1 \in 0 .. MaxFaults)
    BY AuthAssumption DEF TypeOK
  <2>3. CASE mac' = [mac EXCEPT !.stage = "authenticated"]
    BY <2>1, <2>2, <2>3 DEF HandleResult, MacType, Stage
  <2>4. CASE mac' = [mac EXCEPT !.stage = "failed"]
    BY <2>1, <2>2, <2>4 DEF HandleResult, MacType, Stage
  <2>5. ASSUME NEW deleted \in BOOLEAN,
               mac' = [mac EXCEPT !.stage = "failed", !.cached = NoKey,
                                  !.file = IF deleted THEN NoKey ELSE @]
        PROVE  mac' \in MacType /\ mac'.stage = "failed" /\ mac'.cached = NoKey
    BY <2>5 DEF MacType, Stage
  <2> QED
    BY <2>2, <2>3, <2>4, <2>5 DEF HandleResult
<1>3. TypeOK'
  BY <1>1, <1>2 DEF TypeOK, MacType, ToMac, ToDevice
<1>4. MacInv'
  BY <1>1, <1>2 DEF MacInv, Answered, Agreed, Storing, Starting, Phase
<1> QED
  BY <1>1, <1>3, <1>4 DEF IInv

------------------------------------------------------------------------------
(* The connection and the faults                                            *)

LEMMA ConnectStep == IInv /\ Connect => IInv'
<1> SUFFICES ASSUME IInv, Connect PROVE IInv'
  OBVIOUS
<1> USE Facts
<1>1. /\ link = "down" /\ link' = "up" /\ phase = "up"
      /\ UNCHANGED <<allowEnrollment, nvs, phase, mac, toDevice, toMac, enrolled, faults>>
      /\ auth' \in AuthType /\ auth'.shared = auth.shared /\ auth'.pending = NoKey
  BY ClearedType DEF Connect
<1>2. View' = View /\ Durable' = Durable /\ \A k : AllHold(k)' <=> AllHold(k)
  BY <1>1 DEF View, Durable, AllHold
<1>3. TypeOK'
  BY <1>1 DEF TypeOK, AuthType
<1>4. NvsInv'
  BY <1>1, <1>2 DEF NvsInv, Storing, Starting, Phase
<1>5. MacInv'
  BY <1>1 DEF MacInv, Storing, Starting, Phase
<1> QED
  BY <1>3, <1>4, <1>5 DEF IInv

\* Nothing of the exchange is left once the connection has ended.
LEMMA Ended ==
  ASSUME IInv, ConnectionEnds
  PROVE  /\ mac' \in MacType /\ link' = "down" /\ toDevice' = <<>> /\ toMac' = <<>>
         /\ MacInv'
<1>1. /\ link' = "down" /\ toDevice' = <<>> /\ toMac' = <<>>
      /\ mac' = [mac EXCEPT !.stage = "idle", !.stored = NoKey, !.enrolling = NoKey]
  BY DEF ConnectionEnds, StageAfterReset
<1>2. /\ mac' \in MacType /\ mac'.stage = "idle"
      /\ mac'.cached = mac.cached /\ mac'.file = mac.file
  BY <1>1, Facts DEF MacType, Stage
<1> QED
  BY <1>1, <1>2, Facts DEF MacInv

LEMMA DisconnectStep == IInv /\ (Disconnect \/ ConnectionLost) => IInv'
<1> SUFFICES ASSUME IInv, Disconnect \/ ConnectionLost PROVE IInv'
  OBVIOUS
<1>1. /\ UNCHANGED <<allowEnrollment, nvs, phase, auth, enrolled>>
      /\ ConnectionEnds /\ faults' \in 0 .. MaxFaults
  BY Facts, AuthAssumption DEF Disconnect, ConnectionLost, Fault, TypeOK
<1>2. /\ mac' \in MacType /\ link' = "down" /\ toDevice' = <<>> /\ toMac' = <<>>
      /\ MacInv'
  BY <1>1, Ended
<1>3. TypeOK'
  BY <1>1, <1>2, Facts DEF TypeOK, MacType
<1> QED
  BY <1>1, <1>2, <1>3, DeviceKept DEF IInv

LEMMA CrashStep == IInv /\ Crash => IInv'
<1> SUFFICES ASSUME IInv, Crash PROVE IInv'
  OBVIOUS
<1> USE Facts
<1>1. PICK i \in 1 .. Len(nvs) : nvs' = <<nvs[i]>>
  BY DEF Crash
<1>2. /\ phase' = "readRevision" /\ auth' = Booting /\ ConnectionEnds
      /\ UNCHANGED <<allowEnrollment, enrolled>> /\ faults' \in 0 .. MaxFaults
  BY AuthAssumption DEF Crash, Fault, TypeOK
<1>3. nvs[i] \in Image
  BY <1>1
<1>4. /\ nvs' \in Seq(Image) \ {<<>>} /\ Len(nvs') = 1
      /\ \A k : AllHold(k)' <=> (nvs[i].key = k /\ nvs[i].revision = "current")
  BY <1>1, <1>3, Single
<1>5. /\ mac' \in MacType /\ link' = "down" /\ toDevice' = <<>> /\ toMac' = <<>>
      /\ MacInv'
  BY <1>2, Ended
<1>6. TypeOK'
  BY <1>2, <1>4, <1>5 DEF TypeOK, MacType, Booting, Phase
<1>7. NvsInv'
  <2>1. \A k \in enrolled : nvs[i].key = k /\ nvs[i].revision = "current"
    BY <1>1 DEF NvsInv, AllHold
  <2> QED
    BY <1>2, <1>4, <2>1 DEF NvsInv, Booting, Storing, Starting, Phase
<1> QED
  BY <1>5, <1>6, <1>7 DEF IInv

LEMMA MacRestartsStep == IInv /\ MacRestarts => IInv'
<1> SUFFICES ASSUME IInv, MacRestarts PROVE IInv'
  OBVIOUS
<1> USE Facts
<1>1. /\ UNCHANGED <<allowEnrollment, nvs, phase, auth, enrolled>>
      /\ link' = "down" /\ toDevice' = <<>> /\ toMac' = <<>> /\ faults' \in 0 .. MaxFaults
  BY AuthAssumption DEF MacRestarts, Fault, TypeOK
<1>2. mac' \in MacType /\ mac'.stage = "idle" /\ mac'.cached = NoKey
  <2>1. PICK file \in {mac.file, NoKey} :
          mac' = [stage |-> "idle", file |-> file, cached |-> NoKey,
                  stored |-> NoKey, enrolling |-> NoKey]
    BY DEF MacRestarts
  <2> QED
    BY <2>1 DEF MacType, Stage
<1>3. TypeOK'
  BY <1>1, <1>2 DEF TypeOK, MacType
<1>4. MacInv'
  BY <1>1, <1>2 DEF MacInv
<1> QED
  BY <1>1, <1>3, <1>4, DeviceKept DEF IInv

LEMMA StepInv == IInv /\ [Next]_vars => IInv'
<1> SUFFICES ASSUME IInv, [Next]_vars PROVE IInv'
  OBVIOUS
<1>1. CASE Device
  BY <1>1, BootStep, HandleHelloStep, HandleResponseStep, StoringStep, CommitKeyStep,
     SaveFailsStep DEF Device, Save
<1>2. CASE TheMac \/ KeyFileFails
  BY <1>2, SendHelloStep, HandleChallengeStep, HandleResultStep, KeyFileFailsStep DEF TheMac
<1>3. CASE SaveFails \/ Connect \/ Disconnect \/ ConnectionLost \/ Crash \/ MacRestarts
  BY <1>3, SaveFailsStep, ConnectStep, DisconnectStep, CrashStep, MacRestartsStep
<1>4. CASE UNCHANGED vars
  BY <1>4 DEF vars, IInv, TypeOK, NvsInv, MacInv, Asked, Answered, Agreed, AllHold,
              View, Durable, Storing, Starting
<1> QED
  BY <1>1, <1>2, <1>3, <1>4 DEF Next

LEMMA Invariance == Spec => []IInv
  BY InitInv, StepInv, PTL DEF Spec

------------------------------------------------------------------------------
(* Theorems                                                                 *)

\* Every step of the boot, the exchange and the faults keeps the types, the
\* bound of one frame under way each way included.
THEOREM TypeCorrect == Spec => []TypeOK
<1>1. IInv => TypeOK
  BY DEF IInv
<1> QED
  BY <1>1, Invariance, PTL

\* For any set of keys and any number of crashes, restarts, lost connections
\* and failures: a Mac told of success holds the key the device committed.
THEOREM SuccessDurable == Spec => []SuccessIsDurable
<1>1. IInv => SuccessIsDurable
  BY DEF IInv, MacInv, Agreed, SuccessIsDurable
<1> QED
  BY <1>1, Invariance, PTL

\* One enrollment at most is confirmed: every confirmed key is the one that all
\* images of NVS hold.
THEOREM EnrollmentOnce == Spec => []EnrolledOnce
<1>1. IInv => EnrolledOnce
  <2> SUFFICES ASSUME IInv PROVE Cardinality(enrolled) <= 1
    BY DEF EnrolledOnce
  <2>1. \A k \in enrolled : k = View.key
    BY HeldByEnds, Facts DEF NvsInv
  <2>2. CASE enrolled = {}
    BY <2>2, FS_EmptySet
  <2>3. CASE enrolled # {}
    <3>1. enrolled = {View.key}
      BY <2>1, <2>3
    <3>2. Cardinality({View.key}) = 1
      BY FS_Singleton, Zenon
    <3> QED
      BY <3>1, <3>2
  <2> QED
    BY <2>2, <2>3
<1> QED
  BY <1>1, Invariance, PTL

\* No step takes a confirmed key out of NVS: neither the migration at boot nor
\* a later enrollment, nor a crash between two of their writes.
THEOREM KeyKept == Spec => EnrolledKeyKept
<1>1. IInv /\ IInv' /\ [Next]_vars => (View.key \in enrolled => nvs'[Len(nvs')].key = View.key)
  <2> SUFFICES ASSUME IInv, IInv', [Next]_vars, View.key \in enrolled
               PROVE  nvs'[Len(nvs')].key = View.key
    OBVIOUS
  <2>1. enrolled \subseteq enrolled'
    BY DEF Next, Device, Boot, ReadRevision, EraseKey, SetRevision, OpenMigration,
           CommitMigration, LoadKey, DeviceOnly, HandleHello, HandleResponse, Save, StoreKey,
           CloseMigration, MigrationNotFound, SaveRejected, CommitKey, SaveFails, TheMac, SendHello, HandleChallenge,
           HandleResult, MacReceives, MacOnly, KeyFileFails, Connect, Disconnect,
           ConnectionLost, Crash, MacRestarts, vars
  <2>2. \A k \in enrolled' : \A i \in 1 .. Len(nvs') : nvs'[i].key = k
    BY DEF IInv, NvsInv, AllHold
  <2>3. nvs' \in Seq(Image) \ {<<>>}
    BY DEF IInv, TypeOK, Image
  <2>4. Len(nvs') \in 1 .. Len(nvs')
    BY <2>3, Images
  <2> QED
    BY <2>1, <2>2, <2>4
<1> QED
  BY <1>1, Invariance, PTL DEF Spec, EnrolledKeyKept
==============================================================================
