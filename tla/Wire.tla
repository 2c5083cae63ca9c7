-------------------------------- MODULE Wire --------------------------------
(***************************************************************************)
(* A frame on its way between the Mac and the device, in fragments: the    *)
(* cutting of a frame (DeskProtocolCodec.fragment and sendMessage on the   *)
(* Mac, desk_ble_link_send_frame on the device), the reassembly            *)
(* (handle_rx_fragment on the device, DeskFragmentReassembler on the Mac)  *)
(* and the codec's verdict on the bytes put together.                      *)
(*                                                                         *)
(* A behaviour follows one direction, chosen at the start.  The two        *)
(* senders differ: the Mac hands all fragments to CoreBluetooth at once,   *)
(* the device notifies one after the other, may fail at each, and does not *)
(* see that the connection it began on has gone.  The two receivers        *)
(* decide alike.  Any program of the Mac may write to the device's         *)
(* characteristic, on the connection that the helper uses: its fragments   *)
(* are the foreign ones.                                                   *)
(*                                                                         *)
(* Bytes are abstracted to the frame and the piece of it that they are.    *)
(***************************************************************************)
EXTENDS Naturals, Sequences

CONSTANTS
  MaxFragments,        \* fragments of the longest frame
  IdModulus,           \* frame identifiers wrap here (2^16 in the code)
  ReassemblyTimeout,   \* REASSEMBLY_TIMEOUT_MS in ticks
  MaxFrames,           \* bound: frames sent
  MaxConnections,      \* bound: connections
  MaxForeign,          \* bound: foreign fragments written
  MaxFaults            \* bound: packets that the device cannot copy

ASSUME WireAssumption ==
  /\ MaxFragments \in Nat \ {0}
  /\ IdModulus \in Nat \ {0}
  /\ ReassemblyTimeout \in Nat
  /\ MaxFrames \in Nat
  /\ MaxConnections \in Nat
  /\ MaxForeign \in Nat
  /\ MaxFaults \in Nat

VARIABLES
  direction,   \* who receives: "device" or "mac"
  connected,   \* the connection is up, subscribed and encrypted
  connections, \* how many there were
  channel,     \* fragments on their way
  begun,       \* frames whose sending began, numbered from 1
  nextId,      \* next_tx_frame_id, nextFrameID
  sending,     \* the device's send_frame under way
  assembly,    \* reassembly_state_t, DeskFragmentReassembler
  delivered,   \* frames that the receiver handed on
  failing,     \* the Mac has an error and will cancel the connection
  damaged,     \* history: frames that something happened to on the way
  foreign,     \* foreign fragments written so far
  faults       \* packets the device could not copy so far

vars == <<direction, connected, connections, channel, begun, nextId, sending,
          assembly, delivered, failing, damaged, foreign, faults>>

Id == 0 .. IdModulus - 1

Foreign == 0  \* the frame of a foreign fragment

\* A packet: frame id, index and count, and what its bytes belong to.
Fragment == [frame : Nat, id : Id, index : Nat, count : Nat]

Piece == [frame : Nat, index : Nat]

Assembly == [active : BOOLEAN, id : Id, count : Nat, pieces : Seq(Piece), age : Nat]

\* reset_reassembly, DeskFragmentReassembler.reset
NoAssembly == [active |-> FALSE, id |-> 0, count |-> 0, pieces |-> << >>, age |-> 0]

NotSending == [frame |-> 0, id |-> 0, index |-> 0, count |-> 0]

Init ==
  /\ direction \in {"device", "mac"}
  /\ connected = FALSE
  /\ connections = 0
  /\ channel = << >>
  /\ begun = 0
  /\ nextId = 0
  /\ sending = NotSending
  /\ assembly = NoAssembly
  /\ delivered = {}
  /\ failing = FALSE
  /\ damaged = {}
  /\ foreign = 0
  /\ faults = 0

-----------------------------------------------------------------------------
(* Sending *)

FragmentOf(frame, id, index, count) ==
  [frame |-> frame, id |-> id, index |-> index, count |-> count]

\* DeskProtocolCodec.fragment
Fragments(frame, id, count) ==
  [i \in 1 .. count |-> FragmentOf(frame, id, i - 1, count)]

\* Mutant: no modulus.
NextIdUnwrapped(id) == id + 1

NextIdAfter(id) == (id + 1) % IdModulus

\* sendMessage: the count follows from the length and the negotiated MTU.
MacSends(count) ==
  /\ direction = "device"
  /\ connected
  /\ begun < MaxFrames
  /\ begun' = begun + 1
  /\ channel' = channel \o Fragments(begun + 1, nextId, count)
  /\ nextId' = NextIdAfter(nextId)
  /\ UNCHANGED <<direction, connected, connections, sending, assembly, delivered,
                 failing, damaged, foreign, faults>>

\* desk_ble_link_send_frame up to its loop: the link is read once, and an
\* identifier is spent also where sending is refused.
DeviceSends(count) ==
  /\ direction = "mac"
  /\ sending = NotSending
  /\ connected
  /\ begun < MaxFrames
  /\ begun' = begun + 1
  /\ sending' = FragmentOf(begun + 1, nextId, 0, count)
  /\ nextId' = NextIdAfter(nextId)
  /\ UNCHANGED <<direction, connected, connections, channel, assembly, delivered,
                 failing, damaged, foreign, faults>>

DeviceSendRefused ==
  /\ direction = "mac"
  /\ sending = NotSending
  /\ ~connected
  /\ nextId' = NextIdAfter(nextId)
  /\ UNCHANGED <<direction, connected, connections, channel, begun, sending,
                 assembly, delivered, failing, damaged, foreign, faults>>

\* One turn of the loop: the handle read at the start is also the next
\* connection's, so that the notification goes out on whichever is up.
DeviceNotifies ==
  /\ sending # NotSending
  /\ connected
  /\ channel' = Append(channel, sending)
  /\ sending' = IF sending.index + 1 = sending.count THEN NotSending
                ELSE [sending EXCEPT !.index = @ + 1]
  /\ UNCHANGED <<direction, connected, connections, begun, nextId, assembly,
                 delivered, failing, damaged, foreign, faults>>

\* No buffer, or ble_gatts_notify_custom refuses: the rest is not sent.
DeviceNotifyFails ==
  /\ sending # NotSending
  /\ sending' = NotSending
  /\ damaged' = damaged \union {sending.frame}
  /\ UNCHANGED <<direction, connected, connections, channel, begun, nextId,
                 assembly, delivered, failing, foreign, faults>>

\* Another program of the Mac writes a fragment: with an identifier and an
\* index of its own choice.  index = count stands for every fragment that is
\* refused whatever the receiver holds, those that are too long included.
ForeignWrite(id, index) ==
  /\ direction = "device"
  /\ connected
  /\ foreign < MaxForeign
  /\ foreign' = foreign + 1
  /\ channel' = Append(channel, FragmentOf(Foreign, id, index, MaxFragments))
  /\ UNCHANGED <<direction, connected, connections, begun, nextId, sending,
                 assembly, delivered, failing, damaged, faults>>

-----------------------------------------------------------------------------
(* Receiving *)

\* Bytes of a fragment that the assembly is waiting for.
PieceOf(fragment) == [frame |-> fragment.frame, index |-> fragment.index]

Malformed(fragment) == fragment.index >= fragment.count

Expired(held) == held.active /\ held.age > ReassemblyTimeout

Unexpired(held) == IF Expired(held) THEN NoAssembly ELSE held

\* Mutant: a first fragment does not drop what is held.
HeldForKeeping(held, fragment) ==
  IF fragment.index = 0 /\ ~Unexpired(held).active
  THEN [active |-> TRUE, id |-> fragment.id, count |-> fragment.count,
        pieces |-> << >>, age |-> 0]
  ELSE Unexpired(held)

\* What the receiver holds when it looks at the fragment: a first one drops
\* whatever was there and starts anew.
HeldFor(held, fragment) ==
  IF fragment.index = 0
  THEN [active |-> TRUE, id |-> fragment.id, count |-> fragment.count,
        pieces |-> << >>, age |-> 0]
  ELSE Unexpired(held)

Continues(held, fragment) ==
  /\ held.active
  /\ held.id = fragment.id
  /\ held.count = fragment.count
  /\ Len(held.pieces) = fragment.index

Extended(held, fragment) ==
  [held EXCEPT !.pieces = Append(@, PieceOf(fragment))]

\* The frame whose bytes these are, all in their order; Foreign if they are
\* no frame.
WholeFrame(pieces) ==
  IF \A i \in DOMAIN pieces :
       pieces[i] = [frame |-> pieces[1].frame, index |-> i - 1]
  THEN pieces[1].frame
  ELSE Foreign

\* Mutant: the header decides, the CRC is not checked.
DecodesByHeader(pieces) == pieces[1].frame # Foreign

\* desk_protocol_decode, DeskProtocolCodec.decode: magic, version, length and
\* CRC hold only of the bytes of a whole frame.
Decodes(pieces) == WholeFrame(pieces) # Foreign

FramesIn(pieces) == {pieces[i].frame : i \in DOMAIN pieces}

\* The fragment is refused and the assembly is dropped.  The error reaches
\* the helper if the packet was its own: as its write's result, or because
\* the reassembler is its own.
Refuses(fragment) ==
  /\ assembly' = NoAssembly
  /\ failing' = (failing \/ fragment.frame # Foreign)
  /\ UNCHANGED delivered

\* handle_rx_fragment, DeskFragmentReassembler.accept
Accepts(fragment) ==
  LET held == HeldFor(assembly, fragment)
      extended == Extended(held, fragment)
      complete == Len(extended.pieces) = extended.count
  IN IF Malformed(fragment) \/ ~Continues(held, fragment)
     THEN Refuses(fragment)
     ELSE \/ /\ ~complete
             /\ assembly' = extended
             /\ UNCHANGED <<delivered, failing>>
          \/ /\ complete
             /\ ~Decodes(extended.pieces)
             /\ Refuses(fragment)
          \/ /\ complete
             /\ Decodes(extended.pieces)
             /\ assembly' = NoAssembly
             /\ delivered' = delivered \union {WholeFrame(extended.pieces)}
             /\ UNCHANGED failing

\* A foreign fragment may hit the frame that is being put together.
Receive ==
  /\ channel # << >>
  /\ Accepts(Head(channel))
  /\ channel' = Tail(channel)
  /\ damaged' = IF Head(channel).frame = Foreign
                THEN damaged \union FramesIn(assembly.pieces) ELSE damaged
  /\ UNCHANGED <<direction, connected, connections, begun, nextId, sending,
                 foreign, faults>>

\* ble_hs_mbuf_to_flat fails: an error, but what is held stays.
ReceiveFails ==
  /\ channel # << >>
  /\ direction = "device"
  /\ faults < MaxFaults
  /\ faults' = faults + 1
  /\ channel' = Tail(channel)
  /\ damaged' = damaged \union {Head(channel).frame}
  /\ failing' = (failing \/ Head(channel).frame # Foreign)
  /\ UNCHANGED <<direction, connected, connections, begun, nextId, sending,
                 assembly, delivered, foreign>>

\* Time passes while a frame is half done.
Tick ==
  /\ assembly.active
  /\ assembly.age <= ReassemblyTimeout
  /\ assembly' = [assembly EXCEPT !.age = @ + 1]
  /\ damaged' = IF Expired(assembly')
                THEN damaged \union FramesIn(assembly.pieces) ELSE damaged
  /\ UNCHANGED <<direction, connected, connections, channel, begun, nextId,
                 sending, delivered, failing, foreign, faults>>

-----------------------------------------------------------------------------
(* The connection *)

\* Both ends start a connection with an empty reassembly; the Mac with
\* identifier 0 (resetSession), the device with the one it has reached.
Connect ==
  /\ ~connected
  /\ connections < MaxConnections
  /\ connected' = TRUE
  /\ connections' = connections + 1
  /\ assembly' = NoAssembly
  /\ nextId' = IF direction = "device" THEN 0 ELSE nextId
  /\ UNCHANGED <<direction, channel, begun, sending, delivered, failing, damaged,
                 foreign, faults>>

\* The frames of which something is on its way when the connection ends.
InFlight ==
  FramesIn(channel) \union FramesIn(assembly.pieces) \union {sending.frame}

\* By itself, or because the Mac cancels it after an error.
Disconnect ==
  /\ connected
  /\ connected' = FALSE
  /\ channel' = << >>
  /\ assembly' = NoAssembly
  /\ failing' = FALSE
  /\ damaged' = damaged \union InFlight
  /\ UNCHANGED <<direction, connections, begun, nextId, sending, delivered,
                 foreign, faults>>

Next ==
  \/ \E count \in 1 .. MaxFragments : MacSends(count) \/ DeviceSends(count)
  \/ DeviceSendRefused
  \/ DeviceNotifies
  \/ DeviceNotifyFails
  \/ \E id \in Id, index \in 0 .. MaxFragments : ForeignWrite(id, index)
  \/ Receive
  \/ ReceiveFails
  \/ Tick
  \/ Connect
  \/ Disconnect

Spec == Init /\ [][Next]_vars

-----------------------------------------------------------------------------
(* Properties *)

\* Every variable has its type.
TypeOK ==
  /\ direction \in {"device", "mac"}
  /\ connected \in BOOLEAN
  /\ connections \in 0 .. MaxConnections
  /\ channel \in Seq(Fragment)
  /\ begun \in 0 .. MaxFrames
  /\ nextId \in Id
  /\ sending \in Fragment
  /\ assembly \in Assembly
  /\ delivered \subseteq 0 .. MaxFrames
  /\ failing \in BOOLEAN
  /\ damaged \subseteq 0 .. MaxFrames
  /\ foreign \in 0 .. MaxForeign
  /\ faults \in 0 .. MaxFaults

\* handle_rx_fragment, DeskFragmentReassembler.accept: a frame to which
\* nothing happened is delivered once its last fragment has arrived, whatever
\* the receiver held before: half a frame whose sender gave up, a foreign
\* fragment, a frame that timed out, or the end of one begun on the connection
\* before.
IntactDelivered ==
  \A frame \in 1 .. begun :
    frame \in damaged \/ frame \in delivered
    \/ frame \in FramesIn(channel) \/ frame = sending.frame

\* The fragments of a frame, sent, cut short, mixed with foreign ones and
\* carried over a reconnection, are a stream of whole frames in their order:
\* nothing is delivered in part, twice, or out of order.
Stream == INSTANCE FrameStream WITH sent <- begun
FramesAreAStream == Stream!StreamSpec
=============================================================================
