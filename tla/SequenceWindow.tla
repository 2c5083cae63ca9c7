---------------------------- MODULE SequenceWindow ----------------------------
(***************************************************************************)
(* The anti-replay window of ble_protocol.c (desk_sequence_window_accept): *)
(* the newest sequence number of a session and a bitmap of the WindowSize  *)
(* numbers before it.  The bitmap is the set of the ages whose bit is set. *)
(***************************************************************************)
EXTENDS Integers

CONSTANTS
  SeqMod,      \* number of sequence numbers (2^16 in the code)
  WindowSize   \* DESK_PROTOCOL_SEQUENCE_WINDOW_SIZE (32)

ASSUME SequenceAssumption ==
  /\ SeqMod \in Nat \ {0}
  /\ WindowSize \in Nat \ {0}

SequenceNumber == 0 .. SeqMod - 1

Window == [initialized : BOOLEAN, newest : SequenceNumber,
           seen : SUBSET (0 .. WindowSize - 1)]

\* The window after memset(&window, 0, sizeof(window)).
EmptyWindow == [initialized |-> FALSE, newest |-> 0, seen |-> {}]

Forward(window, seq) == (seq - window.newest) % SeqMod
Age(window, seq) == (window.newest - seq) % SeqMod

IsNewest(window, seq) ==
  /\ Forward(window, seq) # 0
  /\ Forward(window, seq) < SeqMod \div 2

FillsGap(window, seq) ==
  /\ Forward(window, seq) # 0
  /\ Age(window, seq) < WindowSize
  /\ Age(window, seq) \notin window.seen

\* desk_sequence_window_accept(...) == DESK_SEQUENCE_ACCEPTED
Accepts(window, seq) ==
  \/ ~window.initialized
  \/ IsNewest(window, seq)
  \/ FillsGap(window, seq)

\* seen_bitmap << distance, bits beyond the window falling off.
Shift(seen, distance) == {age + distance : age \in seen} \cap (0 .. WindowSize - 1)

\* The window desk_sequence_window_accept leaves behind.
AfterSequence(window, seq) ==
  IF ~window.initialized
  THEN [initialized |-> TRUE, newest |-> seq, seen |-> {0}]
  ELSE IF IsNewest(window, seq)
  THEN [window EXCEPT !.newest = seq,
                      !.seen = Shift(@, Forward(window, seq)) \cup {0}]
  ELSE IF FillsGap(window, seq)
  THEN [window EXCEPT !.seen = @ \cup {Age(window, seq)}]
  ELSE window
==============================================================================
