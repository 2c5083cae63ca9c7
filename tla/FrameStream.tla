---------------------------- MODULE FrameStream ----------------------------
(***************************************************************************)
(* What the fragments promise to the layers above them, the sequence       *)
(* window and the session: a stream of frames, numbered in the order in    *)
(* which they are sent.  A frame arrives whole or not at all, at most      *)
(* once, and never after a later one.                                      *)
(***************************************************************************)
EXTENDS Naturals

VARIABLES
  sent,      \* frames sent so far
  delivered  \* the frames that were delivered

streamVars == <<sent, delivered>>

StreamInit == sent = 0 /\ delivered = {}

Send ==
  /\ sent' = sent + 1
  /\ UNCHANGED delivered

Deliver(frame) ==
  /\ frame \in 1 .. sent
  /\ \A earlier \in delivered : earlier < frame
  /\ delivered' = delivered \union {frame}
  /\ UNCHANGED sent

StreamNext == Send \/ \E frame \in 1 .. sent : Deliver(frame)

StreamSpec == StreamInit /\ [][StreamNext]_streamVars
=============================================================================
