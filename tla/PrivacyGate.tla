---------------------------- MODULE PrivacyGate ----------------------------
(***************************************************************************)
(* What the device promises its user, whatever the queues, tasks and       *)
(* events beneath do: the screen is lit, takes touches and shows the Mac's *)
(* data only within a session with one peer; each connection gets one      *)
(* session at most; between two of them everything is withdrawn.           *)
(***************************************************************************)
EXTENDS Naturals

CONSTANT Leftover  \* what a session may find that an earlier one has left

VARIABLES
  peer,    \* the connection that the session is with, 0 if there is none
  latest,  \* the last connection that there was a session with
  shown    \* what the user, whoever that is, has of the device

gateVars == <<peer, latest, shown>>

Thing == {"light", "touch", "data"}

\* The touch is on from the boot until a first connection, behind a dark screen.
GateInit == peer = 0 /\ latest = 0 /\ shown = {"touch"}

\* With a connection that is later than those of all sessions before.
Open ==
  /\ peer = 0
  /\ peer' > latest
  /\ latest' = peer'
  /\ shown \subseteq Leftover
  /\ UNCHANGED shown

Close ==
  /\ peer # 0
  /\ peer' = 0
  /\ UNCHANGED <<latest, shown>>

\* Within a session.
Show ==
  /\ peer # 0
  /\ shown' \subseteq Thing
  /\ UNCHANGED <<peer, latest>>

\* At any time.
Withdraw ==
  /\ shown' \subseteq shown
  /\ UNCHANGED <<peer, latest>>

GateNext ==
  \/ Open
  \/ Close
  \/ Show
  \/ Withdraw

GateSpec == GateInit /\ [][GateNext]_gateVars
=============================================================================
