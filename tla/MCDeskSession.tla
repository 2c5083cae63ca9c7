---------------------------- MODULE MCDeskSession ----------------------------
(***************************************************************************)
(* Model checking of DeskSession.  Every constant is a number or a         *)
(* Boolean, which the configurations DeskSession_*.cfg give; nothing of    *)
(* the specification is replaced.                                          *)
(***************************************************************************)
EXTENDS DeskSession
==============================================================================
