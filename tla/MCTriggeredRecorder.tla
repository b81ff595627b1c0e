------------------------ MODULE MCTriggeredRecorder ------------------------
(***************************************************************************)
(* A small instance of TriggeredRecorder for TLC.                          *)
(***************************************************************************)
EXTENDS TriggeredRecorder, TLC
=============================================================================
