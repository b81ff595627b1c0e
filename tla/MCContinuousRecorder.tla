----------------------- MODULE MCContinuousRecorder ------------------------
(***************************************************************************)
(* A small instance of ContinuousRecorder for TLC.                         *)
(***************************************************************************)
EXTENDS ContinuousRecorder
=============================================================================
