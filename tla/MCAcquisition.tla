--------------------------- MODULE MCAcquisition ---------------------------
(***************************************************************************)
(* Small instances of Acquisition for TLC.                                 *)
(***************************************************************************)
EXTENDS Acquisition
=============================================================================
