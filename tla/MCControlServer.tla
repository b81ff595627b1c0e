-------------------------- MODULE MCControlServer --------------------------
(***************************************************************************)
(* A small instance of ControlServer for TLC.                              *)
(***************************************************************************)
EXTENDS ControlServer
=============================================================================
