---------------------------- MODULE MCWebGateway ----------------------------
(***************************************************************************)
(* A small instance of WebGateway for TLC.                                 *)
(***************************************************************************)
EXTENDS WebGateway
=============================================================================
