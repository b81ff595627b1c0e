---------------------------- MODULE MCPsdStream ----------------------------
(***************************************************************************)
(* A small instance of PsdStream for TLC.                                  *)
(***************************************************************************)
EXTENDS PsdStream
=============================================================================
