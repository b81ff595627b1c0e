----------------------------- MODULE MCDspChain -----------------------------
(***************************************************************************)
(* Small instances of DspChain for TLC.                                    *)
(***************************************************************************)
EXTENDS DspChain
=============================================================================
