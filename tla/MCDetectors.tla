---------------------------- MODULE MCDetectors ----------------------------
(***************************************************************************)
(* A small instance of Detectors for TLC.  Frequencies are 1 .. 6; the     *)
(* stationary band is their lower half and the chirp band all of them.     *)
(***************************************************************************)
EXTENDS Detectors, Sequences

MCCandidates == {<<>>, <<1>>, <<3>>, <<5>>, <<3, 1, 2>>}
MCHalf == <<1, 2>>
=============================================================================
