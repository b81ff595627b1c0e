----------------------------- MODULE WebGateway -----------------------------
(***************************************************************************)
(* meteoris_web.py: its control half (WebControl, with the control server) *)
(* and its PSD half (WebFanOut).  They run on one event loop and share no  *)
(* state that either of them acts on, so a behaviour follows one of them,  *)
(* chosen at the start: their interleavings show nothing new.              *)
(***************************************************************************)
EXTENDS WebControl

CONSTANT MaxViewers  \* bound of WebFanOut

VARIABLES
  half,  \* "control" or "psd"
  viewer, websockets, wanted, psd, upstream, rest, dead, fed  \* of WebFanOut

P == INSTANCE WebFanOut

ASSUME WebGatewayAssumption == P!ViewersAssumption

fanOut == <<viewer, websockets, wanted, psd, upstream, rest, dead, fed>>
gatewayVars == <<half, control, fanOut>>

GatewayInit ==
  /\ half \in {"control", "psd"}
  /\ WebInit
  /\ P!Init

ControlStep == half = "control" /\ WebNext /\ UNCHANGED <<half, fanOut>>

FanOutStep == half = "psd" /\ P!Next /\ UNCHANGED <<half, control>>

GatewayNext == ControlStep \/ FanOutStep

GatewaySpec ==
  /\ GatewayInit
  /\ [][GatewayNext]_gatewayVars
  /\ half = "psd" => P!Fairness

-----------------------------------------------------------------------------
(***************************************************************************)
(* Properties: RequestsHonoured of WebControl, and those of WebFanOut.     *)
(***************************************************************************)
\* See WebFanOut: the event says whether anybody watches.
WantedWhenWatched == P!WantedWhenWatched

\* See WebFanOut: viewers are fed, and nothing is read for nobody.
DemandDriven == P!DemandDriven
=============================================================================
