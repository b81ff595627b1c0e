----------------------------- MODULE WebFanOut ------------------------------
(***************************************************************************)
(* The PSD half of meteoris_web.py, the gateway between browsers and the   *)
(* DSP process.  One task takes frames from the DSP, while anybody         *)
(* watches, and sends each to all viewers in turn.  Viewers come and go at *)
(* the awaits of the task; the event _psd_wanted lets it sleep when nobody *)
(* watches.                                                                *)
(*                                                                         *)
(* The program runs on one event loop: what is between two awaits is one   *)
(* step.  A viewer is one websocket; a browser that comes back is another  *)
(* viewer.  The end of the process is left out.                            *)
(***************************************************************************)
EXTENDS Naturals

CONSTANT MaxViewers  \* bound: websockets

ViewersAssumption == MaxViewers \in Nat

Viewers == 1 .. MaxViewers

VARIABLES
  viewer,      \* each viewer's connection
  websockets,  \* websockets
  wanted,      \* _psd_wanted
  psd,         \* where _psd_loop() is
  upstream,    \* writer: is there a connection to the PSD server?
  rest,        \* the viewers the frame is still to be sent to
  dead,        \* dead
  fed          \* history: the viewers who got a frame

fanOut == <<viewer, websockets, wanted, psd, upstream, rest, dead, fed>>

Init ==
  /\ viewer = [v \in Viewers |-> "new"]
  /\ websockets = {}
  /\ wanted = FALSE
  /\ psd = "waiting"
  /\ upstream = FALSE
  /\ rest = {}
  /\ dead = {}
  /\ fed = {}

-----------------------------------------------------------------------------
(***************************************************************************)
(* Viewers: websocket().                                                   *)
(***************************************************************************)
\* A waiter of the event is woken for good, even if it is cleared at once.
SetWanted ==
  /\ wanted' = TRUE
  /\ psd' = IF psd = "waiting" THEN "woken" ELSE psd

ViewerComes(v) ==
  /\ viewer[v] = "new"
  /\ viewer' = [viewer EXCEPT ![v] = "open"]
  /\ websockets' = websockets \cup {v}
  /\ SetWanted
  /\ UNCHANGED <<upstream, rest, dead, fed>>

\* The browser does not take what is sent to it.
ViewerStalls(v) ==
  /\ viewer[v] = "open"
  /\ viewer' = [viewer EXCEPT ![v] = "stalled"]
  /\ UNCHANGED <<websockets, wanted, psd, upstream, rest, dead, fed>>

\* The connection ends: the browser closes it, or it is lost.
ViewerGoes(v) ==
  /\ viewer[v] \in {"open", "stalled"}
  /\ viewer' = [viewer EXCEPT ![v] = "closed"]
  /\ UNCHANGED <<websockets, wanted, psd, upstream, rest, dead, fed>>

\* heartbeat=15: a viewer that does not answer is closed (by aiohttp).
Heartbeat(v) == viewer[v] = "stalled" /\ ViewerGoes(v)

\* Mutants: whoever goes, the event is cleared; and it is never cleared.
AnybodyGone(set) == TRUE

EventKept(set) == FALSE

Unwatched(set) == set = {}

\* The handler comes to its end.
HandlerEnds(v) ==
  /\ viewer[v] = "closed"
  /\ viewer' = [viewer EXCEPT ![v] = "gone"]
  /\ websockets' = websockets \ {v}
  /\ wanted' = (wanted /\ ~Unwatched(websockets'))
  /\ UNCHANGED <<psd, upstream, rest, dead, fed>>

-----------------------------------------------------------------------------
(***************************************************************************)
(* _psd_loop().                                                            *)
(***************************************************************************)
Wake ==
  /\ psd = "woken"
  /\ psd' = "connecting"
  /\ UNCHANGED <<viewer, websockets, wanted, upstream, rest, dead, fed>>

\* The condition of the inner loop, with the viewers set.
Continue(set) == psd' = IF set # {} THEN "reading" ELSE "closing"

ConnectUpstream ==
  /\ psd = "connecting"
  /\ upstream' = TRUE
  /\ Continue(websockets)
  /\ UNCHANGED <<viewer, websockets, wanted, rest, dead, fed>>

\* Connecting or reading fails.
UpstreamFails ==
  /\ psd \in {"connecting", "reading"}
  /\ IF websockets # {} THEN psd' = "sleeping" /\ UNCHANGED wanted
                        ELSE psd' = "closing" /\ wanted' = FALSE
  /\ UNCHANGED <<viewer, websockets, upstream, rest, dead, fed>>

Slept ==
  /\ psd = "sleeping"
  /\ psd' = "closing"
  /\ UNCHANGED <<viewer, websockets, wanted, upstream, rest, dead, fed>>

\* The writer is closed, and the event is waited for again.
CloseUpstream ==
  /\ psd = "closing"
  /\ upstream' = FALSE
  /\ psd' = IF wanted THEN "connecting" ELSE "waiting"
  /\ UNCHANGED <<viewer, websockets, wanted, rest, dead, fed>>

ReadFrame ==
  /\ psd = "reading"
  /\ rest' = websockets
  /\ psd' = "sending"
  /\ UNCHANGED <<viewer, websockets, wanted, upstream, dead, fed>>

\* send_bytes() to the next one: it waits while the viewer is stalled, and
\* it raises when the connection is seen to be closed.
SendFrame(v) ==
  /\ psd = "sending"
  /\ v \in rest
  /\ viewer[v] # "stalled"
  /\ rest' = rest \ {v}
  /\ \/ viewer[v] \in {"open", "closed"} /\ fed' = fed \cup {v}
                                        /\ UNCHANGED dead
     \/ viewer[v] \in {"closed", "gone"} /\ dead' = dead \cup {v}
                                        /\ UNCHANGED fed
  /\ UNCHANGED <<viewer, websockets, wanted, psd, upstream>>

FrameSent ==
  /\ psd = "sending"
  /\ rest = {}
  /\ websockets' = websockets \ dead
  /\ wanted' = (wanted /\ ~Unwatched(websockets'))
  /\ dead' = {}
  /\ Continue(websockets')
  /\ UNCHANGED <<viewer, upstream, rest, fed>>

-----------------------------------------------------------------------------
Viewer ==
  \E v \in Viewers :
    ViewerComes(v) \/ ViewerStalls(v) \/ ViewerGoes(v) \/ HandlerEnds(v)

Send == FrameSent \/ \E v \in Viewers : SendFrame(v)

PsdLoop ==
  \/ Wake
  \/ ConnectUpstream
  \/ UpstreamFails
  \/ Slept
  \/ CloseUpstream
  \/ ReadFrame
  \/ Send

Next == Viewer \/ PsdLoop

Spec == Init /\ [][Next]_fanOut

(***************************************************************************)
(* Fairness: the event loop runs its tasks, and aiohttp the heartbeat.  Of *)
(* the DSP process, that it accepts the gateway now and then and sends     *)
(* frames now and then.                                                    *)
(***************************************************************************)
Fairness ==
  /\ WF_fanOut(Wake \/ Slept \/ CloseUpstream \/ Send)
  /\ SF_fanOut(ConnectUpstream)
  /\ SF_fanOut(ReadFrame)
  /\ \A v \in Viewers : WF_fanOut(Heartbeat(v) \/ HandlerEnds(v))

FairSpec == Spec /\ Fairness

-----------------------------------------------------------------------------
(***************************************************************************)
(* Properties.                                                             *)
(***************************************************************************)
(***************************************************************************)
(* "The upstream PSD socket is demand-driven": whenever the event loop     *)
(* switches, _psd_wanted says whether anybody watches, though handlers and *)
(* the PSD task set and clear it and drop viewers on their own.            *)
(***************************************************************************)
WantedWhenWatched == wanted <=> websockets # {}

(***************************************************************************)
(* A viewer who stays gets a frame, whatever the other viewers do; and     *)
(* when nobody is left the connection to the DSP is closed "on the next    *)
(* PSD".                                                                   *)
(***************************************************************************)
DemandDriven ==
  /\ \A v \in Viewers : viewer[v] = "open" ~> v \in fed \/ viewer[v] # "open"
  /\ upstream /\ websockets = {} ~> ~upstream \/ websockets # {}
=============================================================================
