----------------------------- MODULE Detectors -----------------------------
(***************************************************************************)
(* A detector plugin in the hands of the triggered recorder.  create()     *)
(* makes the configured plugin; PsdDetectorRecorder::consume() gives it    *)
(* every frame, in Full mode, except while an event that has lasted too    *)
(* long is cut and until the recorder is rearmed: those frames come in     *)
(* PreprocessOnly mode, and reset() precedes the first one after them.     *)
(*                                                                         *)
(* The recorder is reduced to what decides the mode; the rest of it, with  *)
(* a detector that answers anything, is TriggeredRecorder.                 *)
(***************************************************************************)
EXTENDS Integers

CONSTANTS
  Period, MaxEvent, Rearm,  \* in the unit of timestamps
  PostFrames,               \* _postContextFrames
  MaxTime,                  \* bound: no frame is later than this
  \* of PeakTracker
  Candidates, TimeMean, MinSeparation, MaxPeaks, StationaryBand, ChirpBand,
  StationaryMaxDf, ChirpMaxDf, StationaryLost, ChirpLost,
  StationaryActivation, ChirpActivation, StationaryFraction, ChirpFraction,
  StationaryMaxDrift, ChirpMinDrift, ChirpMaxDrift, MinClassAge,
  \* of EchoesAutomatic
  Levels, FixedLower, FixedUpper, LowerOffset, UpperDelta, Warmup, Delay,
  Join, PreContext,
  \* of MeteorLogger3f
  DetectionBins, ClusterWidth, SequenceFrames, AllowedGaps, MaxDrift,
  Release, NotchAfter, NotchWidth, MaxNotches

VARIABLES
  plugin,        \* the plugin that create() made
  now,           \* the timestamp of the last frame
  state,         \* the plugin's answer to it
  post,          \* _postRemaining
  eventStart,    \* _eventStartNs
  rearmUntil,    \* _rearmUntilNs
  preprocessed,  \* history: the last frame in PreprocessOnly mode
  heard, tracks,                                           \* PeakTracker
  mode, phase, until, below, frozen, baseline, learned,    \* EchoesAutomatic
  crossed, calm,
  notches, run, sequence, object                           \* MeteorLogger3f

P == INSTANCE PeakTracker
E == INSTANCE EchoesAutomatic
M == INSTANCE MeteorLogger3f

ASSUME DetectorsAssumption ==
  /\ {MaxEvent, Rearm, PostFrames, MaxTime} \subseteq Nat
  /\ P!TrackerAssumption /\ E!EchoesAssumption /\ M!LoggerAssumption

recorderVars == <<post, eventStart, rearmUntil, preprocessed>>
trackerVars == <<heard, tracks>>
echoesVars == <<mode, phase, until, below, frozen, baseline, learned,
                crossed, calm>>
loggerVars == <<notches, run, sequence, object>>

vars == <<plugin, now, state, recorderVars, trackerVars, echoesVars,
          loggerVars>>

Init ==
  /\ plugin \in {"peak_tracker", "echoes_automatic", "meteor_logger_3f"}
  /\ now = 0
  /\ state = "idle"
  /\ post = 0
  /\ eventStart = 0
  /\ rearmUntil = 0
  /\ preprocessed = 0
  /\ P!Init
  /\ E!Init
  /\ plugin # "echoes_automatic" => mode = "automatic"  \* there is none
  /\ M!Init

-----------------------------------------------------------------------------
(***************************************************************************)
(* The plugin's process().                                                 *)
(***************************************************************************)
Full(t, reset) ==
  \/ plugin = "peak_tracker" /\ P!Full(t, reset)
       /\ UNCHANGED <<echoesVars, loggerVars>>
  \/ plugin = "echoes_automatic" /\ E!Full(t, reset)
       /\ UNCHANGED <<trackerVars, loggerVars>>
  \/ plugin = "meteor_logger_3f" /\ M!Full(t, reset)
       /\ UNCHANGED <<trackerVars, echoesVars>>

PreprocessOnly(t) ==
  \/ plugin = "peak_tracker" /\ P!Preprocess(t)
       /\ UNCHANGED <<echoesVars, loggerVars>>
  \/ plugin = "echoes_automatic" /\ E!Preprocess(t)
       /\ UNCHANGED <<trackerVars, loggerVars>>
  \/ plugin = "meteor_logger_3f" /\ M!Preprocess(t)
       /\ UNCHANGED <<trackerVars, echoesVars>>

-----------------------------------------------------------------------------
(***************************************************************************)
(* consume().                                                              *)
(***************************************************************************)
Arrives == now' = now + Period /\ now' <= MaxTime

Rearming == rearmUntil # 0 /\ now' < rearmUntil

Overdue == MaxEvent # 0 /\ eventStart # 0 /\ now' >= eventStart + MaxEvent

\* The decision on a frame in Full mode, seen active or not before it.
Decide(wasActive) ==
  LET left == IF wasActive THEN PostFrames ELSE IF post = 0 THEN 0 ELSE post - 1
      starts == eventStart = 0 /\ state' = "active"
  IN /\ post' = IF state' = "active" THEN 0 ELSE left
     /\ eventStart' = IF starts THEN now'
                      ELSE IF state' # "active" /\ left = 0 THEN 0
                      ELSE eventStart

Detect ==
  /\ Arrives
  /\ rearmUntil = 0 /\ ~Overdue
  /\ Full(now', FALSE)
  /\ Decide(state = "active")
  /\ UNCHANGED <<plugin, rearmUntil, preprocessed>>

Inhibited ==
  /\ Arrives
  /\ Rearming
  /\ PreprocessOnly(now')
  /\ preprocessed' = now'
  /\ UNCHANGED <<plugin, post, eventStart, rearmUntil>>

Rearmed ==
  /\ Arrives
  /\ rearmUntil # 0 /\ ~Rearming
  /\ Full(now', TRUE)
  /\ Decide(FALSE)
  /\ rearmUntil' = 0
  /\ UNCHANGED <<plugin, preprocessed>>

CutEvent ==
  /\ Arrives
  /\ rearmUntil = 0 /\ Overdue
  /\ PreprocessOnly(now')
  /\ post' = 0
  /\ eventStart' = 0
  /\ rearmUntil' = now' + Rearm
  /\ preprocessed' = now'
  /\ UNCHANGED plugin

Next == Detect \/ Inhibited \/ Rearmed \/ CutEvent

Spec == Init /\ [][Next]_vars

-----------------------------------------------------------------------------
(***************************************************************************)
(* Properties.                                                             *)
(***************************************************************************)
\* Types, of the recorder's part and of the plugins.
TypeOK ==
  /\ state \in {"warming", "idle", "active"}
  /\ {now, post, eventStart, rearmUntil, preprocessed} \subseteq Nat
  /\ P!TypeOK
  /\ E!TypeOK
  /\ M!TypeOK

(***************************************************************************)
(* doc/DETECTOR_PLUGIN_API.md: after a forced cutoff no plugin goes on     *)
(* with what it had.  Everything an active answer rests on, be it a track, *)
(* a crossing or a sequence, began after the last frame that was only      *)
(* preprocessed.                                                           *)
(***************************************************************************)
NothingInherited ==
  state = "active" =>
    CASE plugin = "peak_tracker" ->
           \A tr \in tracks : tr.active => tr.firstSeen > preprocessed
      [] plugin = "echoes_automatic" -> crossed > preprocessed
      [] plugin = "meteor_logger_3f" -> object.start > preprocessed

(***************************************************************************)
(* An event ends on silence: when a plugin that is not interrupted turns   *)
(* from active to idle, the signal has been away for the whole time that   *)
(* its configuration asks for, without a break.                            *)
(***************************************************************************)
EndsOnSilence ==
  [][ state = "active" /\ state' # "active" /\ preprocessed' = preprocessed =>
        CASE plugin = "peak_tracker" -> P!Silent(now')
          [] plugin = "echoes_automatic" -> E!Silent
          [] plugin = "meteor_logger_3f" -> M!Silent(now') ]_vars

\* The frame of the crossing is still remembered when the event starts.
CrossingRemembered == [][E!CrossingRemembered(now')]_vars

OnePeakOneTrack == P!OnePeakOneTrack
NotchesApart == M!NotchesApart
SequenceCoherent == M!SequenceCoherent
=============================================================================
