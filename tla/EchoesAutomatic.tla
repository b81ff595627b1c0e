-------------------------- MODULE EchoesAutomatic --------------------------
(***************************************************************************)
(* The detector plugin echoes_automatic.  A frame gives one level: the     *)
(* strongest bin of the detection interval, or its distance from the mean. *)
(* A level that reaches the upper threshold triggers, after a delay; an    *)
(* event ends when the level has stayed under the lower threshold for the  *)
(* join time.  In the mode automatic the thresholds follow a learned       *)
(* baseline.                                                               *)
(*                                                                         *)
(* Levels are small integers.  The baseline moves to any value between the *)
(* old one and the sample (an exponential mean), and the test of the       *)
(* deviation of recent levels against a multiple of its learned mean is an *)
(* arbitrary answer, so the history of levels is left out.                 *)
(***************************************************************************)
EXTENDS Integers, FiniteSetsExt

CONSTANTS
  Period,        \* framePeriodSeconds
  Levels,        \* the levels that a frame may have
  FixedLower,    \* absoluteLowerDbHz or differentialLowerDb
  FixedUpper,    \* absoluteUpperDbHz or differentialUpperDb
  LowerOffset,   \* automaticLowerOffsetDb
  UpperDelta,    \* automaticUpperDeltaDb
  Warmup,        \* _warmupFrames
  Delay,         \* delayBeforeTriggerSeconds
  Join,          \* joinEventsSeconds
  PreContext     \* the recorder's detectorPreContextSeconds

EchoesAssumption ==
  /\ Period \in Nat \ {0}
  /\ Levels \subseteq Int
  /\ {FixedLower, FixedUpper, LowerOffset, UpperDelta} \subseteq Int
  /\ Warmup \in Nat
  /\ Delay \in Nat
  /\ Join \in Nat
  /\ PreContext \in Nat
  \* main() refuses less context than requirements() asks for.
  /\ PreContext >= Delay

VARIABLES
  now,       \* the timestamp of the last frame, 0 before the first
  state,     \* the result of the last process()
  mode,      \* _mode
  phase,     \* idle, _pending or _active
  until,     \* _pendingUntilNs
  below,     \* _belowSinceNs
  frozen,    \* _frozenLower
  baseline,  \* <<_baselineDifference>>, or <<>> before the first
  learned,   \* _baselineFrames, no further than Warmup
  crossed,   \* history: the frame that reached the upper threshold
  calm       \* history: frames in a row, up to now, that would end the event

echoesVars == <<mode, phase, until, below, frozen, baseline, learned,
                crossed, calm>>

Modes == {"absolute", "differential", "automatic"}

Init ==
  /\ mode \in Modes
  /\ phase = "idle"
  /\ until = 0
  /\ below = 0
  /\ frozen = 0
  /\ baseline = <<>>
  /\ learned = 0
  /\ crossed = 0
  /\ calm = 0

-----------------------------------------------------------------------------
LowerThreshold == IF mode = "automatic" THEN baseline[1] + LowerOffset
                                        ELSE FixedLower

UpperThreshold == IF mode = "automatic" THEN LowerThreshold + UpperDelta
                                        ELSE FixedUpper

Learning == mode = "automatic" /\ (baseline = <<>> \/ learned < Warmup)

\* updateAutomaticBaseline()
Learn(level) ==
  IF mode = "automatic"
  THEN /\ \E b \in IF baseline = <<>> THEN {level}
                    ELSE Min({baseline[1], level}) .. Max({baseline[1], level}) :
            baseline' = <<b>>
       /\ learned' = Min({learned + 1, Warmup})
  ELSE UNCHANGED <<baseline, learned>>

\* clearEventState()
Clear ==
  /\ phase' = "idle"
  /\ until' = 0
  /\ below' = 0
  /\ calm' = 0

Preprocess(t) ==
  /\ Clear
  /\ \E level \in Levels : Learn(level)
  /\ state' = "idle"
  /\ UNCHANGED <<mode, frozen, crossed>>

-----------------------------------------------------------------------------
(***************************************************************************)
(* process() in Full mode, in the phase p that it finds.                   *)
(***************************************************************************)
\* Mutant: a level that recovers does not start the join time anew.
BelowKept(t, ending) == IF ending /\ below = 0 THEN t ELSE below

BelowSince(t, ending) ==
  IF ~ending THEN 0 ELSE IF below = 0 THEN t ELSE below

\* An active event; settled answers the test of the deviation.
Active(t, level) ==
  \E settled \in IF mode = "automatic" THEN BOOLEAN ELSE {TRUE} :
    LET ending == level < frozen /\ settled
        ends == ending /\ (Join = 0 \/ t >= BelowSince(t, ending) + Join)
    IN /\ phase' = IF ends THEN "idle" ELSE "active"
       /\ below' = IF ends THEN 0 ELSE BelowSince(t, ending)
       /\ calm' = IF ending THEN calm + 1 ELSE 0
       /\ UNCHANGED <<until, frozen, crossed>>

Pending(t) ==
  /\ phase' = IF t >= until THEN "active" ELSE "pending"
  /\ UNCHANGED <<until, below, frozen, crossed, calm>>

\* Mutant: the delay is counted from the frame after the crossing.
DelayFromNext(t) == t + Period + Delay

DelayEnd(t) == t + Delay

\* Idle, with the time u left in _pendingUntilNs.
Crossing(t, u) ==
  /\ frozen' = LowerThreshold
  /\ phase' = IF Delay = 0 THEN "active" ELSE "pending"
  /\ until' = IF Delay = 0 THEN u ELSE DelayEnd(t)
  /\ crossed' = t
  /\ below' = 0 /\ calm' = 0

Quiet(u) ==
  /\ phase' = "idle"
  /\ until' = u
  /\ below' = 0 /\ calm' = 0
  /\ UNCHANGED <<frozen, crossed>>

\* A frame in Full mode, before which the recorder may have called reset().
Full(t, reset) ==
  \E level \in Levels :
    /\ \/ /\ phase = "idle" \/ reset
          /\ LET u == IF reset THEN 0 ELSE until
             IN IF ~Learning /\ level >= UpperThreshold
                THEN Crossing(t, u) ELSE Quiet(u)
       \/ ~reset /\ phase = "pending" /\ Pending(t)
       \/ ~reset /\ phase = "active" /\ Active(t, level)
    /\ IF phase' = "idle" THEN Learn(level) ELSE UNCHANGED <<baseline, learned>>
    /\ state' = IF Learning THEN "warming"
                ELSE IF phase' = "active" THEN "active" ELSE "idle"
    /\ UNCHANGED mode

-----------------------------------------------------------------------------
TypeOK ==
  /\ mode \in Modes
  /\ phase \in {"idle", "pending", "active"}
  /\ {until, below, crossed, calm} \subseteq Nat
  /\ frozen \in Int
  /\ (baseline = <<>> \/ baseline \in [{1} -> Int])
  /\ learned \in 0 .. Warmup

\* The event that ends at this step ends after a level that has stayed low,
\* without a break, for the join time.
Silent == (calm' - 1) * Period >= Join

\* The frames of the recorder's ring, and how far back from t they reach.
PreFrames == (PreContext + Period - 1) \div Period

(***************************************************************************)
(* doc/ECHOES_AUTOMATIC_DETECTOR.md: pre_context_s is at least the delay,  *)
(* "so that the original crossing is retained".  When the event starts the *)
(* frame of the crossing is still among the remembered ones.               *)
(***************************************************************************)
CrossingRemembered(t) ==
  phase # "active" /\ phase' = "active" => t - crossed' <= PreFrames * Period
=============================================================================
