--------------------------- MODULE MeteorLogger3f ---------------------------
(***************************************************************************)
(* The detector plugin meteor_logger_3f.  A frame hits when its three      *)
(* strongest bins lie close together; a run of frames with few gaps and    *)
(* little drift starts an event, which lasts until no compatible hit has   *)
(* come for the release time.  A hit that stays at one frequency is        *)
(* learned as a notch, whose bins are ignored from then on.                *)
(*                                                                         *)
(* A spectrum is abstracted to which three bins are strongest.  A notch is *)
(* the mean of the hits of its run, kept as the sum and the number of them *)
(* and compared by cross multiplication.                                   *)
(***************************************************************************)
EXTENDS Integers, Sequences, SequencesExt, FiniteSets, FiniteSetsExt

CONSTANTS
  Period,          \* framePeriodSeconds
  DetectionBins,   \* the frequencies of the bins of the detection interval
  ClusterWidth,    \* clusterWidthHz
  SequenceFrames,  \* sequenceFrames
  AllowedGaps,     \* allowedGaps
  MaxDrift,        \* maxDriftHzS
  Release,         \* releaseSeconds
  NotchAfter,      \* autoNotchAfterSeconds
  NotchWidth,      \* autoNotchWidthHz
  MaxNotches       \* maxAutoNotches, 0 if auto_notch_enabled is false

LoggerAssumption ==
  /\ Period \in Nat \ {0}
  /\ DetectionBins \subseteq Int
  /\ ClusterWidth \in Nat
  /\ SequenceFrames \in Nat \ {0}
  /\ AllowedGaps \in Nat
  /\ MaxDrift \in Nat
  /\ Release \in Nat
  /\ NotchAfter \in Nat
  /\ NotchWidth \in Nat
  /\ MaxNotches \in Nat

VARIABLES
  now,       \* the timestamp of the last frame, 0 before the first
  state,     \* the result of the last process()
  notches,   \* _notches
  run,       \* _notchRun..., or NoRun
  sequence,  \* _sequence
  object     \* _active... and _lastActiveHitNs, or NoObject

loggerVars == <<notches, run, sequence, object>>

Minus(a, b) == IF a < b THEN b - a ELSE a - b

\* The mean of n frequencies with the given sum.
Mean == [sum : Int, n : Nat \ {0}]

NoRun == [sum |-> 0, n |-> 0, start |-> 0]

NoObject == [start |-> 0, seen |-> 0, freq |-> 0]

Init ==
  /\ notches = {}
  /\ run = NoRun
  /\ sequence = <<>>
  /\ object = NoObject

-----------------------------------------------------------------------------
(***************************************************************************)
(* measure().  A bin within half a notch's width of it does not count.     *)
(***************************************************************************)
\* f is within half a notch's width of the mean m.
Within(f, m) == 2 * Minus(f * m.n, m.sum) <= NotchWidth * m.n

Notched(f) == \E m \in notches : Within(f, m)

Miss == [hit |-> FALSE, freq |-> 0]

Hit(f) == [hit |-> TRUE, freq |-> f]

\* What the frame may be: no cluster, or one whose strongest bin is f.
Scans ==
  LET bins == {f \in DetectionBins : ~Notched(f)}
  IN {Miss} \cup
     {Hit(f) : f \in {b \in bins : \E top \in kSubset(3, bins) :
                         b \in top /\ Max(top) - Min(top) <= ClusterWidth}}

-----------------------------------------------------------------------------
(***************************************************************************)
(* updateAutoNotch(), in every mode.                                       *)
(***************************************************************************)
\* Mutant: a run that does not follow its frequency.
RunNeverBroken(scan) == run # NoRun

RunGoesOn(scan) == run # NoRun /\ Within(scan.freq, run)

Longer(scan) == [run EXCEPT !.sum = @ + scan.freq, !.n = @ + 1]

UpdateAutoNotch(scan, t) ==
  \/ /\ ~scan.hit
     /\ run' = NoRun
     /\ UNCHANGED notches
  \/ /\ scan.hit /\ Cardinality(notches) >= MaxNotches
     /\ UNCHANGED <<notches, run>>
  \/ /\ scan.hit /\ Cardinality(notches) < MaxNotches
     /\ ~RunGoesOn(scan)
     /\ run' = [sum |-> scan.freq, n |-> 1, start |-> t]
     /\ UNCHANGED notches
  \/ /\ scan.hit /\ Cardinality(notches) < MaxNotches
     /\ RunGoesOn(scan)
     /\ IF t - run.start >= NotchAfter
        THEN /\ notches' = notches \cup {[sum |-> Longer(scan).sum,
                                          n |-> Longer(scan).n]}
             /\ run' = NoRun
        ELSE /\ run' = Longer(scan)
             /\ UNCHANGED notches

-----------------------------------------------------------------------------
Compatible(f, t, g, u) == Minus(f, g) <= MaxDrift * Max({Period, t - u})

\* Where a sequence has its hits, and the last of them.
Hits(s) == {i \in DOMAIN s : s[i].hit}

LastHit(s) == s[Max(Hits(s))]

\* Mutant: the new hit is compared with the oldest hit.
DriftsFromOldest(s, scan, t) ==
  LET oldest == s[Min(Hits(s))]
  IN /\ scan.hit /\ Hits(s) # {}
     /\ ~Compatible(scan.freq, t, oldest.freq, oldest.at)

Drifts(s, scan, t) ==
  /\ scan.hit /\ Hits(s) # {}
  /\ ~Compatible(scan.freq, t, LastHit(s).freq, LastHit(s).at)

\* appendSequence(): a hit that drifted too fast since the last one starts
\* a sequence of its own.
Appended(s, scan, t) ==
  LET longer == Append(IF Drifts(s, scan, t) THEN <<>> ELSE s,
                       [hit |-> scan.hit, freq |-> scan.freq, at |-> t])
  IN IF Len(longer) > SequenceFrames THEN Tail(longer) ELSE longer

Qualifies(s) ==
  /\ Len(s) = SequenceFrames
  /\ Cardinality(DOMAIN s \ Hits(s)) <= AllowedGaps

\* updateActiveState(): the object after the frame, if it is still held.
Followed(o, scan, t) ==
  LET seen == IF scan.hit /\ Compatible(scan.freq, t, o.freq, o.seen)
              THEN [o EXCEPT !.seen = t, !.freq = scan.freq] ELSE o
  IN IF o = NoObject \/ t - seen.seen > Release THEN NoObject ELSE seen

\* activateFromSequence()
FromSequence(s) ==
  IF Hits(s) = {} THEN NoObject
  ELSE [start |-> Head(s).at, seen |-> LastHit(s).at, freq |-> LastHit(s).freq]

-----------------------------------------------------------------------------
(***************************************************************************)
(* process().  reset() and PreprocessOnly drop the object and the sequence *)
(* but keep the notches and their run.                                     *)
(***************************************************************************)
\* Mutant: reset() and PreprocessOnly forget the object only.
ClearedObject(s) == s

Cleared(s) == <<>>

Preprocess(t) ==
  /\ \E scan \in Scans : UpdateAutoNotch(scan, t)
  /\ sequence' = Cleared(sequence)
  /\ object' = NoObject
  /\ state' = "idle"

\* A frame in Full mode, before which the recorder may have called reset().
Full(t, reset) ==
  \E scan \in Scans :
    LET s == Appended(IF reset THEN Cleared(sequence) ELSE sequence, scan, t)
        held == IF reset THEN NoObject ELSE Followed(object, scan, t)
    IN /\ UpdateAutoNotch(scan, t)
       /\ sequence' = s
       /\ object' = IF held = NoObject /\ Qualifies(s) THEN FromSequence(s)
                                                       ELSE held
       /\ state' = IF object' = NoObject THEN "idle" ELSE "active"

Next ==
  /\ now' = now + Period
  /\ \/ Preprocess(now')
     \/ \E reset \in BOOLEAN : Full(now', reset)

Spec == Init /\ now = 0 /\ state = "idle"
          /\ [][Next]_<<now, state, loggerVars>>

-----------------------------------------------------------------------------
TypeOK ==
  /\ notches \subseteq Mean
  /\ run \in [sum : Int, n : Nat, start : Nat]
  /\ sequence \in Seq([hit : BOOLEAN, freq : Int, at : Nat])
  /\ object \in [start : Nat, seen : Nat, freq : Int]

(***************************************************************************)
(* A learned notch is never inside another one: the bins of a notch are    *)
(* out of the measure, and so is the mean of a run that passes them by.    *)
(* Otherwise one interferer would use up several of the few notches.       *)
(***************************************************************************)
Apart(m, k) == 2 * Minus(m.sum * k.n, k.sum * m.n) > NotchWidth * m.n * k.n

NotchesApart == \A m, k \in notches : m = k \/ Apart(m, k)

(***************************************************************************)
(* doc/METEOR_LOGGER_3F_DETECTOR.md, the confirmation sequence: each hit   *)
(* is compatible with the one before it, whatever misses lie between and   *)
(* whatever has been forgotten since.                                      *)
(***************************************************************************)
SequenceCoherent ==
  \A i, j \in Hits(sequence) :
    i < j /\ (\A k \in (i + 1) .. (j - 1) : ~sequence[k].hit)
      => Compatible(sequence[j].freq, sequence[j].at,
                    sequence[i].freq, sequence[i].at)

\* The object that is lost at t has not been seen for the release time.
Silent(t) == t - object.seen > Release
=============================================================================
