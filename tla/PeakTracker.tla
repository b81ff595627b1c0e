---------------------------- MODULE PeakTracker ----------------------------
(***************************************************************************)
(* The detector plugin peak_tracker.  Every PSD frame is smoothed over     *)
(* frequency and time and gives a list of spectral peaks; tracks follow    *)
(* peaks from frame to frame, are classified by their drift, and become    *)
(* active with age and occupancy.  The detector is active while a track    *)
(* is.                                                                     *)
(*                                                                         *)
(* Spectra are abstracted to their local maxima: any list of Candidates,   *)
(* the strongest first.  Frequencies and timestamps are integers, a frame  *)
(* follows the last one after Period; quotients are compared by cross      *)
(* multiplication.  Ids and levels of tracks, for diagnostics only, are    *)
(* left out: a track is known by where and when it was first seen.         *)
(***************************************************************************)
EXTENDS Integers, Sequences, SequencesExt, FiniteSets, FiniteSetsExt

CONSTANTS
  Period,          \* framePeriodSeconds
  Candidates,      \* the lists of local maxima that a frame may have
  TimeMean,        \* timeMeanPsds
  MinSeparation,   \* minPeakSeparationHz
  MaxPeaks,        \* maxPeaksPerPsd
  StationaryBand,  \* the frequencies of the stationary band, {} if disabled
  ChirpBand,       \* the frequencies of the chirp band, {} if disabled
  StationaryMaxDf, ChirpMaxDf,                  \* ...MaxDfHz
  StationaryLost, ChirpLost,                    \* ...LostSeconds
  StationaryActivation, ChirpActivation,        \* ...ActivationSeconds
  StationaryFraction, ChirpFraction,            \* <<n, d>> for n / d
  StationaryMaxDrift, ChirpMinDrift, ChirpMaxDrift,
  MinClassAge      \* the 0.05 s before a track is classified

TrackerAssumption ==
  /\ Period \in Nat \ {0}
  /\ TimeMean \in Nat \ {0}
  /\ MaxPeaks \in Nat \ {0}
  /\ \A c \in Candidates : c \in Seq(Int) /\ IsInjective(c)
  /\ StationaryMaxDf \in Nat \ {0} /\ ChirpMaxDf \in Nat \ {0}
  /\ StationaryLost \in Nat /\ ChirpLost \in Nat
  /\ StationaryBand \subseteq Int /\ ChirpBand \subseteq Int

VARIABLES
  now,     \* the timestamp of the last frame, 0 before the first
  state,   \* the result of the last process()
  heard,   \* the number of frames in _timeHistory
  tracks   \* _tracks

trackerVars == <<heard, tracks>>

Minus(a, b) == IF a < b THEN b - a ELSE a - b

Init == heard = 0 /\ tracks = {}

-----------------------------------------------------------------------------
(***************************************************************************)
(* PsdPeakExtractor: of local maxima closer than MinSeparation the         *)
(* strongest stays, and of the rest the MaxPeaks strongest.                *)
(***************************************************************************)
Peaks(c) ==
  LET kept == FoldLeft(LAMBDA s, f : IF \E i \in DOMAIN s :
                                          Minus(f, s[i]) < MinSeparation
                                     THEN s ELSE Append(s, f),
                       <<>>, c)
  IN Range(SubSeq(kept, 1, Min({Len(kept), MaxPeaks})))

-----------------------------------------------------------------------------
(***************************************************************************)
(* A track and its match with a peak of the frame at t.                    *)
(***************************************************************************)
Classes == {"unknown", "stationary", "chirp"}

Track == [class : Classes, first : Int, firstSeen : Nat, freq : Int,
          lastSeen : Nat, hits : Nat, opportunities : Nat, active : BOOLEAN]

Bands(f) == {c \in {"stationary", "chirp"} :
               f \in IF c = "chirp" THEN ChirpBand ELSE StationaryBand}

MaxDf(c) == IF c = "chirp" THEN ChirpMaxDf ELSE StationaryMaxDf

Lost(c) == IF c = "chirp" THEN ChirpLost ELSE StationaryLost

\* peakAllowedForTrack()
Allowed(tr, f) == IF tr.class = "unknown" THEN Bands(f) # {}
                                          ELSE tr.class \in Bands(f)

\* matchWindowHz()
Window(tr) == IF tr.class = "unknown"
              THEN Max({1} \cup {MaxDf(c) : c \in Bands(tr.freq)})
              ELSE MaxDf(tr.class)

\* lostSeconds()
LostAfter(tr) == IF tr.class = "unknown"
                 THEN Max({Period} \cup {Lost(c) : c \in Bands(tr.freq)})
                 ELSE Lost(tr.class)

\* The time over which the velocity of a chirp was measured, as a divisor.
Span(tr) == IF tr.class = "chirp" /\ tr.lastSeen > tr.firstSeen
            THEN tr.lastSeen - tr.firstSeen ELSE 1

\* The distance of f from where the track is predicted at t, times Span(tr).
Distance(tr, f, t) ==
  IF tr.class = "chirp"
  THEN Minus((f - tr.freq) * Span(tr), (tr.freq - tr.first) * (t - tr.lastSeen))
  ELSE Minus(f, tr.freq)

Pairs(ts, peaks, t) ==
  {p \in ts \X peaks :
     /\ Allowed(p[1], p[2])
     /\ Distance(p[1], p[2], t) <= Window(p[1]) * Span(p[1])}

\* The cost of p is at most that of q.
NoDearer(p, q, t) ==
  Distance(p[1], p[2], t) * Window(q[1]) * Span(q[1])
    <= Distance(q[1], q[2], t) * Window(p[1]) * Span(p[1])

(***************************************************************************)
(* The greedy assignment, in the order of cost: no track and no peak is    *)
(* used twice, and a pair left out met a pair taken that costs no more.    *)
(* Pairs of equal cost may be sorted in any order.                         *)
(***************************************************************************)
\* Mutant: an assignment that looks at the tracks only.
PeaksShared(ts, peaks, t) ==
  LET pairs == Pairs(ts, peaks, t)
  IN {m \in SUBSET pairs :
        /\ \A p, q \in m : p[1] = q[1] => p = q
        /\ \A p \in pairs \ m : \E q \in m : /\ p[1] = q[1]
                                             /\ NoDearer(q, p, t)}

Assignments(ts, peaks, t) ==
  LET pairs == Pairs(ts, peaks, t)
  IN {m \in SUBSET pairs :
        /\ \A p, q \in m : p[1] = q[1] \/ p[2] = q[2] => p = q
        /\ \A p \in pairs \ m : \E q \in m :
             (p[1] = q[1] \/ p[2] = q[2]) /\ NoDearer(q, p, t)}

-----------------------------------------------------------------------------
(***************************************************************************)
(* updateMatchedTrack(), with the classification of a track by its average *)
(* drift since it was first seen, once it has three hits.                  *)
(***************************************************************************)
ClassAge ==
  Max({2 * Period,
       Min({MinClassAge} \cup {StationaryActivation : x \in StationaryBand}
                         \cup {ChirpActivation : x \in ChirpBand})})

ClassOf(f, drift, age) ==
  IF "stationary" \in Bands(f) /\ drift <= StationaryMaxDrift * age
  THEN "stationary"
  ELSE IF /\ "chirp" \in Bands(f)
          /\ drift \in ChirpMinDrift * age .. ChirpMaxDrift * age
       THEN "chirp" ELSE "unknown"

Hit(tr, f, t) ==
  LET age == t - tr.firstSeen
      drift == Minus(f, tr.first)
  IN [tr EXCEPT !.hits = @ + 1, !.lastSeen = t, !.freq = f,
                !.class = IF @ = "unknown" /\ tr.hits >= 2 /\ age >= ClassAge
                          THEN ClassOf(f, drift, age) ELSE @]

NewTrack(f, t) ==
  [class |-> "unknown", first |-> f, firstSeen |-> t, freq |-> f,
   lastSeen |-> t, hits |-> 1, opportunities |-> 1, active |-> FALSE]

\* maybeActivate()
Activated(tr, t) ==
  LET chirp == tr.class = "chirp"
      fraction == IF chirp THEN ChirpFraction ELSE StationaryFraction
      ripe == /\ tr.class # "unknown"
              /\ t - tr.firstSeen >= IF chirp THEN ChirpActivation
                                              ELSE StationaryActivation
              /\ tr.hits * fraction[2] >= fraction[1] * tr.opportunities
  IN [tr EXCEPT !.active = @ \/ ripe]

Outlives(tr, t) == t - tr.lastSeen <= LostAfter(tr)

\* The tracks ts after the assignment m of the peaks of the frame at t.
Updated(ts, peaks, m, t) ==
  LET seen(tr) == [tr EXCEPT !.opportunities = @ + 1]
      old == {tr \in ts : (\A p \in m : p[1] # tr) /\ Outlives(tr, t)}
      used == {p[2] : p \in m}
  IN {Activated(tr, t) :
        tr \in {seen(o) : o \in old}
               \cup {Hit(seen(p[1]), p[2], t) : p \in m}
               \cup {NewTrack(f, t) : f \in {g \in peaks \ used : Bands(g) # {}}}}

-----------------------------------------------------------------------------
(***************************************************************************)
(* process().  The time mean advances in every mode; without it there are  *)
(* no peaks yet.  PreprocessOnly drops the tracks.                         *)
(***************************************************************************)
Ready == heard + 1 >= TimeMean

Advance == heard' = Min({heard + 1, TimeMean})

Preprocess(t) ==
  /\ Advance
  /\ tracks' = {}
  /\ state' = IF Ready THEN "idle" ELSE "warming"

\* A frame in Full mode, before which the recorder may have called reset().
Full(t, reset) ==
  LET ts == IF reset THEN {} ELSE tracks
  IN /\ Advance
     /\ \/ /\ ~Ready
           /\ tracks' = ts
           /\ state' = "warming"
        \/ /\ Ready
           /\ \E c \in Candidates : \E m \in Assignments(ts, Peaks(c), t) :
                tracks' = Updated(ts, Peaks(c), m, t)
           /\ state' = IF \E tr \in tracks' : tr.active THEN "active"
                                                        ELSE "idle"

Next ==
  /\ now' = now + Period
  /\ \/ Preprocess(now')
     \/ \E reset \in BOOLEAN : Full(now', reset)

Spec == Init /\ now = 0 /\ state = "idle"
          /\ [][Next]_<<now, state, trackerVars>>

-----------------------------------------------------------------------------
TypeOK == heard \in 0 .. TimeMean /\ tracks \subseteq Track

(***************************************************************************)
(* doc/DETECTOR.md, one-to-one assignment: a peak supports one track.  Two *)
(* tracks last seen in the same frame were seen at different frequencies,  *)
(* however many frames ago that was.                                       *)
(***************************************************************************)
OnePeakOneTrack ==
  \A a, b \in tracks : a.lastSeen = b.lastSeen /\ a.freq = b.freq => a = b

(***************************************************************************)
(* A detector that falls silent has lost every active track: none of them  *)
(* was seen within the time its class may be lost.                         *)
(***************************************************************************)
Silent(t) ==
  \A tr \in tracks : tr.active => t - tr.lastSeen > Lost(tr.class)
=============================================================================
