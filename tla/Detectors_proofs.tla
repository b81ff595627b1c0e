-------------------------- MODULE Detectors_proofs --------------------------
(***************************************************************************)
(* Proofs about the three detector plugins under the triggered recorder,   *)
(* for every frame period, band, threshold, limit and spectrum: an event   *)
(* rests on what came after the last cutoff and ends on silence, a         *)
(* crossing is remembered, a peak supports one track, notches stay apart   *)
(* and a sequence coheres.                                                 *)
(***************************************************************************)
EXTENDS Detectors, SequenceTheorems, TLAPS

-----------------------------------------------------------------------------
(***************************************************************************)
(* peak_tracker: the tracks after a frame.                                 *)
(***************************************************************************)
\* A track after a frame that it was not seen in, after one that it was seen in
\* at f, and a track that begins at f.
Aged(tr) == [tr EXCEPT !.opportunities = @ + 1]

KeptAs(tr, t) == P!Activated(Aged(tr), t)

SeenAs(tr, f, t) == P!Activated(P!Hit(Aged(tr), f, t), t)

NewAs(f, t) == P!Activated(P!NewTrack(f, t), t)

\* Activation sets the flag only, and of a classified track only.
LEMMA ActivatedTrack ==
  ASSUME NEW tr \in P!Track, NEW t
  PROVE  LET a == P!Activated(tr, t)
         IN /\ a \in P!Track
            /\ a.lastSeen = tr.lastSeen /\ a.freq = tr.freq
            /\ a.firstSeen = tr.firstSeen /\ a.class = tr.class
            /\ tr.active => a.active
            /\ a.active /\ ~tr.active => tr.class # "unknown"
<1> DEFINE ripe == /\ tr.class # "unknown"
                   /\ t - tr.firstSeen >= IF tr.class = "chirp" THEN ChirpActivation
                                                               ELSE StationaryActivation
                   /\ tr.hits * (IF tr.class = "chirp" THEN ChirpFraction
                                                       ELSE StationaryFraction)[2]
                        >= (IF tr.class = "chirp" THEN ChirpFraction
                                                  ELSE StationaryFraction)[1]
                             * tr.opportunities
<1>1. P!Activated(tr, t) = [tr EXCEPT !.active = @ \/ ripe]
  BY DEF P!Activated
<1>2. ripe \in BOOLEAN /\ (ripe => tr.class # "unknown")
  OBVIOUS
<1> HIDE DEF ripe
<1> QED
  BY <1>1, <1>2 DEF P!Track

\* A frame that a track is not seen in leaves all but its opportunities.
LEMMA AgedTrack ==
  ASSUME NEW tr \in P!Track
  PROVE  /\ Aged(tr) \in P!Track
         /\ Aged(tr).lastSeen = tr.lastSeen /\ Aged(tr).freq = tr.freq
         /\ Aged(tr).firstSeen = tr.firstSeen /\ Aged(tr).class = tr.class
         /\ Aged(tr).active = tr.active
<1>1. tr.opportunities + 1 \in Nat
  BY DEF P!Track
<1> QED
  BY <1>1 DEF P!Track, Aged

\* A hit moves a track and may classify it, but never again.
LEMMA HitTrack ==
  ASSUME NEW tr \in P!Track, NEW f \in Int, NEW t \in Nat
  PROVE  LET h == P!Hit(tr, f, t)
         IN /\ h \in P!Track
            /\ h.lastSeen = t /\ h.freq = f
            /\ h.firstSeen = tr.firstSeen /\ h.active = tr.active
            /\ tr.class # "unknown" => h.class = tr.class
<1> DEFINE c == IF tr.class = "unknown" /\ tr.hits >= 2 /\ t - tr.firstSeen >= P!ClassAge
                THEN P!ClassOf(f, P!Minus(f, tr.first), t - tr.firstSeen) ELSE tr.class
<1>1. P!Hit(tr, f, t) = [tr EXCEPT !.hits = @ + 1, !.lastSeen = t, !.freq = f, !.class = c]
  BY DEF P!Hit
<1>2. c \in P!Classes /\ (tr.class # "unknown" => c = tr.class)
  BY DEF P!ClassOf, P!Classes, P!Track
<1>3. tr.hits + 1 \in Nat
  BY DEF P!Track
<1> HIDE DEF c
<1> QED
  BY <1>1, <1>2, <1>3 DEF P!Track

\* A track that begins.
LEMMA BegunTrack ==
  ASSUME NEW f \in Int, NEW t \in Nat
  PROVE  LET n == P!NewTrack(f, t)
         IN /\ n \in P!Track
            /\ n.lastSeen = t /\ n.freq = f /\ n.firstSeen = t
            /\ ~n.active
  BY DEF P!NewTrack, P!Track, P!Classes

\* A track that is kept without being seen.
LEMMA KeptTrack ==
  ASSUME NEW tr \in P!Track, tr.active => tr.class # "unknown", NEW t
  PROVE  /\ KeptAs(tr, t) \in P!Track
         /\ KeptAs(tr, t).lastSeen = tr.lastSeen /\ KeptAs(tr, t).freq = tr.freq
         /\ KeptAs(tr, t).firstSeen = tr.firstSeen
         /\ tr.active => KeptAs(tr, t).active
         /\ KeptAs(tr, t).active => KeptAs(tr, t).class # "unknown"
<1> DEFINE a == Aged(tr)
<1>1. /\ a \in P!Track /\ a.lastSeen = tr.lastSeen /\ a.freq = tr.freq
      /\ a.firstSeen = tr.firstSeen /\ a.class = tr.class /\ a.active = tr.active
  BY AgedTrack
<1> HIDE DEF a
<1> QED
  BY <1>1, ActivatedTrack DEF KeptAs, a

\* A track that is seen.
LEMMA SeenTrack ==
  ASSUME NEW tr \in P!Track, tr.active => tr.class # "unknown",
         NEW f \in Int, NEW t \in Nat
  PROVE  /\ SeenAs(tr, f, t) \in P!Track
         /\ SeenAs(tr, f, t).lastSeen = t /\ SeenAs(tr, f, t).freq = f
         /\ SeenAs(tr, f, t).firstSeen = tr.firstSeen
         /\ tr.active => SeenAs(tr, f, t).active
         /\ SeenAs(tr, f, t).active => SeenAs(tr, f, t).class # "unknown"
<1> DEFINE a == Aged(tr)
           h == P!Hit(a, f, t)
<1>1. /\ a \in P!Track
      /\ a.firstSeen = tr.firstSeen /\ a.class = tr.class /\ a.active = tr.active
  BY AgedTrack
<1> HIDE DEF a
<1>2. /\ h \in P!Track /\ h.lastSeen = t /\ h.freq = f
      /\ h.firstSeen = a.firstSeen /\ h.active = a.active
      /\ a.class # "unknown" => h.class = a.class
  BY <1>1, HitTrack
<1> HIDE DEF h
<1> QED
  BY <1>1, <1>2, ActivatedTrack DEF SeenAs, a, h

\* A track that begins, activated at once if it could be.
LEMMA NewTrackAs ==
  ASSUME NEW f \in Int, NEW t \in Nat
  PROVE  /\ NewAs(f, t) \in P!Track
         /\ NewAs(f, t).lastSeen = t /\ NewAs(f, t).freq = f
         /\ NewAs(f, t).firstSeen = t
         /\ NewAs(f, t).active => NewAs(f, t).class # "unknown"
<1> DEFINE b == P!NewTrack(f, t)
<1>1. b \in P!Track /\ b.lastSeen = t /\ b.freq = f /\ b.firstSeen = t /\ ~b.active
  BY BegunTrack
<1> HIDE DEF b
<1> QED
  BY <1>1, ActivatedTrack DEF NewAs, b

\* The peaks that a track or a pair is made of lie in a band.
LEMMA BandPeaks ==
  /\ \A f : P!Bands(f) # {} => f \in Int
  /\ \A tr \in P!Track : \A f : P!Allowed(tr, f) => f \in Int
<1>1. StationaryBand \subseteq Int /\ ChirpBand \subseteq Int
  BY DetectorsAssumption DEF P!TrackerAssumption
<1>2. \A f : P!Bands(f) # {} => f \in Int
  BY <1>1 DEF P!Bands
<1>3. ASSUME NEW tr \in P!Track, NEW f, P!Allowed(tr, f)
      PROVE  P!Bands(f) # {}
  BY <1>3 DEF P!Allowed
<1> QED
  BY <1>2, <1>3

\* Every track after a frame was kept, was seen, or begins with it.
LEMMA TrackOrigin ==
  ASSUME NEW ts \in SUBSET P!Track, NEW peaks, NEW t \in Nat,
         NEW m \in P!Assignments(ts, peaks, t), NEW x \in P!Updated(ts, peaks, m, t)
  PROVE  \/ \E o \in ts : x = KeptAs(o, t)
         \/ \E p \in m : p[1] \in ts /\ p[2] \in Int /\ x = SeenAs(p[1], p[2], t)
         \/ \E f \in Int : (\A p \in m : p[2] # f) /\ x = NewAs(f, t)
<1>1. ASSUME NEW p \in m
      PROVE  p[1] \in ts /\ p[2] \in Int
  <2>1. p \in ts \X peaks /\ P!Allowed(p[1], p[2])
    BY DEF P!Assignments, P!Pairs
  <2> QED
    BY <2>1, BandPeaks
<1>2. PICK y \in {Aged(o) : o \in {tr \in ts : (\A p \in m : p[1] # tr) /\ P!Outlives(tr, t)}}
                 \cup {P!Hit(Aged(p[1]), p[2], t) : p \in m}
                 \cup {P!NewTrack(f, t) : f \in {g \in peaks \ {p[2] : p \in m} :
                                                   P!Bands(g) # {}}} :
           x = P!Activated(y, t)
  BY DEF P!Updated, Aged
<1>3. CASE y \in {Aged(o) : o \in {tr \in ts : (\A p \in m : p[1] # tr) /\ P!Outlives(tr, t)}}
  BY <1>2, <1>3 DEF KeptAs
<1>4. CASE y \in {P!Hit(Aged(p[1]), p[2], t) : p \in m}
  BY <1>1, <1>2, <1>4 DEF SeenAs
<1>5. CASE y \in {P!NewTrack(f, t) : f \in {g \in peaks \ {p[2] : p \in m} : P!Bands(g) # {}}}
  <2>1. PICK f \in peaks \ {p[2] : p \in m} : P!Bands(f) # {} /\ y = P!NewTrack(f, t)
    BY <1>5
  <2>2. f \in Int /\ \A p \in m : p[2] # f
    BY <2>1, BandPeaks
  <2> QED
    BY <1>2, <2>1, <2>2 DEF NewAs
<1> QED
  BY <1>2, <1>3, <1>4, <1>5

\* A track that was seen is there after the frame, and so is one that outlives it.
LEMMA TrackLives ==
  ASSUME NEW ts \in SUBSET P!Track, NEW peaks, NEW t \in Nat,
         NEW m \in P!Assignments(ts, peaks, t), NEW o \in ts
  PROVE  \/ KeptAs(o, t) \in P!Updated(ts, peaks, m, t)
         \/ \E f \in Int : SeenAs(o, f, t) \in P!Updated(ts, peaks, m, t)
         \/ ~P!Outlives(o, t)
<1>1. CASE \E p \in m : p[1] = o
  <2>1. PICK p \in m : p[1] = o
    BY <1>1
  <2>2. p[2] \in Int
    <3>1. p \in ts \X peaks /\ P!Allowed(p[1], p[2])
      BY DEF P!Assignments, P!Pairs
    <3> QED
      BY <3>1, BandPeaks
  <2>3. SeenAs(p[1], p[2], t) \in P!Updated(ts, peaks, m, t)
    BY DEF P!Updated, Aged, SeenAs
  <2> QED
    BY <2>1, <2>2, <2>3
<1>2. CASE (\A p \in m : p[1] # o) /\ P!Outlives(o, t)
  <2>1. KeptAs(o, t) \in P!Updated(ts, peaks, m, t)
    BY <1>2 DEF P!Updated, Aged, KeptAs
  <2> QED
    BY <2>1
<1> QED
  BY <1>1, <1>2

\* The tracks after a frame at t: a track that is active is classified, and no two
\* of them were seen at one place in one frame.
TracksKnown(ts, t) ==
  /\ ts \subseteq P!Track
  /\ \A tr \in ts : tr.lastSeen <= t /\ (tr.active => tr.class # "unknown")
  /\ \A a, b \in ts : a.lastSeen = b.lastSeen /\ a.freq = b.freq => a = b

\* The tracks are known after a frame: each track and each peak is in one pair of
\* the assignment at most.
LEMMA TracksAfter ==
  ASSUME NEW ts, NEW s \in Nat, NEW t \in Nat, s < t, TracksKnown(ts, s),
         NEW peaks, NEW m \in P!Assignments(ts, peaks, t)
  PROVE  TracksKnown(P!Updated(ts, peaks, m, t), t)
<1> DEFINE new == P!Updated(ts, peaks, m, t)
           Kept(x, o) == o \in ts /\ x = KeptAs(o, t)
           Seen(x, p) == p \in m /\ p[1] \in ts /\ p[2] \in Int /\ x = SeenAs(p[1], p[2], t)
           Begun(x, f) == f \in Int /\ (\A p \in m : p[2] # f) /\ x = NewAs(f, t)
<1>1. ts \in SUBSET P!Track /\ \A tr \in ts : tr.lastSeen \in Nat /\ tr.lastSeen <= s
                                             /\ (tr.active => tr.class # "unknown")
  BY DEF TracksKnown, P!Track
<1>2. ASSUME NEW x \in new
      PROVE  \/ \E o : Kept(x, o)
             \/ \E p : Seen(x, p)
             \/ \E f : Begun(x, f)
  BY <1>1, <1>2, TrackOrigin
<1>3. ASSUME NEW x, NEW o, Kept(x, o)
      PROVE  /\ x \in P!Track /\ x.lastSeen = o.lastSeen /\ x.freq = o.freq
             /\ x.lastSeen < t /\ x.lastSeen <= t /\ (x.active => x.class # "unknown")
  <2>1. /\ o \in P!Track /\ o.lastSeen \in Nat /\ o.lastSeen <= s
        /\ o.active => o.class # "unknown"
    BY <1>1, <1>3
  <2>2. /\ KeptAs(o, t) \in P!Track /\ KeptAs(o, t).lastSeen = o.lastSeen
        /\ KeptAs(o, t).freq = o.freq
        /\ KeptAs(o, t).active => KeptAs(o, t).class # "unknown"
    BY <2>1, KeptTrack
  <2>3. o.lastSeen < t /\ o.lastSeen <= t
    BY <2>1
  <2> QED
    BY <1>3, <2>2, <2>3
<1>4. ASSUME NEW x, NEW p, Seen(x, p)
      PROVE  /\ x \in P!Track /\ x.lastSeen = t /\ x.freq = p[2]
             /\ x.active => x.class # "unknown"
  <2>1. p[1] \in P!Track /\ p[2] \in Int /\ (p[1].active => p[1].class # "unknown")
    BY <1>1, <1>4
  <2>2. x = SeenAs(p[1], p[2], t)
    BY <1>4
  <2> DEFINE tr == p[1]
             f == p[2]
  <2> HIDE DEF tr, f
  <2>3. /\ SeenAs(tr, f, t) \in P!Track
        /\ SeenAs(tr, f, t).lastSeen = t /\ SeenAs(tr, f, t).freq = f
        /\ SeenAs(tr, f, t).active => SeenAs(tr, f, t).class # "unknown"
    <3>1. tr \in P!Track /\ f \in Int /\ (tr.active => tr.class # "unknown")
      BY <2>1 DEF tr, f
    <3> QED
      BY <3>1, SeenTrack
  <2> QED
    BY <2>2, <2>3 DEF tr, f
<1>5. ASSUME NEW x, NEW f, Begun(x, f)
      PROVE  /\ x \in P!Track /\ x.lastSeen = t /\ x.freq = f
             /\ x.active => x.class # "unknown"
  BY <1>5, NewTrackAs
<1>6. ASSUME NEW x \in new
      PROVE  x \in P!Track /\ x.lastSeen <= t /\ (x.active => x.class # "unknown")
  <2>1. ASSUME x.lastSeen = t PROVE x.lastSeen <= t
    BY <2>1
  <2> HIDE DEF Kept, Seen, Begun
  <2> QED
    BY <1>2, <1>3, <1>4, <1>5, <2>1
<1>7. ASSUME NEW x \in new, NEW y \in new, x.lastSeen = y.lastSeen, x.freq = y.freq
      PROVE  x = y
  <2>1. t < t => FALSE
    OBVIOUS
  <2>2. CASE \E o : Kept(x, o)
    <3>1. PICK o : Kept(x, o)
      BY <2>2
    <3>2. x.lastSeen = o.lastSeen /\ x.freq = o.freq /\ x.lastSeen < t
      BY <1>3, <3>1
    <3>3. PICK u : Kept(y, u)
      <4> HIDE DEF Kept, Seen, Begun
      <4> QED
        BY <1>2, <1>4, <1>5, <1>7, <2>1, <3>2
    <3>4. y.lastSeen = u.lastSeen /\ y.freq = u.freq
      BY <1>3, <3>3
    <3>5. o = u
      BY <1>7, <3>1, <3>2, <3>3, <3>4 DEF TracksKnown
    <3> QED
      BY <3>1, <3>3, <3>5
  <2>3. CASE \E p : Seen(x, p)
    <3>1. PICK p : Seen(x, p)
      BY <2>3
    <3>2. x.lastSeen = t /\ x.freq = p[2]
      BY <1>4, <3>1
    <3>3. CASE \E q : Seen(y, q)
      <4>1. PICK q : Seen(y, q)
        BY <3>3
      <4>2. y.freq = q[2]
        BY <1>4, <4>1
      <4>3. p = q
        BY <1>7, <3>1, <3>2, <4>1, <4>2 DEF P!Assignments
      <4> QED
        BY <3>1, <4>1, <4>3
    <3>4. CASE \E f : Begun(y, f)
      <4>1. PICK f : Begun(y, f)
        BY <3>4
      <4>2. y.freq = f
        BY <1>5, <4>1
      <4> QED
        BY <1>7, <3>1, <3>2, <4>1, <4>2
    <3>5. CASE \E o : Kept(y, o)
      <4>1. y.lastSeen < t
        BY <1>3, <3>5
      <4> HIDE DEF Kept, Seen, Begun
      <4> QED
        BY <1>7, <2>1, <3>2, <4>1
    <3> HIDE DEF Kept, Seen, Begun
    <3> QED
      BY <1>2, <3>3, <3>4, <3>5
  <2>4. CASE \E f : Begun(x, f)
    <3>1. PICK f : Begun(x, f)
      BY <2>4
    <3>2. x.lastSeen = t /\ x.freq = f
      BY <1>5, <3>1
    <3>3. CASE \E q : Seen(y, q)
      <4>1. PICK q : Seen(y, q)
        BY <3>3
      <4>2. y.freq = q[2]
        BY <1>4, <4>1
      <4> QED
        BY <1>7, <3>1, <3>2, <4>1, <4>2
    <3>4. CASE \E g : Begun(y, g)
      <4>1. PICK g : Begun(y, g)
        BY <3>4
      <4>2. y.freq = g
        BY <1>5, <4>1
      <4> QED
        BY <1>7, <3>1, <3>2, <4>1, <4>2
    <3>5. CASE \E o : Kept(y, o)
      <4>1. y.lastSeen < t
        BY <1>3, <3>5
      <4> HIDE DEF Kept, Seen, Begun
      <4> QED
        BY <1>7, <2>1, <3>2, <4>1
    <3> HIDE DEF Kept, Seen, Begun
    <3> QED
      BY <1>2, <3>3, <3>4, <3>5
  <2> HIDE DEF Kept, Seen, Begun
  <2> QED
    BY <1>2, <2>2, <2>3, <2>4
<1> HIDE DEF new
<1> QED
  BY <1>6, <1>7 DEF TracksKnown, new

\* No track reaches further back than the tracks before it, or than the frame.
LEMMA TracksFreshAfter ==
  ASSUME NEW ts, NEW s \in Nat, NEW t \in Nat, NEW n \in Nat, n < t, TracksKnown(ts, s),
         \A tr \in ts : tr.firstSeen > n,
         NEW peaks, NEW m \in P!Assignments(ts, peaks, t)
  PROVE  \A x \in P!Updated(ts, peaks, m, t) : x.firstSeen > n
<1>1. ts \in SUBSET P!Track /\ \A tr \in ts : tr.active => tr.class # "unknown"
  BY DEF TracksKnown
<1>2. TAKE x \in P!Updated(ts, peaks, m, t)
<1>3. CASE \E o \in ts : x = KeptAs(o, t)
  <2>1. PICK o \in ts : x = KeptAs(o, t)
    BY <1>3
  <2>2. KeptAs(o, t).firstSeen = o.firstSeen
    BY <1>1, KeptTrack
  <2> QED
    BY <2>1, <2>2
<1>4. CASE \E p \in m : p[1] \in ts /\ p[2] \in Int /\ x = SeenAs(p[1], p[2], t)
  <2>1. PICK tr \in ts, f \in Int : x = SeenAs(tr, f, t)
    BY <1>4
  <2>2. SeenAs(tr, f, t).firstSeen = tr.firstSeen
    BY <1>1, SeenTrack
  <2> QED
    BY <2>1, <2>2
<1>5. CASE \E f \in Int : x = NewAs(f, t)
  <2>1. PICK f \in Int : x = NewAs(f, t)
    BY <1>5
  <2>2. NewAs(f, t).firstSeen = t
    BY NewTrackAs
  <2> QED
    BY <2>1, <2>2
<1> QED
  BY <1>1, <1>3, <1>4, <1>5, TrackOrigin

\* When no track is active after a frame, every active one before it was lost.
LEMMA SilentAfter ==
  ASSUME NEW ts, NEW s \in Nat, NEW t \in Nat, TracksKnown(ts, s),
         NEW peaks, NEW m \in P!Assignments(ts, peaks, t),
         \A x \in P!Updated(ts, peaks, m, t) : ~x.active
  PROVE  \A tr \in ts : tr.active => t - tr.lastSeen > P!Lost(tr.class)
<1> SUFFICES ASSUME NEW o \in ts, o.active
             PROVE  t - o.lastSeen > P!Lost(o.class)
  OBVIOUS
<1>1. ts \in SUBSET P!Track /\ o \in P!Track /\ o.class # "unknown" /\ o.lastSeen \in Nat
  BY DEF TracksKnown, P!Track
<1>2. KeptAs(o, t).active
  BY <1>1, KeptTrack
<1>3. \A f \in Int : SeenAs(o, f, t).active
  BY <1>1, SeenTrack
<1>4. ~P!Outlives(o, t)
  BY <1>1, <1>2, <1>3, TrackLives
<1>5. P!Lost(o.class) \in Nat
  BY DetectorsAssumption DEF P!TrackerAssumption, P!Lost
<1> QED
  BY <1>1, <1>4, <1>5 DEF P!Outlives, P!LostAfter

-----------------------------------------------------------------------------
(***************************************************************************)
(* The recorder: what a step of consume() asks of the plugin.              *)
(***************************************************************************)
\* What the recorder knows: while it waits for the rearming nothing is active.
RecorderSound ==
  /\ {now, post, eventStart, rearmUntil, preprocessed} \subseteq Nat
  /\ state \in {"warming", "idle", "active"}
  /\ preprocessed <= now
  /\ rearmUntil # 0 => state # "active"
  /\ plugin \in {"peak_tracker", "echoes_automatic", "meteor_logger_3f"}

\* A frame in Full mode, and one in PreprocessOnly mode.
FullStep(reset) ==
  /\ Full(now', reset)
  /\ preprocessed' = preprocessed
  /\ reset => state # "active"

PreprocessStep == PreprocessOnly(now') /\ preprocessed' = now'

\* Time goes on, and every frame is given to the plugin in one of the two modes.
LEMMA PluginSteps ==
  ASSUME RecorderSound, Next
  PROVE  /\ now \in Nat /\ now' \in Nat /\ now' = now + Period /\ now < now'
         /\ preprocessed \in Nat /\ preprocessed < now'
         /\ plugin' = plugin
         /\ (\E reset \in BOOLEAN : FullStep(reset)) \/ PreprocessStep
<1>1. Period \in Nat \ {0}
  BY DetectorsAssumption DEF P!TrackerAssumption
<1>2. now' = now + Period /\ plugin' = plugin
  BY DEF Next, Detect, Inhibited, Rearmed, CutEvent, Arrives
<1>3. /\ now \in Nat /\ now' \in Nat /\ now < now'
      /\ preprocessed \in Nat /\ preprocessed < now'
  BY <1>1, <1>2 DEF RecorderSound
<1>4. CASE Detect
  <2>1. FullStep(FALSE)
    BY <1>4 DEF Detect, FullStep
  <2> QED
    BY <1>2, <1>3, <2>1
<1>5. CASE Rearmed
  <2>1. FullStep(TRUE)
    BY <1>5 DEF Rearmed, FullStep, RecorderSound
  <2> QED
    BY <1>2, <1>3, <2>1
<1>6. CASE Inhibited \/ CutEvent
  <2>1. PreprocessStep
    BY <1>6 DEF Inhibited, CutEvent, PreprocessStep
  <2> QED
    BY <1>2, <1>3, <2>1
<1> QED
  BY <1>4, <1>5, <1>6 DEF Next

\* A plugin that only preprocesses is not active, and every answer is one of three.
LEMMA Answers ==
  /\ \A t : PreprocessOnly(t) => state' \in {"warming", "idle"}
  /\ \A t, reset : Full(t, reset) => state' \in {"warming", "idle", "active"}
<1>1. ASSUME NEW t, PreprocessOnly(t)
      PROVE  state' \in {"warming", "idle"}
  BY <1>1 DEF PreprocessOnly, P!Preprocess, E!Preprocess, M!Preprocess
<1>2. ASSUME NEW t, NEW reset, Full(t, reset)
      PROVE  state' \in {"warming", "idle", "active"}
  BY <1>2 DEF Full, P!Full, E!Full, M!Full
<1> QED
  BY <1>1, <1>2

\* Every step preserves what the recorder knows.
LEMMA RecorderStep ==
  ASSUME RecorderSound, Next
  PROVE  RecorderSound'
<1>1. /\ now \in Nat /\ now' \in Nat /\ preprocessed < now' /\ now < now'
      /\ plugin' \in {"peak_tracker", "echoes_automatic", "meteor_logger_3f"}
      /\ post \in Nat /\ eventStart \in Nat /\ rearmUntil \in Nat /\ preprocessed \in Nat
      /\ PostFrames \in Nat /\ Rearm \in Nat
  BY PluginSteps, DetectorsAssumption DEF RecorderSound
<1>2. ASSUME NEW wasActive \in BOOLEAN, Decide(wasActive)
      PROVE  post' \in Nat /\ eventStart' \in Nat
  BY <1>1, <1>2 DEF Decide
<1>3. preprocessed' \in Nat /\ preprocessed' <= now'
  BY <1>1, PluginSteps DEF FullStep, PreprocessStep
<1>4. CASE Detect
  <2>1. post' \in Nat /\ eventStart' \in Nat /\ rearmUntil' = 0
    BY <1>2, <1>4 DEF Detect
  <2>2. state' \in {"warming", "idle", "active"}
    BY <1>4, Answers DEF Detect
  <2> QED
    BY <1>1, <1>3, <2>1, <2>2 DEF RecorderSound
<1>5. CASE Rearmed
  <2>1. post' \in Nat /\ eventStart' \in Nat /\ rearmUntil' = 0
    BY <1>2, <1>5 DEF Rearmed
  <2>2. state' \in {"warming", "idle", "active"}
    BY <1>5, Answers DEF Rearmed
  <2> QED
    BY <1>1, <1>3, <2>1, <2>2 DEF RecorderSound
<1>6. CASE Inhibited
  <2>1. UNCHANGED <<post, eventStart, rearmUntil>> /\ state' \in {"warming", "idle"}
    BY <1>6, Answers DEF Inhibited
  <2> QED
    BY <1>1, <1>3, <2>1 DEF RecorderSound
<1>7. CASE CutEvent
  <2>1. post' = 0 /\ eventStart' = 0 /\ state' \in {"warming", "idle"}
    BY <1>7, Answers DEF CutEvent
  <2>2. rearmUntil' = now' + Rearm
    BY <1>7 DEF CutEvent
  <2>3. now' + Rearm \in Nat
    <3>1. Rearm \in Nat
      BY DetectorsAssumption
    <3>2. now' \in Nat
      BY <1>1
    <3>3. \A a, b \in Nat : a + b \in Nat
      OBVIOUS
    <3> QED
      BY <3>1, <3>2, <3>3
  <2>4. /\ now' \in Nat /\ post' \in Nat /\ eventStart' \in Nat /\ rearmUntil' \in Nat
        /\ preprocessed' \in Nat
    BY <1>1, <1>3, <2>1, <2>2, <2>3
  <2>5. state' # "active" /\ state' \in {"warming", "idle", "active"}
    BY <2>1
  <2>6. /\ preprocessed' <= now'
        /\ plugin' \in {"peak_tracker", "echoes_automatic", "meteor_logger_3f"}
    BY <1>1, <1>3
  <2> QED
    BY <2>4, <2>5, <2>6 DEF RecorderSound
<1> QED
  BY <1>4, <1>5, <1>6, <1>7 DEF Next

-----------------------------------------------------------------------------
(***************************************************************************)
(* peak_tracker in the hands of the recorder.                              *)
(***************************************************************************)
\* No track began before the last frame that was only preprocessed, and the
\* tracker answers active only once the time mean is full.
TracksSound ==
  /\ heard \in 0 .. TimeMean
  /\ TracksKnown(tracks, now)
  /\ plugin = "peak_tracker" =>
       /\ \A tr \in tracks : tr.firstSeen > preprocessed
       /\ state = "active" => heard = TimeMean

\* The smaller of two numbers.
LEMMA SmallerOf ==
  ASSUME NEW a \in Int, NEW b \in Int
  PROVE  P!Min({a, b}) = IF a <= b THEN a ELSE b
<1> DEFINE c == IF a <= b THEN a ELSE b
<1>1. c \in {a, b} /\ \A y \in {a, b} : c <= y
  OBVIOUS
<1>2. \A x \in {a, b} : (\A y \in {a, b} : x <= y) => x = c
  OBVIOUS
<1> HIDE DEF c
<1>3. P!Min({a, b}) \in {a, b} /\ \A y \in {a, b} : P!Min({a, b}) <= y
  BY <1>1 DEF P!Min
<1> QED
  BY <1>2, <1>3 DEF c

\* The time mean fills up, and then stays full.
LEMMA Heard ==
  ASSUME heard \in 0 .. TimeMean, P!Advance
  PROVE  /\ heard' \in 0 .. TimeMean
         /\ P!Ready => heard' = TimeMean
<1>1. TimeMean \in Nat \ {0} /\ heard \in Nat /\ heard <= TimeMean
  BY DetectorsAssumption DEF P!TrackerAssumption
<1>2. heard' = IF heard + 1 <= TimeMean THEN heard + 1 ELSE TimeMean
  BY <1>1, SmallerOf DEF P!Advance
<1> QED
  BY <1>1, <1>2 DEF P!Ready

\* Every step keeps the tracks known.
LEMMA TracksStep ==
  ASSUME RecorderSound, TracksSound, Next
  PROVE  TracksSound'
<1>1. /\ now \in Nat /\ now' \in Nat /\ now < now' /\ preprocessed \in Nat /\ preprocessed < now'
      /\ plugin' = plugin
      /\ (\E reset \in BOOLEAN : FullStep(reset)) \/ PreprocessStep
  BY PluginSteps
<1>2. ASSUME NEW ts, TracksKnown(ts, now)
      PROVE  TracksKnown(ts, now')
  <2>1. \A tr \in ts : tr.lastSeen \in Nat
    BY <1>2 DEF TracksKnown, P!Track
  <2> QED
    BY <1>1, <1>2, <2>1 DEF TracksKnown
<1>3. CASE plugin # "peak_tracker"
  <2>1. UNCHANGED <<heard, tracks>>
    BY <1>1, <1>3 DEF FullStep, PreprocessStep, Full, PreprocessOnly, trackerVars
  <2> QED
    BY <1>1, <1>2, <1>3, <2>1 DEF TracksSound
<1>4. CASE plugin = "peak_tracker" /\ PreprocessStep
  <2>1. P!Preprocess(now')
    BY <1>4 DEF PreprocessStep, PreprocessOnly
  <2>2. P!Advance /\ tracks' = {} /\ state' # "active"
    BY <2>1 DEF P!Preprocess
  <2>3. heard' \in 0 .. TimeMean
    BY <2>2, Heard DEF TracksSound
  <2> QED
    BY <2>2, <2>3 DEF TracksSound, TracksKnown
<1>5. ASSUME plugin = "peak_tracker", NEW reset \in BOOLEAN, FullStep(reset)
      PROVE  TracksSound'
  <2> DEFINE ts == IF reset THEN {} ELSE tracks
  <2>1. P!Full(now', reset) /\ preprocessed' = preprocessed
    BY <1>5 DEF FullStep, Full
  <2>2. P!Advance /\ heard' \in 0 .. TimeMean /\ (P!Ready => heard' = TimeMean)
    BY <2>1, Heard DEF P!Full, TracksSound
  <2>3. TracksKnown(ts, now) /\ \A tr \in ts : tr.firstSeen > preprocessed
    BY <1>5 DEF TracksSound, TracksKnown
  <2>4. CASE tracks' = ts /\ state' = "warming"
    BY <1>1, <1>2, <2>1, <2>2, <2>3, <2>4 DEF TracksSound
  <2>5. ASSUME P!Ready, NEW c \in Candidates, NEW m \in P!Assignments(ts, P!Peaks(c), now'),
               tracks' = P!Updated(ts, P!Peaks(c), m, now')
        PROVE  TracksSound'
    <3> HIDE DEF ts
    <3>1. TracksKnown(tracks', now')
      BY <1>1, <2>3, <2>5, TracksAfter
    <3>2. \A tr \in tracks' : tr.firstSeen > preprocessed
      BY <1>1, <2>3, <2>5, TracksFreshAfter
    <3> QED
      BY <1>1, <2>1, <2>2, <2>5, <3>1, <3>2 DEF TracksSound
  <2> QED
    BY <2>1, <2>4, <2>5 DEF P!Full
<1> QED
  BY <1>1, <1>3, <1>4, <1>5

-----------------------------------------------------------------------------
(***************************************************************************)
(* echoes_automatic in the hands of the recorder.                          *)
(***************************************************************************)
\* While a crossing is pending it lies a whole number of frames back and the
\* delay has not passed; while an event is active the time since the level fell
\* is that of the frames that would end it.
EventSound ==
  plugin = "echoes_automatic" =>
    /\ state = "active" => phase = "active"
    /\ phase # "idle" => ~E!Learning /\ crossed > preprocessed
    /\ phase = "pending" => /\ until = crossed + Delay /\ now < until
                            /\ \E j \in Nat : now = crossed + j * Period
                            /\ below = 0 /\ calm = 0
    /\ phase = "active" => IF below = 0 THEN calm = 0
                           ELSE calm >= 1 /\ now = below + (calm - 1) * Period

\* The parts of the types of the plugin.
LEMMA EchoesTypes ==
  E!TypeOK <=> /\ mode \in E!Modes /\ phase \in {"idle", "pending", "active"}
               /\ until \in Nat /\ below \in Nat /\ crossed \in Nat /\ calm \in Nat
               /\ frozen \in Int
               /\ baseline = <<>> \/ baseline \in [{1} -> Int]
               /\ learned \in 0 .. Warmup
  BY DEF E!TypeOK

\* The constants of the plugin.
LEMMA EchoesConstants ==
  /\ Period \in Nat \ {0} /\ Levels \subseteq Int /\ Warmup \in Nat /\ Delay \in Nat
  /\ Join \in Nat /\ PreContext \in Nat /\ PreContext >= Delay
  /\ FixedLower \in Int /\ LowerOffset \in Int
  BY DetectorsAssumption DEF E!EchoesAssumption

\* The automatic baseline moves between levels.
LEMMA LearnStep ==
  ASSUME E!TypeOK, NEW level \in Levels, E!Learn(level)
  PROVE  /\ baseline' = <<>> \/ baseline' \in [{1} -> Int]
         /\ learned' \in 0 .. Warmup
<1>1. /\ baseline = <<>> \/ baseline \in [{1} -> Int]
      /\ learned \in 0 .. Warmup /\ Warmup \in Nat /\ level \in Int
  BY EchoesTypes, EchoesConstants
<1>2. CASE mode = "automatic"
  <2>1. learned' = E!Min({learned + 1, Warmup})
    BY <1>2 DEF E!Learn
  <2>2. learned' \in {learned + 1, Warmup} /\ learned' <= Warmup
    <3>1. \E x \in {learned + 1, Warmup} : \A y \in {learned + 1, Warmup} : x <= y
      BY <1>1
    <3> QED
      BY <2>1, <3>1 DEF E!Min
  <2>3. PICK b \in IF baseline = <<>> THEN {level}
                   ELSE E!Min({baseline[1], level}) .. E!Max({baseline[1], level}) :
               baseline' = <<b>>
    BY <1>2 DEF E!Learn
  <2>4. b \in Int
    BY <1>1, <2>3
  <2>5. <<b>> \in [{1} -> Int]
    BY <2>4
  <2>6. learned' \in 0 .. Warmup
    BY <1>1, <2>2
  <2> QED
    BY <2>3, <2>5, <2>6
<1>3. CASE mode # "automatic"
  BY <1>1, <1>3 DEF E!Learn
<1> QED
  BY <1>2, <1>3

\* Once the plugin has learned enough it has a threshold.
LEMMA ThresholdTyped ==
  ASSUME E!TypeOK, ~E!Learning
  PROVE  E!LowerThreshold \in Int
<1>1. CASE mode = "automatic"
  <2>1. baseline \in [{1} -> Int]
    BY <1>1, EchoesTypes DEF E!Learning
  <2>2. baseline[1] \in Int /\ LowerOffset \in Int
    BY <2>1, EchoesConstants
  <2> QED
    BY <1>1, <2>2 DEF E!LowerThreshold
<1>2. CASE mode # "automatic"
  BY <1>2, EchoesConstants DEF E!LowerThreshold
<1> QED
  BY <1>1, <1>2

\* The four ways a frame in Full mode may go.
LEMMA EchoesWays ==
  ASSUME NEW t, NEW reset \in BOOLEAN, E!Full(t, reset)
  PROVE  /\ \E level \in Levels :
              IF phase' = "idle" THEN E!Learn(level) ELSE UNCHANGED <<baseline, learned>>
         /\ state' = IF E!Learning THEN "warming"
                     ELSE IF phase' = "active" THEN "active" ELSE "idle"
         /\ mode' = mode
         /\ \/ /\ phase = "idle" \/ reset
               /\ ~E!Learning /\ E!Crossing(t, IF reset THEN 0 ELSE until)
            \/ /\ phase = "idle" \/ reset
               /\ E!Quiet(IF reset THEN 0 ELSE until)
            \/ ~reset /\ phase = "pending" /\ E!Pending(t)
            \/ \E level \in Levels : ~reset /\ phase = "active" /\ E!Active(t, level)
  BY DEF E!Full

\* Types, after a frame in Full mode.
LEMMA EchoesFullTypes ==
  ASSUME E!TypeOK, NEW t \in Nat, NEW reset \in BOOLEAN, E!Full(t, reset)
  PROVE  E!TypeOK'
<1>1. /\ mode \in E!Modes /\ phase \in {"idle", "pending", "active"}
      /\ until \in Nat /\ below \in Nat /\ crossed \in Nat /\ calm \in Nat
      /\ frozen \in Int
      /\ baseline = <<>> \/ baseline \in [{1} -> Int]
      /\ learned \in 0 .. Warmup /\ Delay \in Nat
  BY EchoesTypes, EchoesConstants
<1>2. /\ baseline' = <<>> \/ baseline' \in [{1} -> Int]
      /\ learned' \in 0 .. Warmup
  <2>1. PICK level \in Levels :
          IF phase' = "idle" THEN E!Learn(level) ELSE UNCHANGED <<baseline, learned>>
    BY EchoesWays
  <2> QED
    BY <1>1, <2>1, LearnStep
<1>3. mode' \in E!Modes
  BY <1>1, EchoesWays
<1>4. ASSUME NEW u \in Nat, ~E!Learning, E!Crossing(t, u)
      PROVE  /\ phase' \in {"idle", "pending", "active"} /\ frozen' \in Int
             /\ until' \in Nat /\ below' \in Nat /\ crossed' \in Nat /\ calm' \in Nat
  <2>1. frozen' \in Int
    BY <1>4, ThresholdTyped DEF E!Crossing
  <2>2. t + Delay \in Nat
    BY <1>1
  <2> QED
    BY <1>4, <2>1, <2>2 DEF E!Crossing, E!DelayEnd
<1>5. ASSUME NEW u \in Nat, E!Quiet(u)
      PROVE  /\ phase' \in {"idle", "pending", "active"} /\ frozen' \in Int
             /\ until' \in Nat /\ below' \in Nat /\ crossed' \in Nat /\ calm' \in Nat
  BY <1>1, <1>5 DEF E!Quiet
<1>6. ASSUME E!Pending(t)
      PROVE  /\ phase' \in {"idle", "pending", "active"} /\ frozen' \in Int
             /\ until' \in Nat /\ below' \in Nat /\ crossed' \in Nat /\ calm' \in Nat
  BY <1>1, <1>6 DEF E!Pending
<1>7. ASSUME NEW level, E!Active(t, level)
      PROVE  /\ phase' \in {"idle", "pending", "active"} /\ frozen' \in Int
             /\ until' \in Nat /\ below' \in Nat /\ crossed' \in Nat /\ calm' \in Nat
  <2>1. \A ending : E!BelowSince(t, ending) \in Nat
    BY <1>1 DEF E!BelowSince
  <2>2. calm + 1 \in Nat
    BY <1>1
  <2> QED
    BY <1>1, <1>7, <2>1, <2>2 DEF E!Active
<1>8. (IF reset THEN 0 ELSE until) \in Nat
  BY <1>1
<1>9. /\ phase' \in {"idle", "pending", "active"} /\ frozen' \in Int
      /\ until' \in Nat /\ below' \in Nat /\ crossed' \in Nat /\ calm' \in Nat
  BY <1>4, <1>5, <1>6, <1>7, <1>8, EchoesWays
<1> QED
  BY <1>2, <1>3, <1>9 DEF E!TypeOK

\* Types, after any step.
LEMMA EchoesTypesStep ==
  ASSUME RecorderSound, E!TypeOK, Next
  PROVE  E!TypeOK'
<1>1. /\ now' \in Nat
      /\ (\E reset \in BOOLEAN : FullStep(reset)) \/ PreprocessStep
  BY PluginSteps
<1>2. CASE plugin # "echoes_automatic"
  <2>1. UNCHANGED echoesVars
    BY <1>1, <1>2 DEF FullStep, PreprocessStep, Full, PreprocessOnly
  <2> QED
    BY <2>1 DEF echoesVars, E!TypeOK
<1>3. CASE plugin = "echoes_automatic" /\ PreprocessStep
  <2>1. E!Preprocess(now')
    BY <1>3 DEF PreprocessStep, PreprocessOnly
  <2>2. PICK level \in Levels : E!Learn(level)
    BY <2>1 DEF E!Preprocess
  <2>3. /\ baseline' = <<>> \/ baseline' \in [{1} -> Int]
        /\ learned' \in 0 .. Warmup
    BY <2>2, LearnStep
  <2> QED
    BY <2>1, <2>3 DEF E!Preprocess, E!Clear, E!TypeOK
<1>4. ASSUME plugin = "echoes_automatic", NEW reset \in BOOLEAN, FullStep(reset)
      PROVE  E!TypeOK'
  <2>1. E!Full(now', reset)
    BY <1>4 DEF FullStep, Full
  <2> QED
    BY <1>1, <2>1, EchoesFullTypes
<1> QED
  BY <1>1, <1>2, <1>3, <1>4

\* One more frame.
LEMMA OneMoreFrame ==
  ASSUME NEW n \in Int, NEW p \in Int
  PROVE  (n + 1) * p = n * p + p
  OBVIOUS

\* The event state after a frame in Full mode, and an event that ends with it.
LEMMA EventFull ==
  ASSUME RecorderSound, E!TypeOK, EventSound, plugin = "echoes_automatic",
         NEW reset \in BOOLEAN, FullStep(reset), plugin' = plugin,
         now' = now + Period, now' \in Nat, preprocessed < now'
  PROVE  /\ EventSound'
         /\ state = "active" /\ state' # "active" => E!Silent
         /\ E!CrossingRemembered(now')
<1> DEFINE t == now'
<1>1. /\ phase \in {"idle", "pending", "active"}
      /\ until \in Nat /\ below \in Nat /\ crossed \in Nat /\ calm \in Nat
      /\ Delay \in Nat /\ Join \in Nat /\ PreContext \in Nat /\ PreContext >= Delay
      /\ Period \in Nat /\ Period > 0 /\ t \in Nat /\ now \in Nat /\ t = now + Period
      /\ preprocessed' = preprocessed /\ preprocessed < t /\ preprocessed \in Nat
      /\ E!Full(t, reset)
      /\ reset => state # "active"
  BY EchoesTypes, EchoesConstants DEF FullStep, Full, RecorderSound
<1>2. /\ state = "active" => phase = "active"
      /\ phase # "idle" => ~E!Learning /\ crossed > preprocessed
      /\ phase = "pending" => /\ until = crossed + Delay /\ now < until
                              /\ \E j \in Nat : now = crossed + j * Period
                              /\ below = 0 /\ calm = 0
      /\ phase = "active" => IF below = 0 THEN calm = 0
                             ELSE calm >= 1 /\ now = below + (calm - 1) * Period
  BY DEF EventSound
<1>3. /\ state' = IF E!Learning THEN "warming"
                  ELSE IF phase' = "active" THEN "active" ELSE "idle"
      /\ mode' = mode
      /\ phase' # "idle" => UNCHANGED <<baseline, learned>>
  BY <1>1, EchoesWays
<1>4. state' = "active" => phase' = "active"
  BY <1>3
<1>5. phase' # "idle" /\ ~E!Learning => ~(E!Learning')
  BY <1>3 DEF E!Learning
<1>6. PreContext >= Delay => E!PreFrames * Period >= Delay
  <2> DEFINE q == E!PreFrames
  <2>1. q = (PreContext + Period - 1) \div Period
    BY DEF E!PreFrames
  <2>2. q \in Int /\ PreContext + Period - 1 < (q + 1) * Period
    BY <1>1, <2>1
  <2> HIDE DEF q
  <2>3. (q + 1) * Period = q * Period + Period
    BY <1>1, <2>2, OneMoreFrame
  <2>4. q * Period \in Int
    BY <1>1, <2>2
  <2> QED
    BY <1>1, <2>2, <2>3, <2>4 DEF q
<1> HIDE DEF t
<1> DEFINE Known == /\ state' = "active" => phase' = "active"
                    /\ phase' # "idle" => ~(E!Learning') /\ crossed' > preprocessed
                    /\ phase' = "pending" => /\ until' = crossed' + Delay /\ t < until'
                                             /\ \E j \in Nat : t = crossed' + j * Period
                                             /\ below' = 0 /\ calm' = 0
                    /\ phase' = "active" => IF below' = 0 THEN calm' = 0
                                            ELSE calm' >= 1 /\ t = below' + (calm' - 1) * Period
           Good == /\ Known
                   /\ state = "active" /\ state' # "active" => E!Silent
                   /\ phase # "active" /\ phase' = "active" => t - crossed' <= E!PreFrames * Period
<1>7. ASSUME phase = "idle" \/ reset, ~E!Learning, E!Crossing(t, IF reset THEN 0 ELSE until)
      PROVE  Good
  <2>1. /\ phase' = IF Delay = 0 THEN "active" ELSE "pending"
        /\ crossed' = t /\ below' = 0 /\ calm' = 0
        /\ Delay # 0 => until' = t + Delay
    BY <1>7 DEF E!Crossing, E!DelayEnd
  <2>2. Delay # 0 => t < t + Delay
    BY <1>1
  <2>3. t = t + 0 * Period /\ 0 \in Nat
    BY <1>1
  <2>4. Known
    <3>1. \E j \in Nat : t = crossed' + j * Period
      BY <2>1, <2>3
    <3> QED
      BY <1>1, <1>4, <1>5, <1>7, <2>1, <2>2, <3>1
  <2>5. state # "active"
    BY <1>1, <1>2, <1>7
  <2>6. t - crossed' <= E!PreFrames * Period
    <3>1. t - crossed' = 0
      BY <1>1, <2>1
    <3>2. E!PreFrames * Period \in Int
      BY <1>1 DEF E!PreFrames
    <3> QED
      BY <1>1, <1>6, <3>1, <3>2
  <2> HIDE DEF Known
  <2> QED
    BY <2>4, <2>5, <2>6
<1>8. ASSUME phase = "idle" \/ reset, E!Quiet(IF reset THEN 0 ELSE until)
      PROVE  Good
  <2>1. phase' = "idle"
    BY <1>8 DEF E!Quiet
  <2>2. state # "active"
    BY <1>1, <1>2, <1>8
  <2>3. Known
    BY <1>4, <2>1
  <2> HIDE DEF Known
  <2> QED
    BY <2>1, <2>2, <2>3
<1>9. ASSUME ~reset, phase = "pending", E!Pending(t)
      PROVE  Good
  <2>1. /\ phase' = IF t >= until THEN "active" ELSE "pending"
        /\ UNCHANGED <<until, below, frozen, crossed, calm>>
        /\ below' = 0 /\ calm' = 0
    BY <1>2, <1>9 DEF E!Pending
  <2>2. PICK j \in Nat : now = crossed + j * Period
    BY <1>2, <1>9
  <2>3. j + 1 \in Nat /\ (j + 1) * Period = j * Period + Period /\ j * Period \in Int
    BY <1>1, OneMoreFrame
  <2>4. t = crossed + (j + 1) * Period
    BY <1>1, <2>2, <2>3
  <2>5. until = crossed + Delay /\ now < until
    BY <1>2, <1>9
  <2>6. Known
    <3>1. ~(t >= until) => t < until'
      BY <1>1, <2>1
    <3>2. \E k \in Nat : t = crossed' + k * Period
      BY <2>1, <2>3, <2>4
    <3> QED
      BY <1>2, <1>4, <1>5, <1>9, <2>1, <2>5, <3>1, <3>2
  <2>7. t - crossed' <= E!PreFrames * Period
    <3> DEFINE q == E!PreFrames
    <3>1. j * Period < Delay
      BY <1>1, <2>2, <2>3, <2>5
    <3>2. q = (PreContext + Period - 1) \div Period
      BY DEF E!PreFrames
    <3>3. q \in Int /\ PreContext + Period - 1 < (q + 1) * Period
      BY <1>1, <3>2
    <3> HIDE DEF q
    <3>4. j + 1 < q + 1
      <4>1. (j + 1) * Period < (q + 1) * Period
        <5>1. (q + 1) * Period \in Int
          BY <1>1, <3>3
        <5> QED
          BY <1>1, <2>3, <3>1, <3>3, <5>1
      <4>2. ASSUME q <= j
            PROVE  (q + 1) * Period <= (j + 1) * Period
        BY <1>1, <3>3, <4>2
      <4>3. (q + 1) * Period \in Int /\ (j + 1) * Period \in Int
        BY <1>1, <3>3
      <4> QED
        BY <3>3, <4>1, <4>2, <4>3
    <3>5. (j + 1) * Period <= q * Period
      <4>1. j + 1 <= q /\ j + 1 \in Int
        BY <3>3, <3>4
      <4> DEFINE k == j + 1
      <4> HIDE DEF k
      <4>2. k <= q /\ k \in Int
        BY <4>1 DEF k
      <4>3. k * Period <= q * Period
        BY <1>1, <3>3, <4>2
      <4> QED
        BY <4>3 DEF k
    <3>6. t - crossed' = (j + 1) * Period
      BY <1>1, <2>1, <2>3, <2>4
    <3> QED
      BY <3>5, <3>6 DEF q
  <2>8. state # "active"
    BY <1>2, <1>9
  <2> HIDE DEF Known
  <2> QED
    BY <2>6, <2>7, <2>8
<1>10. ASSUME NEW level \in Levels, ~reset, phase = "active", E!Active(t, level)
       PROVE  Good
  <2>1. PICK settled \in IF mode = "automatic" THEN BOOLEAN ELSE {TRUE} :
          LET ending == level < frozen /\ settled
              ends == ending /\ (Join = 0 \/ t >= E!BelowSince(t, ending) + Join)
          IN /\ phase' = IF ends THEN "idle" ELSE "active"
             /\ below' = IF ends THEN 0 ELSE E!BelowSince(t, ending)
             /\ calm' = IF ending THEN calm + 1 ELSE 0
             /\ UNCHANGED <<until, frozen, crossed>>
    BY <1>10 DEF E!Active
  <2> DEFINE ending == level < frozen /\ settled
             since == E!BelowSince(t, ending)
             ends == ending /\ (Join = 0 \/ t >= since + Join)
  <2>2. /\ phase' = IF ends THEN "idle" ELSE "active"
        /\ below' = IF ends THEN 0 ELSE since
        /\ calm' = IF ending THEN calm + 1 ELSE 0
        /\ crossed' = crossed
    BY <2>1
  <2>3. since = IF ~ending THEN 0 ELSE IF below = 0 THEN t ELSE below
    BY DEF E!BelowSince
  <2>4. ending \in BOOLEAN /\ (ends => ending) /\ (ends => Join = 0 \/ t >= since + Join)
    OBVIOUS
  <2> HIDE DEF ending, since, ends
  <2>5. (calm - 1) * Period \in Int /\ calm * Period = (calm - 1) * Period + Period
        /\ calm * Period \in Int
    <3>1. calm - 1 \in Int /\ Period \in Int /\ calm = (calm - 1) + 1
      BY <1>1
    <3> QED
      BY <1>1, <3>1, OneMoreFrame
  <2>7. ending => t = since + calm * Period
    <3>1. CASE ending /\ below = 0
      <4>1. calm = 0 /\ since = t
        BY <1>2, <1>10, <2>3, <3>1
      <4>2. 0 * Period = 0 /\ t + 0 = t
        BY <1>1
      <4> QED
        BY <4>1, <4>2
    <3>2. CASE ending /\ below # 0
      <4>1. calm >= 1 /\ now = below + (calm - 1) * Period /\ since = below
        BY <1>2, <1>10, <2>3, <3>2
      <4> QED
        BY <1>1, <2>5, <4>1
    <3> QED
      BY <3>1, <3>2
  <2>8. Known
    <3>1. CASE phase' = "idle"
      BY <1>4, <3>1
    <3>2. CASE phase' # "idle"
      <4>1. phase' = "active" /\ below' = since
        BY <2>2, <3>2
      <4>2. CASE ~ending
        <5>1. below' = 0 /\ calm' = 0
          BY <2>2, <2>3, <4>1, <4>2
        <5> QED
          BY <1>2, <1>4, <1>5, <1>10, <2>2, <4>1, <5>1
      <4>3. CASE ending
        <5>1. calm' - 1 = calm /\ calm' >= 1
          <6>1. calm' = calm + 1
            BY ONLY <2>2, <4>3
          <6> QED
            BY <1>1, <6>1
        <5>2. t = below' + (calm' - 1) * Period
          BY <2>7, <4>1, <4>3, <5>1
        <5>3. below' # 0
          <6>1. t > 0
            BY <1>1
          <6> QED
            BY <2>3, <4>1, <4>3, <6>1
        <5> QED
          BY <1>2, <1>4, <1>5, <1>10, <2>2, <4>1, <5>1, <5>2, <5>3
      <4> QED
        BY <2>4, <4>2, <4>3
    <3> QED
      BY <3>1, <3>2
  <2>9. ASSUME state' # "active"
        PROVE  E!Silent
    <3>1. ends
      BY <1>2, <1>3, <1>10, <2>2, <2>9
    <3>2. calm' - 1 = calm
      <4>1. ending
        BY <2>4, <3>1
      <4>2. calm' = calm + 1
        BY ONLY <2>2, <4>1
      <4> QED
        BY <1>1, <4>2
    <3>3. calm * Period >= Join
      <4>1. CASE Join = 0
        <5>1. calm * Period >= 0
          BY <1>1
        <5> QED
          BY <4>1, <5>1
      <4>2. CASE t >= since + Join
        <5>1. since \in Nat
          BY <1>1, <2>3
        <5> QED
          BY <1>1, <2>4, <2>5, <2>7, <3>1, <4>2, <5>1
      <4> QED
        BY <2>4, <3>1, <4>1, <4>2
    <3> QED
      BY <3>2, <3>3 DEF E!Silent
  <2> HIDE DEF Known
  <2> QED
    BY <1>10, <2>8, <2>9
<1> HIDE DEF Good
<1>11. Good
  BY <1>1, <1>7, <1>8, <1>9, <1>10, EchoesWays
<1>12. EventSound'
  BY <1>1, <1>11 DEF Good, EventSound, t
<1> QED
  BY <1>11, <1>12 DEF Good, E!CrossingRemembered, t

\* Every step preserves it.
LEMMA EventStep ==
  ASSUME RecorderSound, E!TypeOK, EventSound, Next
  PROVE  EventSound'
<1>1. /\ now' \in Nat /\ now' = now + Period /\ preprocessed < now' /\ plugin' = plugin
      /\ (\E reset \in BOOLEAN : FullStep(reset)) \/ PreprocessStep
  BY PluginSteps
<1>2. CASE plugin # "echoes_automatic"
  BY <1>1, <1>2 DEF EventSound
<1>3. CASE plugin = "echoes_automatic" /\ PreprocessStep
  <2>1. phase' = "idle" /\ state' = "idle"
    BY <1>3 DEF PreprocessStep, PreprocessOnly, E!Preprocess, E!Clear
  <2> QED
    BY <2>1 DEF EventSound
<1>4. ASSUME plugin = "echoes_automatic", NEW reset \in BOOLEAN, FullStep(reset)
      PROVE  EventSound'
  BY <1>1, <1>4, EventFull
<1> QED
  BY <1>1, <1>2, <1>3, <1>4

-----------------------------------------------------------------------------
(***************************************************************************)
(* meteor_logger_3f: the notches and the run.                              *)
(***************************************************************************)
\* The constants of the plugin.
LEMMA LoggerConstants ==
  /\ DetectionBins \subseteq Int /\ NotchWidth \in Nat /\ Release \in Nat
  /\ SequenceFrames \in Nat \ {0}
  BY DetectorsAssumption DEF M!LoggerAssumption

\* The run of hits is apart from every notch there is.
RunApart ==
  \/ run = M!NoRun
  \/ run.n >= 1 /\ \A m \in notches : M!Apart(run, m)

\* What a frame may be is typed, and a hit lies outside the notches.
LEMMA ScanTyped ==
  ASSUME NEW scan \in M!Scans
  PROVE  /\ scan \in [hit : BOOLEAN, freq : Int]
         /\ scan.hit => ~M!Notched(scan.freq)
<1>1. CASE scan = M!Miss
  BY <1>1 DEF M!Miss
<1>2. ASSUME NEW f \in DetectionBins, ~M!Notched(f), scan = M!Hit(f)
      PROVE  /\ scan \in [hit : BOOLEAN, freq : Int]
             /\ scan.hit => ~M!Notched(scan.freq)
  <2>1. f \in Int
    BY LoggerConstants
  <2> QED
    BY <1>2, <2>1 DEF M!Hit
<1> QED
  BY <1>1, <1>2 DEF M!Scans

\* Two distances that a mean keeps: its run passes a notch on one side.
LEMMA OneSide ==
  ASSUME NEW s \in Int, NEW S \in Int, NEW f \in Int, NEW w \in Nat,
         NEW k \in Nat \ {0}, NEW n \in Nat \ {0},
         2 * (s * n - S * k) > w * n * k,
         2 * (f * n - S) <= w * n,
         2 * (f * k - s) > w * k \/ 2 * (s - f * k) > w * k
  PROVE  2 * (s * (n + 1) - (S + f) * k) > w * (n + 1) * k
<1> DEFINE sn == s * n
           Sk == S * k
           wn == w * n
           wk == w * k
           fn == f * n
           fk == f * k
<1>1. /\ sn \in Int /\ Sk \in Int /\ wn \in Nat /\ wk \in Nat /\ fn \in Int /\ fk \in Int
  OBVIOUS
<1>2. /\ s * (n + 1) = sn + s /\ (S + f) * k = Sk + fk
      /\ w * (n + 1) * k = wn * k + wk
  OBVIOUS
<1>3. /\ 2 * (sn - Sk) > wn * k /\ 2 * (fn - S) <= wn
      /\ 2 * (fk - s) > wk \/ 2 * (s - fk) > wk
  OBVIOUS
<1>4. /\ fk * n = fn * k /\ wk * n = wn * k /\ wn * k \in Nat
      /\ fn * k \in Int /\ fk * n \in Int /\ wk * n \in Int
  OBVIOUS
<1> HIDE DEF sn, Sk, wn, wk, fn, fk
<1>5. ASSUME 2 * (fk - s) > wk
      PROVE  FALSE
  <2>1. 2 * (fk - s) * n > wk * n
    BY <1>1, <1>5
  <2>2. 2 * (fk - s) * n = 2 * (fk * n) - 2 * sn
    BY <1>1 DEF sn
  <2>3. 2 * (fn - S) * k <= wn * k
    BY <1>1, <1>3
  <2>4. 2 * (fn - S) * k = 2 * (fn * k) - 2 * Sk
    BY <1>1 DEF Sk
  <2> QED
    BY <1>1, <1>3, <1>4, <2>1, <2>2, <2>3, <2>4
<1>6. 2 * (s - fk) > wk
  BY <1>3, <1>5
<1> DEFINE wnk == wn * k
<1>7. wnk \in Nat /\ 2 * (sn - Sk) > wnk /\ w * (n + 1) * k = wnk + wk
  BY <1>2, <1>3, <1>4
<1> HIDE DEF wnk
<1>8. 2 * ((sn + s) - (Sk + fk)) > wnk + wk
  BY <1>1, <1>6, <1>7
<1> QED
  BY <1>2, <1>7, <1>8

\* The distance of two numbers is the larger of the two differences.
LEMMA Distances ==
  ASSUME NEW a \in Int, NEW b \in Int
  PROVE  /\ M!Minus(a, b) \in Nat
         /\ M!Minus(a, b) = M!Minus(b, a)
         /\ M!Minus(a, b) >= a - b /\ M!Minus(a, b) >= b - a
         /\ M!Minus(a, b) = a - b \/ M!Minus(a, b) = b - a
  BY DEF M!Minus

\* A hit outside a notch, within the run, leaves the run apart from the notch.
LEMMA LongerApart ==
  ASSUME NEW S \in Int, NEW n \in Nat \ {0}, NEW s \in Int, NEW k \in Nat \ {0}, NEW f \in Int,
         2 * M!Minus(S * k, s * n) > NotchWidth * n * k,
         2 * M!Minus(f * n, S) <= NotchWidth * n,
         2 * M!Minus(f * k, s) > NotchWidth * k
  PROVE  2 * M!Minus((S + f) * k, s * (n + 1)) > NotchWidth * (n + 1) * k
<1> DEFINE w == NotchWidth
<1>1. w \in Nat
  BY LoggerConstants
<1> HIDE DEF w
<1>2. /\ f * n \in Int /\ f * k \in Int /\ S * k \in Int /\ s * n \in Int
      /\ w * n \in Int /\ w * k \in Int /\ w * n * k \in Int
  BY <1>1
<1>3. 2 * (f * n - S) <= w * n /\ 2 * (S - f * n) <= w * n
  <2> DEFINE x == f * n
             y == w * n
  <2>1. x \in Int /\ y \in Int /\ 2 * M!Minus(x, S) <= y
    BY <1>2 DEF w
  <2> HIDE DEF x, y
  <2>2. M!Minus(x, S) \in Nat /\ M!Minus(x, S) >= x - S /\ M!Minus(x, S) >= S - x
    BY <2>1, Distances
  <2>3. 2 * (x - S) <= y /\ 2 * (S - x) <= y
    BY <2>1, <2>2
  <2> QED
    BY <2>3 DEF x, y
<1>4. 2 * (f * k - s) > w * k \/ 2 * (s - f * k) > w * k
  BY <1>1, <1>2, Distances DEF w
<1>5. (S + f) * k \in Int /\ s * (n + 1) \in Int /\ w * (n + 1) * k \in Int
  BY <1>1
<1>6. CASE 2 * (s * n - S * k) > w * n * k
  <2> DEFINE x == (S + f) * k
             y == s * (n + 1)
             z == w * (n + 1) * k
  <2>1. 2 * (y - x) > z
    BY <1>1, <1>3, <1>4, <1>6, OneSide
  <2>2. x \in Int /\ y \in Int /\ z \in Int
    BY <1>5
  <2> HIDE DEF x, y, z
  <2>3. M!Minus(x, y) \in Nat /\ M!Minus(x, y) >= y - x
    BY <2>2, Distances
  <2>4. 2 * M!Minus(x, y) > z
    BY <2>1, <2>2, <2>3
  <2> QED
    BY <2>4 DEF x, y, z, w
<1>7. CASE 2 * (S * k - s * n) > w * n * k
  <2> DEFINE a == -s
             B == -S
             g == -f
  <2>1. a \in Int /\ B \in Int /\ g \in Int /\ a * n = -(s * n) /\ B * k = -(S * k)
        /\ g * n = -(f * n) /\ g * k = -(f * k)
        /\ a * (n + 1) = -(s * (n + 1)) /\ (B + g) * k = -((S + f) * k)
    OBVIOUS
  <2>2. g * n - B = S - f * n /\ a * n - B * k = S * k - s * n
        /\ g * k - a = s - f * k /\ a - g * k = f * k - s
    BY <1>2
  <2> HIDE DEF a, B, g
  <2>3. 2 * (a * n - B * k) > w * n * k
    BY <1>7, <2>2
  <2>4. 2 * (g * n - B) <= w * n
    BY <1>3, <2>2
  <2>5. 2 * (g * k - a) > w * k \/ 2 * (a - g * k) > w * k
    BY <1>4, <2>2
  <2>6. 2 * (a * (n + 1) - (B + g) * k) > w * (n + 1) * k
    BY <1>1, <2>1, <2>3, <2>4, <2>5, OneSide
  <2> DEFINE x == (S + f) * k
             y == s * (n + 1)
             z == w * (n + 1) * k
  <2>7. x \in Int /\ y \in Int /\ z \in Int
    BY <1>5
  <2>8. a * (n + 1) = -y /\ (B + g) * k = -x
    BY <2>1
  <2>9. 2 * (a * (n + 1) - (B + g) * k) > z
    BY <2>6
  <2> HIDE DEF x, y, z
  <2>10. 2 * ((-y) - (-x)) > z
    BY ONLY <2>8, <2>9
  <2>11. 2 * (x - y) > z
    BY <2>7, <2>10
  <2>12. M!Minus(x, y) \in Nat /\ M!Minus(x, y) >= x - y
    BY <2>7, Distances
  <2>13. 2 * M!Minus(x, y) > z
    BY <2>7, <2>11, <2>12
  <2> QED
    BY <2>13 DEF x, y, z, w
<1> QED
  <2>1. 2 * M!Minus(S * k, s * n) > w * n * k
    BY DEF w
  <2> QED
    BY <1>2, <1>6, <1>7, <2>1, Distances

\* Two means are as far from each other as the other way round.
LEMMA ApartBothWays ==
  ASSUME NEW m \in [sum : Int, n : Nat], NEW k \in [sum : Int, n : Nat], M!Apart(m, k)
  PROVE  M!Apart(k, m)
<1> DEFINE a == m.sum * k.n
           b == k.sum * m.n
<1>1. a \in Int /\ b \in Int
  OBVIOUS
<1> HIDE DEF a, b
<1>2. M!Minus(a, b) = M!Minus(b, a)
  BY <1>1, Distances
<1>3. NotchWidth * m.n * k.n = NotchWidth * k.n * m.n
  BY LoggerConstants
<1> QED
  BY <1>2, <1>3 DEF a, b, M!Apart

\* The notches and the run after a frame.
LEMMA NotchesStep ==
  ASSUME NEW t \in Nat, NEW scan \in M!Scans, M!UpdateAutoNotch(scan, t),
         notches \subseteq M!Mean, run \in [sum : Int, n : Nat, start : Nat],
         RunApart, M!NotchesApart
  PROVE  /\ notches' \subseteq M!Mean /\ run' \in [sum : Int, n : Nat, start : Nat]
         /\ RunApart' /\ M!NotchesApart'
<1>1. scan \in [hit : BOOLEAN, freq : Int]
  BY ScanTyped
<1>2. M!NoRun \in [sum : Int, n : Nat, start : Nat]
  BY DEF M!NoRun
<1>3. CASE run' = M!NoRun /\ notches' = notches
  BY <1>2, <1>3 DEF RunApart, M!NotchesApart
<1>4. CASE UNCHANGED <<notches, run>>
  BY <1>4 DEF RunApart, M!NotchesApart
<1>5. ASSUME scan.hit
      PROVE  \A m \in notches : 2 * M!Minus(scan.freq * m.n, m.sum) > NotchWidth * m.n
  <2> TAKE m \in notches
  <2>1. ~M!Within(scan.freq, m)
    BY <1>5, ScanTyped DEF M!Notched
  <2>2. m.n \in Nat /\ m.sum \in Int /\ scan.freq * m.n \in Int
    BY <1>1 DEF M!Mean
  <2> DEFINE d == M!Minus(scan.freq * m.n, m.sum)
             w == NotchWidth * m.n
  <2>3. d \in Nat /\ w \in Nat
    <3>1. d \in Nat
      BY <2>2, Distances
    <3>2. NotchWidth \in Nat
      BY LoggerConstants
    <3> QED
      BY <2>2, <3>1, <3>2
  <2>4. ~(2 * d <= w)
    BY <2>1 DEF M!Within
  <2> HIDE DEF d, w
  <2>5. 2 * d > w
    BY <2>3, <2>4
  <2> QED
    BY <2>5 DEF d, w
<1>6. CASE scan.hit /\ run' = [sum |-> scan.freq, n |-> 1, start |-> t] /\ notches' = notches
  <2>1. run' \in [sum : Int, n : Nat, start : Nat]
    BY <1>1, <1>6
  <2>2. ASSUME NEW m \in notches
        PROVE  M!Apart(run', m)
    <3>1. m.n \in Nat /\ m.sum \in Int /\ NotchWidth \in Nat
      BY LoggerConstants DEF M!Mean
    <3>2. m.sum * 1 = m.sum /\ NotchWidth * 1 * m.n = NotchWidth * m.n
      BY <3>1
    <3>3. run'.sum = scan.freq /\ run'.n = 1
      BY <1>6
    <3> QED
      BY <1>5, <1>6, <3>2, <3>3 DEF M!Apart
  <2>3. RunApart'
    <3>1. run'.n >= 1
      BY <1>6
    <3>2. \A m \in notches' : M!Apart(run', m)
      BY <1>6, <2>2
    <3> QED
      BY <3>1, <3>2 DEF RunApart
  <2>4. M!NotchesApart'
    BY <1>6 DEF M!NotchesApart
  <2> QED
    BY <1>6, <2>1, <2>3, <2>4
<1>7. ASSUME scan.hit, M!RunGoesOn(scan)
      PROVE  /\ M!Longer(scan) \in [sum : Int, n : Nat, start : Nat]
             /\ M!Longer(scan).n >= 1
             /\ \A m \in notches : M!Apart(M!Longer(scan), m)
  <2> DEFINE r == M!Longer(scan)
  <2>1. run # M!NoRun /\ run.n \in Nat /\ run.n >= 1 /\ run.sum \in Int
        /\ \A m \in notches : M!Apart(run, m)
    BY <1>7 DEF M!RunGoesOn, RunApart
  <2>2. r = [run EXCEPT !.sum = run.sum + scan.freq, !.n = run.n + 1]
    BY DEF M!Longer
  <2>3. run.sum + scan.freq \in Int /\ run.n + 1 \in Nat /\ run.n + 1 >= 1
    BY <1>1, <2>1
  <2>4. r.sum = run.sum + scan.freq /\ r.n = run.n + 1 /\ r \in [sum : Int, n : Nat, start : Nat]
    BY <2>2, <2>3
  <2> HIDE DEF r
  <2>5. ASSUME NEW m \in notches
        PROVE  M!Apart(r, m)
    <3>1. m.n \in Nat \ {0} /\ m.sum \in Int /\ run.n \in Nat \ {0} /\ scan.freq \in Int
      BY <1>1, <2>1 DEF M!Mean
    <3>2. 2 * M!Minus(run.sum * m.n, m.sum * run.n) > NotchWidth * run.n * m.n
      BY <2>1 DEF M!Apart
    <3>3. 2 * M!Minus(scan.freq * run.n, run.sum) <= NotchWidth * run.n
      BY <1>7 DEF M!RunGoesOn, M!Within
    <3>4. 2 * M!Minus(scan.freq * m.n, m.sum) > NotchWidth * m.n
      BY <1>5, <1>7
    <3>5. 2 * M!Minus((run.sum + scan.freq) * m.n, m.sum * (run.n + 1))
            > NotchWidth * (run.n + 1) * m.n
      BY <2>1, <3>1, <3>2, <3>3, <3>4, LongerApart
    <3> QED
      BY <2>4, <3>5 DEF M!Apart
  <2> QED
    BY <2>3, <2>4, <2>5 DEF r
<1>8. CASE /\ scan.hit /\ M!RunGoesOn(scan)
           /\ run' = M!Longer(scan) /\ notches' = notches
  <2>1. RunApart'
    BY <1>7, <1>8 DEF RunApart
  <2> QED
    BY <1>7, <1>8, <2>1 DEF M!NotchesApart
<1>9. CASE /\ scan.hit /\ M!RunGoesOn(scan)
           /\ notches' = notches \cup {[sum |-> M!Longer(scan).sum, n |-> M!Longer(scan).n]}
           /\ run' = M!NoRun
  <2> DEFINE r == M!Longer(scan)
             new == [sum |-> r.sum, n |-> r.n]
  <2>1. /\ r \in [sum : Int, n : Nat, start : Nat] /\ r.n >= 1
        /\ \A m \in notches : M!Apart(r, m)
    BY <1>7, <1>9
  <2>2. notches' = notches \cup {new} /\ run' = M!NoRun
    BY <1>9
  <2> HIDE DEF r
  <2>3. new \in M!Mean /\ new \in [sum : Int, n : Nat]
    BY <2>1 DEF M!Mean
  <2>4. \A m \in notches : M!Apart(new, m)
    BY <2>1 DEF M!Apart
  <2> HIDE DEF new
  <2>5. \A m \in notches : m \in [sum : Int, n : Nat]
    BY DEF M!Mean
  <2>6. \A m \in notches : M!Apart(m, new)
    BY <2>3, <2>4, <2>5, ApartBothWays
  <2>7. \A m, k \in notches' : m = k \/ M!Apart(m, k)
    BY <2>2, <2>4, <2>6 DEF M!NotchesApart
  <2>8. M!NotchesApart'
    BY <2>7 DEF M!NotchesApart, M!Apart, M!Minus
  <2> QED
    BY <1>2, <2>2, <2>3, <2>8 DEF RunApart
<1> QED
  BY <1>3, <1>4, <1>6, <1>8, <1>9 DEF M!UpdateAutoNotch

-----------------------------------------------------------------------------
(***************************************************************************)
(* meteor_logger_3f: the sequence of frames and the object.                *)
(***************************************************************************)
Sample == [hit : BOOLEAN, freq : Int, at : Nat]

\* Each hit is compatible with the one before it.
Coherent(s) ==
  \A i, j \in M!Hits(s) :
    i < j /\ (\A k \in (i + 1) .. (j - 1) : ~s[k].hit)
      => M!Compatible(s[j].freq, s[j].at, s[i].freq, s[i].at)

\* Hits that there are have a last one.
LastThere(s) ==
  M!Hits(s) # {} => \E i \in M!Hits(s) : \A j \in M!Hits(s) : j <= i

\* A sequence of frames that came after n.
SequenceKnown(s, n) ==
  /\ s \in Seq(Sample)
  /\ Coherent(s)
  /\ LastThere(s)
  /\ \A i \in DOMAIN s : s[i].at > n

\* The last hit is the one that no hit follows.
LEMMA LastHitIs ==
  ASSUME NEW s \in Seq(Sample), NEW i \in M!Hits(s), \A j \in M!Hits(s) : j <= i
  PROVE  M!LastHit(s) = s[i]
<1> DEFINE H == M!Hits(s)
<1>1. H \subseteq Nat /\ i \in H /\ \A j \in H : j <= i
  BY DEF M!Hits
<1> HIDE DEF H
<1>2. \A x \in H : (\A y \in H : x >= y) => x = i
  BY <1>1
<1>3. M!Max(H) = i
  BY <1>1, <1>2 DEF M!Max
<1> QED
  BY <1>3 DEF H, M!LastHit

\* A frame may be added whose hit is compatible with the last one.
LEMMA KnownAppended ==
  ASSUME NEW s, NEW n \in Nat, SequenceKnown(s, n), NEW e \in Sample, e.at > n,
         e.hit /\ M!Hits(s) # {} =>
           M!Compatible(e.freq, e.at, M!LastHit(s).freq, M!LastHit(s).at)
  PROVE  SequenceKnown(Append(s, e), n)
<1> DEFINE z == Append(s, e)
           l == Len(s)
<1>1. s \in Seq(Sample) /\ l \in Nat /\ DOMAIN s = 1 .. l
  BY DEF SequenceKnown
<1>2. /\ z \in Seq(Sample) /\ DOMAIN z = 1 .. (l + 1)
      /\ z[l + 1] = e /\ \A i \in 1 .. l : z[i] = s[i]
  BY <1>1
<1> HIDE DEF z, l
<1>3. \A i \in 1 .. l : i \in M!Hits(s) <=> i \in M!Hits(z)
  BY <1>1, <1>2 DEF M!Hits
<1>4. (l + 1) \in M!Hits(z) <=> e.hit
  BY <1>1, <1>2 DEF M!Hits
<1>5. M!Hits(z) \subseteq 1 .. (l + 1) /\ M!Hits(s) \subseteq 1 .. l
  BY <1>1, <1>2 DEF M!Hits
<1>6. LastThere(z)
  <2>1. CASE e.hit
    <3>1. (l + 1) \in M!Hits(z) /\ \A j \in M!Hits(z) : j <= l + 1
      BY <1>1, <1>4, <1>5, <2>1
    <3> QED
      BY <3>1 DEF LastThere
  <2>2. CASE ~e.hit
    <3>1. M!Hits(z) = M!Hits(s)
      <4>1. \A i \in 1 .. (l + 1) : i \in 1 .. l \/ i = l + 1
        BY <1>1
      <4>2. \A i \in 1 .. l : i \in 1 .. (l + 1)
        BY <1>1
      <4> QED
        BY <1>3, <1>4, <1>5, <2>2, <4>1, <4>2, Zenon
    <3> QED
      BY <3>1 DEF LastThere, SequenceKnown
  <2> QED
    BY <2>1, <2>2
<1>7. \A i \in DOMAIN z : z[i].at > n
  <2> TAKE i \in DOMAIN z
  <2>1. CASE i \in 1 .. l
    BY <1>1, <1>2, <2>1 DEF SequenceKnown
  <2>2. CASE i = l + 1
    BY <1>2, <2>2
  <2> QED
    BY <1>1, <1>2, <2>1, <2>2
<1>8. Coherent(z)
  <2> SUFFICES ASSUME NEW i \in M!Hits(z), NEW j \in M!Hits(z), i < j,
                      \A k \in (i + 1) .. (j - 1) : ~z[k].hit
               PROVE  M!Compatible(z[j].freq, z[j].at, z[i].freq, z[i].at)
    BY DEF Coherent
  <2>1. i \in 1 .. l /\ i \in Int /\ j \in Int /\ i \in M!Hits(s) /\ z[i] = s[i]
    BY <1>1, <1>2, <1>3, <1>5
  <2>2. CASE j \in 1 .. l
    <3>1. j \in M!Hits(s) /\ z[j] = s[j]
      BY <1>2, <1>3, <2>2
    <3>2. \A k \in (i + 1) .. (j - 1) : ~s[k].hit
      BY <1>1, <1>2, <2>1, <2>2
    <3> QED
      BY <2>1, <3>1, <3>2 DEF Coherent, SequenceKnown
  <2>3. CASE j = l + 1
    <3>1. e.hit /\ z[j] = e
      BY <1>2, <1>4, <2>3
    <3>2. \A k \in M!Hits(s) : k <= i
      <4> SUFFICES ASSUME NEW k \in M!Hits(s), k > i
                   PROVE  FALSE
        BY <1>1, <1>5, <2>1
      <4>1. k \in 1 .. l /\ k \in (i + 1) .. (j - 1)
        BY <1>1, <1>5, <2>1, <2>3
      <4> QED
        BY <1>2, <4>1 DEF M!Hits
    <3>3. M!LastHit(s) = s[i]
      BY <1>1, <2>1, <3>2, LastHitIs
    <3> QED
      BY <2>1, <3>1, <3>3
  <2> QED
    BY <1>1, <1>5, <2>2, <2>3
<1> QED
  BY <1>2, <1>6, <1>7, <1>8 DEF SequenceKnown, z

\* The first frame may be forgotten.
LEMMA KnownTail ==
  ASSUME NEW s, NEW n \in Nat, SequenceKnown(s, n), Len(s) > 0
  PROVE  SequenceKnown(Tail(s), n)
<1> DEFINE z == Tail(s)
           l == Len(s) - 1
<1>1. s \in Seq(Sample) /\ l \in Nat /\ DOMAIN s = 1 .. (l + 1)
  BY DEF SequenceKnown
<1>2. /\ z \in Seq(Sample) /\ DOMAIN z = 1 .. l
      /\ \A i \in 1 .. l : z[i] = s[i + 1]
  BY <1>1
<1> HIDE DEF z, l
<1>3. \A i \in M!Hits(z) : i \in 1 .. l /\ i + 1 \in M!Hits(s)
  BY <1>1, <1>2 DEF M!Hits
<1>4. \A i \in M!Hits(s) : i > 1 => i \in Int /\ i - 1 \in M!Hits(z)
  <2> SUFFICES ASSUME NEW i \in M!Hits(s), i > 1
               PROVE  i \in Int /\ i - 1 \in M!Hits(z)
    OBVIOUS
  <2>1. i \in 1 .. (l + 1) /\ s[i].hit
    BY <1>1 DEF M!Hits
  <2>2. i - 1 \in 1 .. l /\ (i - 1) + 1 = i
    BY <1>1, <2>1
  <2>3. z[i - 1] = s[i]
    BY <1>2, <2>2
  <2> QED
    BY <1>2, <2>1, <2>2, <2>3 DEF M!Hits
<1>5. LastThere(z)
  <2> SUFFICES ASSUME NEW k \in M!Hits(z)
               PROVE  \E i \in M!Hits(z) : \A j \in M!Hits(z) : j <= i
    BY DEF LastThere
  <2>1. PICK i \in M!Hits(s) : \A j \in M!Hits(s) : j <= i
    BY <1>3 DEF LastThere, SequenceKnown
  <2>2. i \in Int
    BY <1>1 DEF M!Hits
  <2>3. i > 1
    BY <1>1, <1>3, <2>1, <2>2
  <2>4. i - 1 \in M!Hits(z)
    BY <1>4, <2>3
  <2>5. \A j \in M!Hits(z) : j <= i - 1
    BY <1>1, <1>3, <2>1, <2>2
  <2> QED
    BY <2>4, <2>5
<1>6. \A i \in DOMAIN z : z[i].at > n
  <2> TAKE i \in DOMAIN z
  <2>1. i + 1 \in DOMAIN s /\ z[i] = s[i + 1]
    BY <1>1, <1>2
  <2> QED
    BY <2>1 DEF SequenceKnown
<1>7. Coherent(z)
  <2> SUFFICES ASSUME NEW i \in M!Hits(z), NEW j \in M!Hits(z), i < j,
                      \A k \in (i + 1) .. (j - 1) : ~z[k].hit
               PROVE  M!Compatible(z[j].freq, z[j].at, z[i].freq, z[i].at)
    BY DEF Coherent
  <2>1. /\ i \in 1 .. l /\ j \in 1 .. l
        /\ i + 1 \in M!Hits(s) /\ j + 1 \in M!Hits(s)
        /\ z[i] = s[i + 1] /\ z[j] = s[j + 1]
    BY <1>2, <1>3
  <2> DEFINE a == i + 1
             b == j + 1
  <2>2. a \in Int /\ b \in Int /\ a < b /\ i = a - 1 /\ j = b - 1
    BY <1>1, <2>1
  <2>3. \A k \in (a + 1) .. (b - 1) : ~s[k].hit
    <3> TAKE k \in (a + 1) .. (b - 1)
    <3>1. k \in Int /\ k - 1 \in (i + 1) .. (j - 1) /\ k - 1 \in 1 .. l /\ (k - 1) + 1 = k
      BY <1>1, <2>1, <2>2
    <3>2. z[k - 1] = s[k]
      BY <1>2, <3>1
    <3> QED
      BY <3>1, <3>2
  <2>4. a \in M!Hits(s) /\ b \in M!Hits(s) /\ z[i] = s[a] /\ z[j] = s[b]
    BY <2>1
  <2> HIDE DEF a, b
  <2> QED
    BY <2>2, <2>3, <2>4 DEF Coherent, SequenceKnown
<1> QED
  BY <1>2, <1>5, <1>6, <1>7 DEF SequenceKnown, z

\* No frames are known.
LEMMA KnownEmpty ==
  ASSUME NEW n
  PROVE  SequenceKnown(<<>>, n)
<1>1. <<>> \in Seq(Sample) /\ DOMAIN <<>> = {} /\ M!Hits(<<>>) = {}
  BY DEF M!Hits
<1> QED
  BY <1>1 DEF SequenceKnown, Coherent, LastThere

\* The frames that count after one more: those before it unless it drifts away.
LEMMA KnownLonger ==
  ASSUME NEW s, NEW n \in Nat, SequenceKnown(s, n),
         NEW scan \in [hit : BOOLEAN, freq : Int], NEW t \in Nat, t > n
  PROVE  SequenceKnown(M!Appended(s, scan, t), n)
<1> DEFINE e == [hit |-> scan.hit, freq |-> scan.freq, at |-> t]
           b == IF M!Drifts(s, scan, t) THEN <<>> ELSE s
           z == Append(b, e)
<1>1. e \in Sample /\ e.at > n /\ e.hit = scan.hit /\ e.freq = scan.freq /\ e.at = t
  BY DEF Sample
<1>2. SequenceKnown(b, n)
  BY KnownEmpty
<1>3. e.hit /\ M!Hits(b) # {} =>
        M!Compatible(e.freq, e.at, M!LastHit(b).freq, M!LastHit(b).at)
  <2>1. CASE M!Drifts(s, scan, t)
    <3>1. M!Hits(b) = {}
      BY <2>1 DEF M!Hits
    <3> QED
      BY <3>1
  <2>2. CASE ~M!Drifts(s, scan, t)
    <3>1. b = s
      BY <2>2
    <3> HIDE DEF b, e
    <3> QED
      BY <1>1, <2>2, <3>1 DEF M!Drifts
  <2> QED
    BY <2>1, <2>2
<1>4. M!Appended(s, scan, t) = IF Len(z) > SequenceFrames THEN Tail(z) ELSE z
  BY DEF M!Appended
<1> HIDE DEF b, e
<1>5. SequenceKnown(z, n)
  BY <1>1, <1>2, <1>3, KnownAppended
<1>6. Len(z) > 0
  BY <1>1, <1>2 DEF SequenceKnown
<1> HIDE DEF z
<1>7. SequenceKnown(Tail(z), n)
  BY <1>5, <1>6, KnownTail
<1> QED
  BY <1>4, <1>5, <1>7

\* The object that a sequence gives began with the first of its frames.
LEMMA ObjectFrom ==
  ASSUME NEW s, NEW n \in Nat, SequenceKnown(s, n), M!Hits(s) # {}
  PROVE  /\ M!FromSequence(s) \in [start : Nat, seen : Nat, freq : Int]
         /\ M!FromSequence(s).start > n
<1>1. s \in Seq(Sample) /\ \A i \in DOMAIN s : s[i].at > n
  BY DEF SequenceKnown
<1>2. PICK i \in M!Hits(s) : \A j \in M!Hits(s) : j <= i
  BY DEF SequenceKnown, LastThere
<1>3. M!LastHit(s) = s[i] /\ i \in DOMAIN s
  BY <1>1, <1>2, LastHitIs DEF M!Hits
<1>4. s[i] \in Sample
  BY <1>1, <1>3
<1>5. 1 \in DOMAIN s /\ Head(s) = s[1]
  BY <1>1, <1>3
<1>6. Head(s) \in Sample /\ Head(s).at > n
  BY <1>1, <1>5
<1>7. M!FromSequence(s) = [start |-> Head(s).at, seen |-> M!LastHit(s).at,
                           freq |-> M!LastHit(s).freq]
  BY DEF M!FromSequence
<1> QED
  BY <1>3, <1>4, <1>6, <1>7 DEF Sample

\* An object that is followed stays the one that began when it did.  It is lost
\* when it has not been seen for the release time.
LEMMA ObjectFollowed ==
  ASSUME NEW o \in [start : Nat, seen : Nat, freq : Int],
         NEW scan \in [hit : BOOLEAN, freq : Int], NEW t \in Nat, t > 0
  PROVE  LET held == M!Followed(o, scan, t)
         IN /\ held \in [start : Nat, seen : Nat, freq : Int]
            /\ held # M!NoObject => o # M!NoObject /\ held.start = o.start
            /\ held = M!NoObject /\ o.start > 0 => t - o.seen > Release
<1> DEFINE seen == IF scan.hit /\ M!Compatible(scan.freq, t, o.freq, o.seen)
                   THEN [o EXCEPT !.seen = t, !.freq = scan.freq] ELSE o
           held == M!Followed(o, scan, t)
<1>1. held = IF o = M!NoObject \/ t - seen.seen > Release THEN M!NoObject ELSE seen
  BY DEF M!Followed
<1>2. /\ seen \in [start : Nat, seen : Nat, freq : Int] /\ seen.start = o.start
      /\ seen.seen = t \/ seen = o
  OBVIOUS
<1>3. M!NoObject \in [start : Nat, seen : Nat, freq : Int] /\ M!NoObject.start = 0
  BY DEF M!NoObject
<1> HIDE DEF seen, held
<1>4. ASSUME held = M!NoObject, o.start > 0
      PROVE  t - o.seen > Release
  <2>1. o # M!NoObject /\ seen # M!NoObject
    BY <1>2, <1>3, <1>4
  <2>2. t - seen.seen > Release
    BY <1>1, <1>4, <2>1
  <2>3. seen.seen # t
    BY <2>2, LoggerConstants
  <2> QED
    BY <1>2, <2>2, <2>3
<1> QED
  BY <1>1, <1>2, <1>3, <1>4 DEF held

\* What the plugin has comes from frames after the last one that was only
\* preprocessed, and it is active while it has an object.
LoggerSound ==
  /\ notches \subseteq M!Mean /\ run \in [sum : Int, n : Nat, start : Nat]
  /\ RunApart
  /\ M!NotchesApart
  /\ object \in [start : Nat, seen : Nat, freq : Int]
  /\ SequenceKnown(sequence, IF plugin = "meteor_logger_3f" THEN preprocessed ELSE 0)
  /\ plugin = "meteor_logger_3f" =>
       /\ object # M!NoObject => object.start > preprocessed
       /\ state = "active" => object # M!NoObject

\* A frame in Full mode, and an event that ends with it.
LEMMA LoggerFull ==
  ASSUME RecorderSound, LoggerSound, plugin = "meteor_logger_3f",
         NEW reset \in BOOLEAN, FullStep(reset), plugin' = plugin,
         now' \in Nat, preprocessed < now'
  PROVE  /\ LoggerSound'
         /\ state = "active" /\ state' # "active" => M!Silent(now')
<1> DEFINE t == now'
           n == preprocessed
<1>1. t \in Nat /\ n \in Nat /\ t > n /\ t > 0
  BY DEF RecorderSound
<1>2. /\ notches \subseteq M!Mean /\ run \in [sum : Int, n : Nat, start : Nat]
      /\ RunApart /\ M!NotchesApart
      /\ object \in [start : Nat, seen : Nat, freq : Int]
      /\ SequenceKnown(sequence, n)
      /\ object # M!NoObject => object.start > n
      /\ state = "active" => object # M!NoObject
  BY DEF LoggerSound
<1>3. M!Full(t, reset) /\ preprocessed' = n /\ (reset => state # "active")
  BY DEF FullStep, Full
<1> HIDE DEF t, n
<1>4. PICK scan \in M!Scans :
        LET s == M!Appended(IF reset THEN M!Cleared(sequence) ELSE sequence, scan, t)
            held == IF reset THEN M!NoObject ELSE M!Followed(object, scan, t)
        IN /\ M!UpdateAutoNotch(scan, t)
           /\ sequence' = s
           /\ object' = IF held = M!NoObject /\ M!Qualifies(s) THEN M!FromSequence(s) ELSE held
           /\ state' = IF object' = M!NoObject THEN "idle" ELSE "active"
  BY <1>3 DEF M!Full
<1> DEFINE b == IF reset THEN M!Cleared(sequence) ELSE sequence
           s == M!Appended(b, scan, t)
           followed == M!Followed(object, scan, t)
           held == IF reset THEN M!NoObject ELSE followed
<1>5. /\ M!UpdateAutoNotch(scan, t)
      /\ sequence' = s
      /\ object' = IF held = M!NoObject /\ M!Qualifies(s) THEN M!FromSequence(s) ELSE held
      /\ state' = IF object' = M!NoObject THEN "idle" ELSE "active"
  BY <1>4
<1>6. scan \in [hit : BOOLEAN, freq : Int]
  BY ScanTyped
<1>7. SequenceKnown(b, n)
  BY <1>2, KnownEmpty DEF M!Cleared
<1> HIDE DEF b
<1>8. SequenceKnown(s, n)
  BY <1>1, <1>6, <1>7, KnownLonger
<1>9. /\ followed \in [start : Nat, seen : Nat, freq : Int]
      /\ followed # M!NoObject => object # M!NoObject /\ followed.start = object.start
      /\ followed = M!NoObject /\ object.start > 0 => t - object.seen > Release
  BY <1>1, <1>2, <1>6, ObjectFollowed
<1> HIDE DEF s, followed
<1>10. /\ M!NoObject \in [start : Nat, seen : Nat, freq : Int]
       /\ held \in [start : Nat, seen : Nat, freq : Int]
       /\ held # M!NoObject => held.start > n
  BY <1>2, <1>9 DEF M!NoObject
<1> HIDE DEF held
<1>11. /\ object' \in [start : Nat, seen : Nat, freq : Int]
       /\ object' # M!NoObject => object'.start > n
  <2>1. CASE held = M!NoObject /\ M!Qualifies(s) /\ M!Hits(s) # {}
    BY <1>1, <1>5, <1>8, <2>1, ObjectFrom DEF n
  <2>2. CASE held = M!NoObject /\ M!Qualifies(s) /\ M!Hits(s) = {}
    <3>1. object' = M!NoObject
      BY <1>5, <2>2 DEF M!FromSequence
    <3> QED
      BY <1>10, <3>1
  <2>3. CASE ~(held = M!NoObject /\ M!Qualifies(s))
    <3>1. object' = held
      BY <1>5, <2>3
    <3> QED
      BY <1>10, <3>1
  <2> QED
    BY <2>1, <2>2, <2>3
<1>12. state' = "active" => object' # M!NoObject
  BY <1>5
<1>13. /\ notches' \subseteq M!Mean /\ run' \in [sum : Int, n : Nat, start : Nat]
       /\ RunApart' /\ M!NotchesApart'
  BY <1>1, <1>2, <1>5, NotchesStep
<1>14. LoggerSound'
  BY <1>3, <1>5, <1>8, <1>11, <1>12, <1>13 DEF LoggerSound
<1>15. ASSUME state = "active", state' # "active"
       PROVE  M!Silent(now')
  <2>1. ~reset /\ object # M!NoObject /\ object.start > n /\ object.start \in Nat
    BY <1>2, <1>3, <1>15
  <2>2. object' = M!NoObject
    BY <1>5, <1>15
  <2>3. held = M!NoObject
    <3>1. CASE held # M!NoObject
      BY <1>5, <2>2, <3>1
    <3> QED
      BY <3>1
  <2>4. followed = M!NoObject
    BY <2>1, <2>3 DEF held
  <2>5. object.start > 0
    BY <1>1, <2>1
  <2> QED
    BY <1>9, <2>4, <2>5 DEF M!Silent, t
<1> QED
  BY <1>14, <1>15

\* Every step keeps the logger sound.
LEMMA LoggerStep ==
  ASSUME RecorderSound, LoggerSound, Next
  PROVE  LoggerSound'
<1>1. /\ now' \in Nat /\ preprocessed \in Nat /\ preprocessed < now' /\ plugin' = plugin
      /\ (\E reset \in BOOLEAN : FullStep(reset)) \/ PreprocessStep
  BY PluginSteps
<1>2. CASE plugin # "meteor_logger_3f"
  <2>1. UNCHANGED <<notches, run, sequence, object>>
    BY <1>1, <1>2 DEF FullStep, PreprocessStep, Full, PreprocessOnly, loggerVars
  <2>2. SequenceKnown(sequence', 0)
    BY <1>2, <2>1 DEF LoggerSound
  <2>3. RunApart' /\ M!NotchesApart'
    BY <2>1 DEF LoggerSound, RunApart, M!NotchesApart
  <2> QED
    BY <1>1, <1>2, <2>1, <2>2, <2>3 DEF LoggerSound
<1>3. CASE plugin = "meteor_logger_3f" /\ PreprocessStep
  <2>1. M!Preprocess(now') /\ preprocessed' = now'
    BY <1>3 DEF PreprocessStep, PreprocessOnly
  <2>2. PICK scan \in M!Scans : M!UpdateAutoNotch(scan, now')
    BY <2>1 DEF M!Preprocess
  <2>3. /\ notches' \subseteq M!Mean /\ run' \in [sum : Int, n : Nat, start : Nat]
        /\ RunApart' /\ M!NotchesApart'
    BY <1>1, <2>2, NotchesStep DEF LoggerSound
  <2>4. sequence' = <<>> /\ object' = M!NoObject /\ state' = "idle"
    BY <2>1 DEF M!Preprocess, M!Cleared
  <2>5. SequenceKnown(sequence', IF plugin' = "meteor_logger_3f" THEN preprocessed' ELSE 0)
    BY <2>4, KnownEmpty
  <2>6. object' \in [start : Nat, seen : Nat, freq : Int]
    BY <2>4 DEF M!NoObject
  <2> QED
    BY <2>3, <2>4, <2>5, <2>6 DEF LoggerSound
<1>4. ASSUME plugin = "meteor_logger_3f", NEW reset \in BOOLEAN, FullStep(reset)
      PROVE  LoggerSound'
  BY <1>1, <1>4, LoggerFull
<1> QED
  BY <1>1, <1>2, <1>3, <1>4

-----------------------------------------------------------------------------
(***************************************************************************)
(* The invariant, and what follows from it.                                *)
(***************************************************************************)
DetectorsInv ==
  RecorderSound /\ TracksSound /\ E!TypeOK /\ EventSound /\ LoggerSound

\* It holds initially.
LEMMA DetectorsStart ==
  ASSUME Init
  PROVE  DetectorsInv
<1>1. RecorderSound
  BY DEF Init, RecorderSound
<1>2. TracksSound
  <2>1. heard = 0 /\ tracks = {} /\ state = "idle"
    BY DEF Init, P!Init
  <2>2. 0 \in 0 .. TimeMean
    BY DetectorsAssumption DEF P!TrackerAssumption
  <2> QED
    BY <2>1, <2>2 DEF TracksSound, TracksKnown
<1>3. E!TypeOK
  <2>1. 0 \in 0 .. Warmup
    BY EchoesConstants
  <2> QED
    BY <2>1 DEF Init, E!Init, E!TypeOK
<1>4. EventSound
  BY DEF Init, E!Init, EventSound
<1>5. LoggerSound
  <2>1. /\ notches = {} /\ run = M!NoRun /\ sequence = <<>> /\ object = M!NoObject
        /\ state = "idle"
    BY DEF Init, M!Init
  <2>2. /\ M!NoRun \in [sum : Int, n : Nat, start : Nat]
        /\ M!NoObject \in [start : Nat, seen : Nat, freq : Int]
    BY DEF M!NoRun, M!NoObject
  <2>3. SequenceKnown(sequence, IF plugin = "meteor_logger_3f" THEN preprocessed ELSE 0)
    BY <2>1, KnownEmpty
  <2>4. RunApart /\ M!NotchesApart
    BY <2>1 DEF RunApart, M!NotchesApart
  <2> QED
    BY <2>1, <2>2, <2>3, <2>4 DEF LoggerSound
<1> QED
  BY <1>1, <1>2, <1>3, <1>4, <1>5 DEF DetectorsInv

\* Every step preserves it.
LEMMA DetectorsStep ==
  ASSUME DetectorsInv, [Next]_vars
  PROVE  DetectorsInv'
<1>1. CASE Next
  BY <1>1, RecorderStep, TracksStep, EchoesTypesStep, EventStep, LoggerStep DEF DetectorsInv
<1>2. CASE UNCHANGED vars
  <2>1. /\ UNCHANGED <<plugin, now, state, post, eventStart, rearmUntil, preprocessed>>
        /\ UNCHANGED <<heard, tracks, notches, run, sequence, object>>
        /\ UNCHANGED <<mode, phase, until, below, frozen, baseline, learned, crossed, calm>>
    BY <1>2 DEF vars, recorderVars, trackerVars, echoesVars, loggerVars
  <2>2. RecorderSound' /\ TracksSound'
    BY <2>1 DEF DetectorsInv, RecorderSound, TracksSound
  <2>3. (E!TypeOK)'
    BY <2>1 DEF DetectorsInv, E!TypeOK
  <2>4. EventSound'
    BY <2>1 DEF DetectorsInv, EventSound, E!Learning
  <2>5. RunApart' /\ M!NotchesApart'
    BY <2>1 DEF DetectorsInv, LoggerSound, RunApart, M!NotchesApart
  <2>6. LoggerSound'
    BY <2>1, <2>5 DEF DetectorsInv, LoggerSound
  <2> QED
    BY <2>2, <2>3, <2>4, <2>6 DEF DetectorsInv
<1> QED
  BY <1>1, <1>2

\* DetectorsInv is inductive.
THEOREM DetectorsInvariant == Spec => []DetectorsInv
  BY DetectorsStart, DetectorsStep, PTL DEF Spec

\* Types, of the recorder's part and of the plugins.
THEOREM TypeCorrect == Spec => []TypeOK
<1>1. ASSUME DetectorsInv
      PROVE  TypeOK
  <2>1. P!TypeOK
    BY <1>1 DEF DetectorsInv, TracksSound, TracksKnown, P!TypeOK
  <2>2. M!TypeOK
    BY <1>1 DEF DetectorsInv, LoggerSound, SequenceKnown, Sample, M!TypeOK
  <2> QED
    BY <1>1, <2>1, <2>2 DEF DetectorsInv, RecorderSound, TypeOK
<1>2. DetectorsInv => TypeOK
  BY <1>1
<1> QED
  BY <1>2, DetectorsInvariant, PTL

\* After a forced cutoff no plugin goes on with what it had: the tracks, the
\* crossing or the object behind an active answer of process() began after the
\* last frame in PreprocessOnly mode.
THEOREM NothingIsInherited == Spec => []NothingInherited
<1>1. ASSUME DetectorsInv
      PROVE  NothingInherited
  <2>1. plugin = "peak_tracker" => \A tr \in tracks : tr.firstSeen > preprocessed
    BY <1>1 DEF DetectorsInv, TracksSound
  <2>2. plugin = "echoes_automatic" /\ state = "active" => crossed > preprocessed
    BY <1>1 DEF DetectorsInv, EventSound
  <2>3. plugin = "meteor_logger_3f" /\ state = "active" => object.start > preprocessed
    BY <1>1 DEF DetectorsInv, LoggerSound
  <2>4. plugin \in {"peak_tracker", "echoes_automatic", "meteor_logger_3f"}
    BY <1>1 DEF DetectorsInv, RecorderSound
  <2> QED
    BY <2>1, <2>2, <2>3, <2>4 DEF NothingInherited
<1>2. DetectorsInv => NothingInherited
  BY <1>1
<1> QED
  BY <1>2, DetectorsInvariant, PTL

\* The greedy assignment of peaks to tracks is one-to-one, in every frame and
\* with what earlier frames left: two tracks never rest on the same peak.
THEOREM PeaksAreNotShared == Spec => []OnePeakOneTrack
<1>1. DetectorsInv => OnePeakOneTrack
  BY DEF DetectorsInv, TracksSound, TracksKnown, OnePeakOneTrack, P!OnePeakOneTrack
<1> QED
  BY <1>1, DetectorsInvariant, PTL

\* updateAutoNotch() never learns a notch inside another one.
THEOREM NotchesStayApart == Spec => []NotchesApart
<1>1. DetectorsInv => NotchesApart
  BY DEF DetectorsInv, LoggerSound, NotchesApart
<1> QED
  BY <1>1, DetectorsInvariant, PTL

\* appendSequence() keeps each hit compatible with the one before it.
THEOREM SequencesCohere == Spec => []SequenceCoherent
<1>1. DetectorsInv => SequenceCoherent
  BY DEF DetectorsInv, LoggerSound, SequenceKnown, Coherent, SequenceCoherent, M!SequenceCoherent
<1> QED
  BY <1>1, DetectorsInvariant, PTL

\* When the tracker falls silent every active track has been lost.
LEMMA TrackerSilent ==
  ASSUME RecorderSound, TracksSound, plugin = "peak_tracker", now' \in Nat,
         FullStep(FALSE), state = "active", state' # "active"
  PROVE  P!Silent(now')
<1>1. P!Full(now', FALSE)
  BY DEF FullStep, Full
<1>2. heard = TimeMean /\ TimeMean \in Nat /\ TracksKnown(tracks, now) /\ now \in Nat
  BY DetectorsAssumption DEF TracksSound, RecorderSound, P!TrackerAssumption
<1>3. P!Ready
  BY <1>2 DEF P!Ready
<1>4. /\ \E c \in Candidates : \E m \in P!Assignments(tracks, P!Peaks(c), now') :
           tracks' = P!Updated(tracks, P!Peaks(c), m, now')
      /\ state' = IF \E tr \in tracks' : tr.active THEN "active" ELSE "idle"
  BY <1>1, <1>3 DEF P!Full
<1>5. PICK c \in Candidates : \E m \in P!Assignments(tracks, P!Peaks(c), now') :
           tracks' = P!Updated(tracks, P!Peaks(c), m, now')
  BY <1>4
<1>6. PICK m \in P!Assignments(tracks, P!Peaks(c), now') :
           tracks' = P!Updated(tracks, P!Peaks(c), m, now')
  BY <1>5
<1>7. \A x \in P!Updated(tracks, P!Peaks(c), m, now') : ~x.active
  BY <1>4, <1>6
<1> QED
  BY <1>2, <1>6, <1>7, SilentAfter DEF P!Silent

\* What a step of consume() shows of the plugin's answer.
LEMMA StepKeepsPromises ==
  ASSUME DetectorsInv, Next
  PROVE  /\ E!CrossingRemembered(now')
         /\ state = "active" /\ state' # "active" /\ preprocessed' = preprocessed =>
              CASE plugin = "peak_tracker" -> P!Silent(now')
                [] plugin = "echoes_automatic" -> E!Silent
                [] plugin = "meteor_logger_3f" -> M!Silent(now')
<1>1. RecorderSound /\ TracksSound /\ E!TypeOK /\ EventSound /\ LoggerSound
  BY DEF DetectorsInv
<1>2. /\ now' \in Nat /\ now' = now + Period /\ preprocessed \in Nat /\ preprocessed < now'
      /\ plugin' = plugin
      /\ (\E reset \in BOOLEAN : FullStep(reset)) \/ PreprocessStep
  BY <1>1, PluginSteps
<1>3. ASSUME NEW reset \in BOOLEAN, FullStep(reset), plugin = "echoes_automatic"
      PROVE  /\ E!CrossingRemembered(now')
             /\ state = "active" /\ state' # "active" => E!Silent
  BY <1>1, <1>2, <1>3, EventFull
<1>4. ASSUME NEW reset \in BOOLEAN, FullStep(reset), plugin = "meteor_logger_3f",
             state = "active", state' # "active"
      PROVE  M!Silent(now')
  BY <1>1, <1>2, <1>4, LoggerFull
<1>5. ASSUME NEW reset \in BOOLEAN, FullStep(reset), plugin = "peak_tracker",
             state = "active", state' # "active"
      PROVE  P!Silent(now')
  <2>1. FullStep(FALSE)
    BY <1>5 DEF FullStep
  <2> QED
    BY <1>1, <1>2, <1>5, <2>1, TrackerSilent
<1>6. E!CrossingRemembered(now')
  <2>1. CASE plugin # "echoes_automatic"
    <3>1. phase' = phase
      BY <1>2, <2>1 DEF FullStep, PreprocessStep, Full, PreprocessOnly, echoesVars
    <3> QED
      BY <3>1 DEF E!CrossingRemembered
  <2>2. CASE plugin = "echoes_automatic" /\ PreprocessStep
    <3>1. phase' = "idle"
      BY <2>2 DEF PreprocessStep, PreprocessOnly, E!Preprocess, E!Clear
    <3> QED
      BY <3>1 DEF E!CrossingRemembered
  <2> QED
    BY <1>2, <1>3, <2>1, <2>2
<1>7. ASSUME state = "active", state' # "active", preprocessed' = preprocessed
      PROVE  CASE plugin = "peak_tracker" -> P!Silent(now')
               [] plugin = "echoes_automatic" -> E!Silent
               [] plugin = "meteor_logger_3f" -> M!Silent(now')
  <2>1. preprocessed' # now'
    BY <1>2, <1>7
  <2>2. PICK reset \in BOOLEAN : FullStep(reset)
    BY <1>2, <2>1 DEF PreprocessStep
  <2>3. plugin \in {"peak_tracker", "echoes_automatic", "meteor_logger_3f"}
    BY <2>2 DEF FullStep, Full
  <2> QED
    BY <1>3, <1>4, <1>5, <1>7, <2>2, <2>3
<1> QED
  BY <1>6, <1>7

\* An event ends on silence: every active track lost, the level under the lower
\* threshold for the join time, or the object unseen for the release time.
THEOREM EventsEndOnSilence == Spec => EndsOnSilence
<1>1. ASSUME DetectorsInv, [Next]_vars
      PROVE  [ state = "active" /\ state' # "active" /\ preprocessed' = preprocessed =>
                 CASE plugin = "peak_tracker" -> P!Silent(now')
                   [] plugin = "echoes_automatic" -> E!Silent
                   [] plugin = "meteor_logger_3f" -> M!Silent(now') ]_vars
  BY <1>1, StepKeepsPromises
<1> QED
  BY <1>1, DetectorsInvariant, PTL DEF Spec, EndsOnSilence

\* The frame of the crossing is still among the remembered ones when the event
\* of echoes_automatic starts, whatever the delay and the frame period are.
THEOREM CrossingIsRemembered == Spec => CrossingRemembered
<1>1. ASSUME DetectorsInv, [Next]_vars
      PROVE  [E!CrossingRemembered(now')]_vars
  BY <1>1, StepKeepsPromises
<1> QED
  BY <1>1, DetectorsInvariant, PTL DEF Spec, CrossingRemembered
=============================================================================
