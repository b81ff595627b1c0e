CONSTANTS
  Period = 2
  MaxEvent = 8
  Rearm = 3
  PostFrames = 1
  MaxTime = 26
  Candidates <- MCCandidates
  TimeMean = 2
  MinSeparation = 2
  MaxPeaks = 2
  StationaryBand = {1, 2, 3}
  ChirpBand = {1, 2, 3, 4, 5, 6}
  StationaryMaxDf = 1
  ChirpMaxDf = 2
  StationaryLost = 4
  ChirpLost = 2
  StationaryActivation = 4
  ChirpActivation = 4
  StationaryFraction <- MCHalf
  ChirpFraction <- MCHalf
  StationaryMaxDrift = 0
  ChirpMinDrift = 1
  ChirpMaxDrift = 2
  MinClassAge = 1
  Levels = {0, 1, 2, 3}
  FixedLower = 1
  FixedUpper = 2
  LowerOffset = 1
  UpperDelta = 1
  Warmup = 1
  Delay = 3
  Join = 3
  PreContext = 3
  DetectionBins = {1, 2, 3, 4, 5, 6, 7, 8}
  ClusterWidth = 3
  SequenceFrames = 3
  AllowedGaps = 1
  MaxDrift = 1
  Release = 3
  NotchAfter = 4
  NotchWidth = 2
  MaxNotches = 2
SPECIFICATION Spec
INVARIANTS
  NothingInherited
  OnePeakOneTrack
  NotchesApart
  SequenceCoherent
PROPERTIES
  EndsOnSilence
  CrossingRemembered
CHECK_DEADLOCK FALSE
