CONSTANTS
  Taps = 3
  Decimation = 2
  Threads = 2
  MinSplit = 3
  MaxSamples = 34
  Taps2 = 2
  Decimation2 = 2
  Nfft = 4
  RingCapacity = 2
  Blocks = {1, 5, 8}
  MaxFrames = 5
SPECIFICATION FairSpec
INVARIANTS
  OutputsExact
  WorkerConfined
  WindowsExact
  FramesIntact
PROPERTIES
  BlocksEnd
CHECK_DEADLOCK FALSE
