SPECIFICATION FairSpec
CONSTANTS
  w1 = w1
  w2 = w2
  Worker <- TwoWorkers
  MaxVersion = 3
  LatePutCap = 1
  FaultCap = 1
  ApiCrashCap = 1
  WorkerCrashCap = 1
INVARIANTS
  PublishedBytesKept
  LastPublishedIsCurrent
  DoneMeansErased
PROPERTIES
  BytesGone
CHECK_DEADLOCK FALSE
