SPECIFICATION FairSpec
CONSTANTS
  RxDepth = 1
  QueueDepth = 2
  MaxBurst = 2
  MaxChunks = 3
  Wrap = 2
  MaxMessages = 1
INVARIANTS
  CountsTheSession
PROPERTIES
  QuietWhenOff
  LineSpec
  QueuesDrain
