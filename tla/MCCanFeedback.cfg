SPECIFICATION FairSpec
CONSTANTS
  Source <- MCSource
  Running = {"arm", "gantry"}
  RxDepth = 1
  QueueDepth = 2
  Budget = 2
  MaxFrames = 2
INVARIANTS
  RoutedToItsDecoder
PROPERTIES
  ComputesOnNewest
  LossySpec
  RoutedReportsAreSeen
