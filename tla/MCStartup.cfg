SPECIFICATION FairSpec
CONSTANTS
  MaxModules = 16
  Passes = 1
INVARIANTS
  ThreadsFindAllInitialised
  RunningIsComplete
  FailedBootIsQuiet
PROPERTIES
  BootEnds
CHECK_DEADLOCK FALSE
