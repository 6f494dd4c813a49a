SPECIFICATION RepeatSpec
CONSTANTS
  MaxModules = 16
  Passes = 2
INVARIANTS
  OneThreadEach
CHECK_DEADLOCK FALSE
