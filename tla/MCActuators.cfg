SPECIFICATION ActuatorsSpec
CONSTANTS
  Servos = {1, 2, 7}
  Noise <- MCNoise
  Window = 2
  Answering = 2
  MaxLosses = 2
  Joints <- MCJoints
  Delta <- MCDelta
  Speed <- MCSpeed
  Current <- MCCurrent
  None = None
INVARIANTS
  AxesFindTheirServos
  ToldIsMeant
  CurrentsAndReportsArrive
  GripHolds
PROPERTIES
  DiscoveryEnds
  MotorsFollow
CHECK_DEADLOCK FALSE
