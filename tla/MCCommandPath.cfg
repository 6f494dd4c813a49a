SPECIFICATION MCSpec
CONSTANTS
  Configs = {{"arm", "gantry"}, {"chassis"}, {"gimbal"}}
  OperatorInput <- AllInputs
  StopTicks = 2
  SetMax = 1
  NoInput = NoInput
INVARIANTS
  WristAndYExclude
  StoppedServosStay
PROPERTIES
  DisabledOutputsDoNotGrow
  DisableStopsWristAndY
  ReleaseStopsWheels
  DisableStopsServos
