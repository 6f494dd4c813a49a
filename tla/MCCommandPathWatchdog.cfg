SPECIFICATION ModuleSpec
CONSTANTS
  Configs = {{"chassis"}}
  OperatorInput <- AllInputs
  StopTicks = 2
  SetMax = 1
  NoInput = NoInput
PROPERTIES
  TargetsReturnToZero
