SPECIFICATION ServiceSpec
CONSTANTS
  Tuning <- MCTuning
  Default <- MCDefault
  Wheels = 2
  NoFile = NoFile
  Torn = Torn
  Unsaved = Unsaved
  Provider = {p1, p2, p3}
  Priority <- MCPriority
  Caller = {c1, c2}
  kMaxProviders = 2
  NoProvider = NoProvider
  MaxOrder = 4
INVARIANTS
  NoForeignIntegral
  SavedMeansSaved
PROPERTIES
  SavesWhatIsInForce
  RegisterSpec
  RegistrySpec
  CommandsAndRoundsEnd
