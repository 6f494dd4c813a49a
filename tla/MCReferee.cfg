SPECIFICATION HistSpec
CONSTANTS
  Byte <- MCByte
  Sof = "S"
  MinLen = 3
  MaxFrame = 5
  DataLen <- MCDataLen
  Group = {"robot", "shoot"}
  Data <- MCData
  Zero = "0"
  Update <- MCUpdate
  QueueDepth = 2
  ChunkMax = 2
  MaxBytes = 8
INVARIANTS
  StateIsTheStreams
PROPERTIES
  SingleBytesOverwriteNothing
  ReportsArePublished
