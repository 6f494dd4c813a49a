SPECIFICATION HistSpec
CONSTANTS
  Byte <- MCByte
  LF = "LF"
  Printable <- MCPrintable
  Head1 = "A9"
  Head2 = "53"
  HeadCu = "A5"
  DrLen = 2
  VtLen = 3
  CuLen = 4
  BinCap = 6
  LineCap = 3
  QueueDepth = 2
  ChunkMax = 2
  Input = {"on", "off"}
  DrDecode <- MCDrDecode
  VtDecode <- MCVtDecode
  CuDecode <- MCCuDecode
  LineDecode <- MCLineDecode
  NoInput = NoInput
  MaxBytes = 5
INVARIANTS
  AcceptedAreTheStreamsFrames
  FramesReadAsSent
PROPERTIES
  InputsArePublished
  SourceSpec
