SPECIFICATION FairSessionSpec
CONSTANTS
  BufferSize = 4
  Mps = 2
  kRxQueueDepth = 1
  Length = {2, 3, 5}
  MaxSends = 3
  MaxPackets = 3
PROPERTIES
  HostSeesMessages
  BusyEnds
  ReceptionSpec
