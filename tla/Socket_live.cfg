SPECIFICATION FairSpec
CONSTANTS
  DevWindow = 2
  HostWindow = 1
  MaxPayload = 1
  MaxWrite = 2
  MaxDevWrite = 2
  MaxChunk = 1
  MaxInFlight = 2
  MaxOthers = 1
  MayFail = FALSE
PROPERTIES
  WriterWoken
  Delivered
  EofReported
  OpenReturns
  ShutdownReturns
  CloseReachesDevice
INVARIANTS
  StreamsConserved
CHECK_DEADLOCK FALSE
