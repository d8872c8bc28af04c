SPECIFICATION Spec
CONSTANTS
  DevWindow = 2
  HostWindow = 2
  MaxPayload = 2
  MaxWrite = 3
  MaxDevWrite = 3
  MaxChunk = 2
  MaxInFlight = 3
  MaxOthers = 1
  MayFail = TRUE
INVARIANTS
  NoOverrun
  TypeOK
  FlushMeansAcknowledged
  ReadWindow
  WindowRestored
  NoTruncation
  SocketsNotified
CHECK_DEADLOCK FALSE
PROPERTIES
  StreamImplemented
