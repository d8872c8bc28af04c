SPECIFICATION FairSpec
CONSTANTS
  DevWindow = 2
  HostWindow = 2
  TcpBuf = 1
  MaxClient = 3
  MaxDevice = 3
  MayFail = TRUE
INVARIANTS
  WholeOutput
  NoReset
  WholeInput
PROPERTIES
  SessionEnds
CHECK_DEADLOCK FALSE
