SPECIFICATION OneWaySpec
CONSTANTS
  PacketSize = 2
  HeaderLen = 1
  Lengths = {0, 1, 2, 3, 4}
  MaxIn = 3
  MaxOut = 4
  MayFail = TRUE
INVARIANTS
  FlushComplete
PROPERTIES
  InFramed
  Arrives
  OutFramed
CHECK_DEADLOCK FALSE
