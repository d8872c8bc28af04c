SPECIFICATION Spec
CONSTANTS
  DevWindow = 2
  HostWindow = 2
  MaxPayload = 2
  MaxWrite = 1
  MaxDevWrite = 1
  MaxChunk = 1
  MaxInFlight = 3
  MaxOthers = 1
  MayFail = TRUE
INVARIANTS
  AllWaitersNotified
CHECK_DEADLOCK FALSE
