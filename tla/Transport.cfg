SPECIFICATION FairSpec
CONSTANTS
  Tasks = {t1}
  Cap = 1
INVARIANTS
  NoSleeper
PROPERTIES
  PollReturns
  ReaderStops
  ErrorHandled
CHECK_DEADLOCK FALSE
