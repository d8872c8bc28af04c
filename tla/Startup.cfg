SPECIFICATION FairSpec
CONSTANTS
  Procs = {p1, p2, p3, p4}
  MaxAdb = 2
  MaxFails = 1
INVARIANTS
  Settled
  DaemonSpared
PROPERTIES
  StartEnds
CHECK_DEADLOCK FALSE
