SPECIFICATION MCSpec
CONSTANTS
  Devices = {d1, d2}
  Recovery = {d1}
  MaxConns = 3
  MaxPlugs = 3
  MaxFails = 1
  Cap = 2
  Clients = {"track", "wait"}
INVARIANTS
  LiveListed
PROPERTIES
  Reconnects
  TrackerCurrent
  WaitReturns
