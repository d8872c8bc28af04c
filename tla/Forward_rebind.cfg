SPECIFICATION FairSpec
CONSTANTS
  Clients = {k1}
  Conns = {c1, c2}
  Remotes = {r1}
  Ports = {1}
  Tasks = {t1, t2}
  MaxFails = 0
PROPERTIES
  ForwardListens
