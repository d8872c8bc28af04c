SPECIFICATION Spec
CONSTANTS
  Clients = {k1, k2}
  Conns = {c1, c2}
  Remotes = {r1}
  Ports = {1}
  Tasks = {t1, t2}
  MaxFails = 1
SYMMETRY ForwardSymmetry
INVARIANTS
  RuleObeyed
  NoOrphan
