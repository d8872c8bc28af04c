SPECIFICATION MCSpec
CONSTANTS
  Clients = {c1, c2}
  Remotes = {r1}
  Locals = {l1, l2}
  OtherLocals = {l2}
  Cap = 1
  MaxCmds = 3
  MaxIn = 3
INVARIANTS
  RulesAgree
  RuleHonoured
PROPERTIES
  InboundAnswered
  CommandReturns
CHECK_DEADLOCK FALSE
