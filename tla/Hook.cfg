SPECIFICATION Spec
CONSTANTS
  d1 = d1
  d2 = d2
  r1 = r1
  Daemons <- TwoDaemons
  MaxCrashes = 1
  Requests <- OneRequest
  AgentWait = 2
  HookTimeouts = {1, 3}
INVARIANTS TypeOK Relayed NeverOrphaned
PROPERTIES HookReturns
CHECK_DEADLOCK FALSE
