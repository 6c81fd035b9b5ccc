SPECIFICATION Spec
CONSTANTS
  MaxCommands = 4
  Connections = 2
  DirectOps <- Script
  Operators = {o1}
  RiskRequests = {"freeze_withdrawals", "freeze_account", "unfreeze"}
  NoTarget = NoTarget
INVARIANTS
  NoStrandedFreeze
  FreezeHolds
  UnfreezeClears
CHECK_DEADLOCK FALSE
