SPECIFICATION Spec
CONSTANTS
  Limit = 1
  BatchMax = 2
  KeepTail = 2
  Stall = 3
  Confirm = 2
  Envs <- CancelEnvs

PROPERTIES CancelEndsTurn
CHECK_DEADLOCK FALSE
