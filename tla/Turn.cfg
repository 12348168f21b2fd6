SPECIFICATION Spec
CONSTANTS
  Limit = 1
  BatchMax = 2
  KeepTail = 2
  Stall = 3
  Confirm = 2
  Envs <- MCEnvs
CHECK_DEADLOCK FALSE
INVARIANTS ResultsHaveTheirCall InjectInItsTurn OwnChildrenAreListed
PROPERTIES CancelSticks HealthyNotKilled TurnEnds
