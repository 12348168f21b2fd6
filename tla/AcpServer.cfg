SPECIFICATION MCSpec
CONSTANTS
  MaxPrompts = 3
  MaxCancels = 2
  MaxCalls = 1
  MaxAsks = 1
  MaxExits = 1
  MaxOpens = 2
  QueueMax = 2
  MaxStored = 3
  MaxLines = 2
CHECK_DEADLOCK FALSE
INVARIANTS AnsweredOnce OwnAnswer PermissionNamesItsCall NoGhostTurn NothingLostSilently
PROPERTY CancelIsAnswered
