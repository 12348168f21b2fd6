\* Crashes of an Executor that is up; no other fault.
CONSTANTS
  Prompt = {p1, p2}
  None = None
  PerTurnMax = 1
  IdleMax = 1
  MaxEpoch = 5
  MaxCalls = 1
  MaxExits = 2
  MaxInputs = 4
  MaxEvents = 4
  MaxHalts = 1
  MaxCancels = 1
  Faults = {}
SPECIFICATION FairSpec
INVARIANTS AtMostOneExecutor ClosedOnce NoGhostTurn NoPromptLost
PROPERTIES HaltStopsTools TurnEnds QueuedLineIsSent
CHECK_DEADLOCK FALSE
