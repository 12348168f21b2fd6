\* Two prompts, no crash: the model call may fail after its retries.
CONSTANTS
  Prompt = {p1, p2}
  None = None
  PerTurnMax = 1
  IdleMax = 1
  MaxEpoch = 4
  MaxCalls = 1
  MaxExits = 0
  MaxInputs = 2
  MaxEvents = 2
  MaxHalts = 0
  MaxCancels = 0
  Faults = {"provider_error"}
SPECIFICATION FairSpec
PROPERTY QueuedLineIsSent
CHECK_DEADLOCK FALSE
