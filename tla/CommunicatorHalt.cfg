\* One prompt, one halt and one crash of an Executor that is up.
CONSTANTS
  Prompt = {p1}
  None = None
  PerTurnMax = 1
  IdleMax = 1
  MaxEpoch = 3
  MaxCalls = 1
  MaxExits = 1
  MaxInputs = 2
  MaxEvents = 3
  MaxHalts = 1
  MaxCancels = 0
  Faults = {}
SPECIFICATION FairSpec
PROPERTY HaltTakesEffect
CHECK_DEADLOCK FALSE
