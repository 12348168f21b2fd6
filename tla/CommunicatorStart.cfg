\* The user may type while an Executor is starting after one crash.
CONSTANTS
  Prompt = {p1, p2}
  None = None
  PerTurnMax = 1
  IdleMax = 1
  MaxEpoch = 4
  MaxCalls = 1
  MaxExits = 1
  MaxInputs = 3
  MaxEvents = 3
  MaxHalts = 0
  MaxCancels = 0
  Faults = {"start_submit"}
SPECIFICATION Spec
INVARIANT NoPromptLost
CHECK_DEADLOCK FALSE
