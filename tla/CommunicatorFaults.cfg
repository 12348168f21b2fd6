\* Safety with every fault the environment has.
CONSTANTS
  Prompt = {p1, p2}
  None = None
  PerTurnMax = 1
  IdleMax = 1
  MaxEpoch = 4
  MaxInputs = 3
  MaxEvents = 4
  MaxCalls = 1
  MaxExits = 2
  MaxHalts = 1
  MaxCancels = 0
  Faults = {"provider_error", "append_fail", "start_exit", "start_timeout", "start_submit"}
SPECIFICATION Spec
SYMMETRY PromptSymmetry
INVARIANTS WriteAhead BoundedReplays
CHECK_DEADLOCK FALSE
