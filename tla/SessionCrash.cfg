\* A short session, one compaction.
SPECIFICATION LogSpec
CONSTANTS
  KeepTail = 2
  MaxResponses = 2
  MaxBatch = 1
  MaxLogPrompts = 2
  MaxDetours = 1
  MaxCrashes = 1
CHECK_DEADLOCK FALSE
INVARIANT CrashTailIsDropped
