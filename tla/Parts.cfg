SPECIFICATION Spec
CONSTANTS
  MaxEvents = 2
  MaxOrders = 1
  DisplayMax = 1
  UnmatchedMax = 1
  Texts = {t1, t2}
  TopK = 2
  MaxTasks = 3
  MaxWrites = 1
  MaxOpens = 3
  ReviewEveryCalls = 2
  StreakLength = 2
  SameEdits = 2
  MaxReviewEvents = 6
  KeepTail = 3
  MaxResponses = 2
  MaxBatch = 1
  MaxLogPrompts = 2
  MaxDetours = 2
  MaxCrashes = 1
  MaxContents = 4
  MaxOutside = 2
  MaxEdits = 2
  RetryMax = 2
  Fragments = 2
  MaxBlocks = 2
CHECK_DEADLOCK FALSE
INVARIANTS AckedMeansStored MapIsTheFold ResumedPairs OneAnswer
PROPERTIES LaneDiscipline NoAckMissed WaitEnds TriggerIsReviewed NothingChangedIsReplaced
