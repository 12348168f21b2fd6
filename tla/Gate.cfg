\* Two tools and a model call at once, a plug that takes its time; every command
\* line of up to four words and marks; every prompt file of up to six lines (its
\* words are built-ins, which are text where they are not alone), with any outcome of
\* its turns; a debug console that fails or lags; self tests of up to three
\* categories under a small budget.
CONSTANTS
  Effect = {t1, t2, m}
  Tool = {t1, t2}
  Async = TRUE
  MaxResolves = 2
  MaxHalts = 2
  Denylist = {"deny"}
  Wrappers = {"wrap"}
  Approved = {"ok", "net"}
  Network = {"net"}
  MaxLength = 4
  BufferMax = 2
  MaxLogged = 6
  MaxFence = 9
  MaxLines = 6
  Words = {"separator", "blank", "/exit", "/halt"}
  Limit = 2
  MaxCost = 2
  MaxModels = 2
SPECIFICATION MCSpec
INVARIANTS SingleDispatch DeniedNeverStarts HaltReportsAll NoLostWaiter GuardsDecide
INVARIANTS ExitCodeTells LossIsReported SelftestTells
PROPERTIES HaltReleases Implements
CHECK_DEADLOCK FALSE
