\* One tool and the guards of the local plug, which answer at once.
CONSTANTS
  Effect = {t1}
  Tool = {t1}
  Async = FALSE
  MaxResolves = 2
  MaxHalts = 2
SPECIFICATION Spec
INVARIANT PendingIsNotRunning
CHECK_DEADLOCK FALSE
