SPECIFICATION Spec
CONSTANTS
  Edits = 1
  Links <- AnyLink
  MaxBreaks = 1
  MaxReloads = 1
  MaxHides = 0
INVARIANT QueuedSurvives
CHECK_DEADLOCK FALSE
