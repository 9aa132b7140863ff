SPECIFICATION ViewSpec
CONSTANTS
  Edits = 2
  Links <- AnyLink
  Reorders <- Dragged
  Watched <- Toggled
  MaxBreaks = 1
  MaxReloads = 0
  MaxHides = 0
INVARIANT OfflineEditsShown
CHECK_DEADLOCK FALSE
