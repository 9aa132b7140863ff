SPECIFICATION ViewSpec
CONSTANTS
  Edits = 2
  Links <- AnyLink
  Reorders <- Dragged
  Watched <- Toggled
  MaxBreaks = 1
  MaxReloads = 1
  MaxHides = 1
INVARIANT QuietShowsServed
PROPERTY Reconciles
CHECK_DEADLOCK FALSE
