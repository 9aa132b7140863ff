SPECIFICATION Spec
CONSTANTS
  Edits = 3
  Links <- AnyLink
  MaxBreaks = 2
  MaxReloads = 1
  MaxHides = 1
INVARIANT TypeOK ServedInOrder NothingStalls OfflineEnds
PROPERTY EveryEditEnds ImplementsOutbox
CHECK_DEADLOCK FALSE
