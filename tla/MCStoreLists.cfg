SPECIFICATION Spec
CONSTANTS
  Nil = Nil
  PositionGap = 2
  MinPositionGap = 1
  Radix = 10
  ItemId = {1, 2, 3}
  ListId = {L1, L2}
  Name = {a, b}
  ListName = {g, h}
  Depth = 0
  Height = 4
  MaxTime = 3
  Patch <- Moves
  Positions <- Window
  Times <- Clock
SYMMETRY Symmetry
INVARIANT SchemaOK
PROPERTY ListIsolation
CHECK_DEADLOCK FALSE
