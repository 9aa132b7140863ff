SPECIFICATION Spec
CONSTANTS
  Nil = Nil
  PositionGap = 2
  MinPositionGap = 1
  Radix = 10
  ItemId = {1, 2, 3}
  ListId = {L1}
  Name = {a, b, c}
  ListName = {g}
  Depth = 0
  Height = 6
  MaxTime = 3
  Patch <- Edited
  Positions <- Window
  Times <- Clock
SYMMETRY NameSymmetry
PROPERTY SlotOrderKept
CHECK_DEADLOCK FALSE
