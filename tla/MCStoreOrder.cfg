SPECIFICATION SpecByAge
CONSTANTS
  Nil = Nil
  PositionGap = 2
  MinPositionGap = 1
  Radix = 2
  ItemId = {1, 2, 3}
  ListId = {L1}
  Name = {a, b, c}
  ListName = {g}
  Depth = 2
  Height = 6
  MaxTime = 3
  Patch <- Edited
  Positions <- Window
  Times <- Clock
SYMMETRY NameSymmetry
INVARIANT UpdateNeverInternal ReorderLandsWhereDropped NewItemLast DropIsServed DropIsShown
PROPERTY SectionOrderKept
CHECK_DEADLOCK FALSE
