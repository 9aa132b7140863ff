SPECIFICATION Spec
CONSTANTS
  a = a
  b = b
  c = c
  d = d
  e = e
  L = L
  Nil = Nil
  PositionGap = 2
  MinPositionGap = 1
  ItemId = {1, 2, 3, 4, 5, 6, 7}
  ListId = {L}
  Name = {a, b, c, d, e}
  Txn = {5, 6, 7}
  List = L
  Tables <- OldTables
  Epoch = 4
  Requests <- MCRequests
INVARIANT SomeoneGoesOn
PROPERTY EndsAsIfAlone LandsBetween
CHECK_DEADLOCK FALSE
