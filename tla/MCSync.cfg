SPECIFICATION Spec
CONSTANTS
  anna = anna
  ben = ben
  milk = milk
  eggs = eggs
  TheList = TheList
  Nil = Nil
  PositionGap = 8
  MinPositionGap = 1
  Clients <- Tabs
  Starts <- TheStart
  ItemId <- Ids
  Name <- Names
  ListId = {TheList}
  MaxEdits <- TwoAndOne
  MaxLosses = 1
INVARIANT TypeOK ShownAsStored OptimismMirrorsServer
PROPERTY ReplayHarmless RefusedForAReason Converge
CHECK_DEADLOCK FALSE
