SPECIFICATION FairSpec
CONSTANTS
  t1 = t1  t2 = t2
  NoItem = NoItem
  Item = {first, second}
  Thread = {t1, t2}
  Capacity = 2
  MaxPush = 4
INVARIANTS CellOwnedOnce IInv
PROPERTIES CellsTakeTurns ImplementsFIFO EverythingDelivered
