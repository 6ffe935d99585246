CONSTANTS
  a = a
  b = b
  NoItem = NoItem
  Item <- MCItem
  Capacity = 2
  MaxPush = 5
SPECIFICATION SPSCFairSpec
INVARIANT NoCellRace
PROPERTIES IsBoundedFIFO PublishedIsDelivered
