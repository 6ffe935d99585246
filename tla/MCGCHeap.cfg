SPECIFICATION FairSpec
CONSTANTS
  MaxSlots = 3
  Class = {1, 2}
  Large = {big}
  LargeSize = 3
  LargeTraced = FALSE
  MaxRefs = 1
  MinThreshold = 3
INVARIANTS IInv NoDangling FreeListsExact LiveExact
PROPERTIES ImplementsHeap CollectionEnds
