SPECIFICATION Spec
CONSTANTS
  MaxSlots = 2
  Class = {1, 2}
  Large = {big}
  LargeSize = 3
  LargeTraced = TRUE
  MaxRefs = 1
  MinThreshold = 3
INVARIANT NoDangling
