CONSTANTS
  HalfWidth = 3
  Capacity = 2
  TargetFrames = 1
  MaxSent = 8
  MaxFlight = 2
  MaxDups = 1
  MaxLag = 0
SPECIFICATION JitterFairSpec
INVARIANTS
  NothingStale
  BufferAccounted
PROPERTIES
  PlaysInOrder
  EverySlotDrains
CHECK_DEADLOCK FALSE
