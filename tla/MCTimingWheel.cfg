CONSTANTS
  NumWslots = 3
  BucketCap = 2
  Speeds = {4, 5}
  Unit = 2
  Packets = 3
  MaxTsc = 10
  Asserts = FALSE
SPECIFICATION Spec
INVARIANTS
  EveryPacketOnce
  ReleasedInTime
  LeaveInDueOrder
CHECK_DEADLOCK FALSE
