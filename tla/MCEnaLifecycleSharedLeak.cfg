CONSTANTS
  MaxQueues = 2
  Checks = 2
SPECIFICATION Spec
INVARIANT SharedPoolIsFreed
CHECK_DEADLOCK FALSE
