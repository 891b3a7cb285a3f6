CONSTANTS
  MaxQueues = 2
  MaxList = 3
  Flows <- MCFlows
SPECIFICATION Spec
INVARIANTS
  VectorsMatchThreads
  CountsAreConsistent
  FlowsCoverRxThreads
  TxHasRoute
CHECK_DEADLOCK FALSE
