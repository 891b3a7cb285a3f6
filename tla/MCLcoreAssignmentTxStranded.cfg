CONSTANTS
  NumVcpu <- MCNumVcpu
  Configs <- MCConfigs
  MaxThreads = 3
  RxQueueCounts = {3}
SPECIFICATION Spec
INVARIANT TxDistinctRefusedOnlyIfShort
CHECK_DEADLOCK FALSE
