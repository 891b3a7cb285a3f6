CONSTANTS
  NumVcpu <- MCNumVcpu
  Configs <- MCConfigs
  MaxThreads = 3
  RxQueueCounts = {2, 3}
SPECIFICATION Spec
INVARIANTS
  SharingIsMulti
  PinnedWhereAllowed
  QueueServedByItsLcore
  RxDistinctRefusedOnlyIfShort
  RxDoublesUpLast
  SuccessIsComplete
PROPERTY Terminates
CHECK_DEADLOCK FALSE
