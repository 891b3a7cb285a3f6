CONSTANTS
  Lcores = {l1, l2}
  Configs <- MCConfigs
  l1 = l1
  l2 = l2
  RingSize = 2
  Burst = 2
  TsSize = 3
SPECIFICATION FairSpec
INVARIANTS
  TypeOK
  SentInOrder
  ClientSendsAll
  TimestampFaultsHaveKnownCause
PROPERTIES
  ImplementsOwnership
  SignalEndsIt
CHECK_DEADLOCK FALSE
