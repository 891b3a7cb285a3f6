CONSTANTS
  Threads = {t1, t2}
  Calls = 2
  Pieces = 2
  Severities = {0, 5}
  Levels = {0, 3, 5, 6}
  BuildSeverity = 5
  NS = 2
  Now = {1, 8}
  Seconds = 16
  TagSeconds = 3
SPECIFICATION Spec
INVARIANTS
  LockedMessagesWhole
  StampsAreExact
  HeadersTellSeverity
PROPERTY EveryCallReturns
CHECK_DEADLOCK FALSE
