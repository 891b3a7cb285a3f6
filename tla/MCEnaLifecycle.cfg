CONSTANTS
  MaxQueues = 2
  Checks = 2
SPECIFICATION Spec
INVARIANTS
  TypeOK
  BackedWhileStarted
  RulesOnlyWhileStarted
  FaultsHaveKnownCause
  EverythingGivenBack
PROPERTY Exits
CHECK_DEADLOCK FALSE
