CONSTANTS
  Width = 30
  Rounds = 2
SPECIFICATION Spec
INVARIANT TestsPass
CHECK_DEADLOCK FALSE
