CONSTANTS
  Variables = {v}
  Texts <- MCTexts
  Later <- MCLater
  Width = 4
  Low = 0
  High = 3
  MinLength = 1
  MaxLength = 127
  Asserts = TRUE
SPECIFICATION Spec
INVARIANTS
  RepeatedReadsAgree
  ListsReadAsDocumented
  AcceptedListsRepair
PROPERTY FailedReadsCacheNothing
CHECK_DEADLOCK FALSE
