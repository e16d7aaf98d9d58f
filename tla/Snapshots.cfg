SPECIFICATION Spec
CONSTANTS
  r1 = r1
  Requests <- OneRequest
  RetentionDays = 2
  MaxDay = 3
  MaxSnapshots = 2
  Scenarios <- Singles
INVARIANTS
  TypeOK
  ContentIsForgotten
PROPERTIES
  SealedIsWhole
  NewestIsKept
CHECK_DEADLOCK FALSE
