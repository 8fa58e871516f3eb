SPECIFICATION Spec
CONSTANTS
  Hours = 2
  Days = 2
  Offset = 1
  FreeStart = 0
  FreeEnd = 2
  MaxBytes = 2
INVARIANTS
  TypeOK
  PromptHoursAreExact
  ReportsAgree
PROPERTY TotalsNeverShrink
CHECK_DEADLOCK FALSE
