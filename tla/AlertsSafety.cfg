SPECIFICATION Spec
CONSTANTS
  Devices = {phone}
  Rules <- MCRules
  FreeMinutes = {0}
  MaxLate = 1
  MaxClock = 2
  MaxBytes = 3
INVARIANTS
  TypeOK
  CountedOnce
  CrossedTiersAreAlerted
CHECK_DEADLOCK FALSE
