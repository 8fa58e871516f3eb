SPECIFICATION Spec
CONSTANTS
  Hours = 2
  Days = 2
  Offset = 1
  FreeStart = 0
  FreeEnd = 2
  MaxBytes = 1
INVARIANT IspFollowsTransferTime
CHECK_DEADLOCK FALSE
