SPECIFICATION Spec
CONSTANTS
  Flows <- MCFlows
  MaxBytes = 3
  MaxFaults = 1
INVARIANTS
  TypeOK
  SteadyFlowsAreComplete
PROPERTY ImplementsLedger
CHECK_DEADLOCK FALSE
