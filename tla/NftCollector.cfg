SPECIFICATION FairSpec
CONSTANTS
  Packets <- MCPackets
  PacketSizes = {1}
  MaxBytes = 3
  MaxFaults = 3
INVARIANTS
  TypeOK
  NoOvercount
  TablesAgree
  NothingLost
  TotalsAreStored
  IdleIsReported
PROPERTIES
  DroppedDeltasAreReported
  ImplementsLedger
  Recovers
  TableLossNoticed
CHECK_DEADLOCK FALSE
