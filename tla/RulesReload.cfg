SPECIFICATION Spec
CONSTANTS
  phone = phone
  tablet = tablet
  public = public
  container = container
  Clients = {phone, tablet}
  Names = {"a.b", "a-b", "client"}
  Sanitized <- MCSanitized
  Others = {public, container}
  Device <- MCDevice
  Plans <- MCPlans
  MaxLoads = 2
  MaxPackets = 2
INVARIANTS
  LoadingIsIdempotent
