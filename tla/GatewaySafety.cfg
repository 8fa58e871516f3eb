SPECIFICATION Spec
CONSTANTS
  c1 = c1
  c2 = c2
  Clients = {c1, c2}
  ClientIPs = {ip1, ip2}
  Registered = {c1}
  Flows <- MCFlows
  Loads <- MCLoads
  Tapped = {"forward_prenat", "forward_postnat", "host_socket"}
  Windows <- MCWindows
  Day = 2
  MaxTransfers = 2
INVARIANTS
  TypeOK
  DevicesKeepTheirBytes
  OutboundIsMeasuredOnce
CHECK_DEADLOCK FALSE
