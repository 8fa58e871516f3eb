SPECIFICATION ReadinessSpec
CONSTANTS
  eth0 = eth0
  eth1 = eth1
  wlp1 = wlp1
  ra0 = ra0
  NoInterface = NoInterface
  Interfaces = {eth0, eth1, wlp1, ra0}
  WirelessNames = {wlp1}
  WifiNames = {}
  RadioNames = {wlp1, ra0}
  NoPrefix = NoPrefix
  Default = Default
  HostStates <- MCHosts
  Sizes = {1, 2, 4, 16}
  Configs <- MCConfigs
  MaxEvents = 2
INVARIANTS
  ReadinessTypeOK
  ReadyIsGrounded
  RefusalHasAReason
  CandidatesAreUsable
