SPECIFICATION Spec
CONSTANTS
  phone = phone
  laptop = laptop
  rPhone = rPhone
  rLaptop = rLaptop
  rNone = rNone
  facebook = facebook
  netflix = netflix
  Clients = {phone, laptop}
  Texts = {rPhone, rLaptop, rNone}
  Spelled <- MCSpelled
  NoClient = NoClient
  Addresses = {ip1, ip2}
  NoAddress = NoAddress
  Hostnames = {NoName, name}
  NoName = NoName
  Providers <- MCProviders
  Domains = {facebook, netflix}
  Destinations = {cdn}
  NoReply = NoReply
  Ports = {"53", "443"}
  Window = 1
  Limit = 1
  MaxClock = 2
  Budgets <- MCBudgets
INVARIANTS
  TypeOK
  SightingsAreTrue
  PassedByAtEdgesOnly
  EvidenceIsOwnUnlessHandedOver
PROPERTY
  HistoryFollowsMAC
CHECK_DEADLOCK FALSE
