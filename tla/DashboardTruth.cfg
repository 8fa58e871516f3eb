SPECIFICATION DashboardSpec
CONSTANTS
  Endpoints = {"collector", "hourly"}
  Watched = {"collector", "hourly"}
  Collector = "collector"
  Intervals = {1, 2}
  Fresh = 1
  Slow = 1
  MaxByHand = 1
INVARIANTS
  DashboardTypeOK
  AlertsCatchUp
  LiveIsBounded
PROPERTY
  StaleIsShown
