SPECIFICATION PipelineSpec
CONSTANTS
  None = None
  c1 = c1
  c2 = c2
  h1 = h1
  h2 = h2
  Containers <- MCContainers
  Hosts <- MCHosts
  HostOf <- MCHostOf
  Addrs = {1, 2}
  Start <- MCStart
  Specs <- MCSpecs
  Removable = {}
  MaxUid = 1
  MaxUpgrades = 0
  Troubles = {"move", "crash", "stale", "fault", "delete"}
  MaxTrouble = 2
  MaxInFlight = 2
  Window = 1
PROPERTIES FeedImplemented TargetsArrive
CHECK_DEADLOCK FALSE
