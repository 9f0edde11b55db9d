SPECIFICATION Spec
CONSTANTS
  None = None
  c1 = c1
  c2 = c2
  h1 = h1
  h2 = h2
  Containers <- MCContainers
  Hosts <- MCHosts
  HostOf <- MCHostOf
  Addrs = {1, 2}
  Start <- MCStart
  Specs <- MCSpecs
  Removable = {"cm"}
  MaxUid = 2
  MaxUpgrades = 1
  MaxTrouble = 2
  Troubles = {"fault", "crash", "stale", "outside", "move", "edit", "delete"}
  MaxInFlight = 0
INVARIANTS TypeOK TokensAgree NoClientLeaks
PROPERTIES ServiceSettles QuietAtLast
CHECK_DEADLOCK FALSE
