SPECIFICATION Spec
CONSTANTS
  None = None
  a = a
  b = b
  c1 = c1
  c2 = c2
  s1 = s1
  s2 = s2
  s3 = s3
  watcher = watcher
  request = request
  Targets <- MCTargets
  Lists <- MCLists
  Conns = {c1, c2}
  Sessions <- MCSessions
  Loaders <- MCLoaders
  Watcher = watcher
  TokenAccepted = TRUE
  Window = 2
  MaxEvents = 2
INVARIANTS TypeOK PushHolds RegistryExact SpreadEven
PROPERTIES ClientReconnects NoConnStuck
CHECK_DEADLOCK FALSE
