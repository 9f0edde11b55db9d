SPECIFICATION Spec
CONSTANTS
  None = None
  Kilo = 4
  Giga = 100
  Significand = 9
  HalfRange = 32768
  ImageCmd <- MCImageCmd
  ImageEnv <- MCImageEnv
  Specs <- MCSpecs
  Vault <- MCVault
  Found <- MCFound
  Modes = {"Observe", "Enforce"}
  OwnedByDeployment = FALSE
  TunnelNames = {}
  MaxFaults = 1
  MaxEdits = 3
  MaxOutside = 2
  MaxCrashes = 1
INVARIANTS TypeOK
PROPERTIES RemovesOnlyDrifted ObservedIsLeftAlone SettlesEventually
CHECK_DEADLOCK FALSE
