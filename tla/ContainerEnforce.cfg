SPECIFICATION Spec
CONSTANTS
  None = None
  Kilo = 4
  Giga = 100
  Significand = 9
  HalfRange = 32768
  ImageCmd <- MCImageCmd
  ImageEnv <- MCImageEnv
  Specs <- MCSecretSpecs
  Vault <- MCVault
  Found <- MCFound
  Modes = {"Enforce"}
  OwnedByDeployment = FALSE
  TunnelNames = {"t1"}
  MaxFaults = 1
  MaxEdits = 3
  MaxOutside = 2
  MaxCrashes = 1
INVARIANTS NoOrphan SecretsUnlessInterrupted
CHECK_DEADLOCK FALSE
