SPECIFICATION Spec
CONSTANTS
  None = None
  Kilo = 4
  Giga = 100
  Significand = 9
  HalfRange = 32768
  ImageCmd <- MCImageCmd
  ImageEnv <- MCImageEnv
  Found <- MCFound
  Written <- MCWritten
  Secrets <- MCSecrets
  MaxWrites = 1
INVARIANTS CreateSettles AdoptThenEnforceKeeps
PROPERTY PortsSurviveAdoption
CHECK_DEADLOCK FALSE
