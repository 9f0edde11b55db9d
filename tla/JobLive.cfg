SPECIFICATION Spec
CONSTANTS
  None = None
  BackoffLimit = 1
  Deadline = 1
  TTL = 1
  RestartPolicy = "Never"
  MaxAge = 2
  MaxFaults = 1
  MaxEdits = 3
  MaxOutside = 0
  MaxCrashes = 1
  MaxStale = 1
  MaxRestarts = 0
INVARIANTS FinishedIsStopped
PROPERTIES JobFinishes TtlCleansUp
CHECK_DEADLOCK FALSE
