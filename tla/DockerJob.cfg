SPECIFICATION Spec
CONSTANTS
  None = None
  BackoffLimit = 1
  Deadline = None
  TTL = None
  RestartPolicy = "Never"
  MaxAge = 2
  MaxFaults = 1
  MaxEdits = 3
  MaxOutside = 1
  MaxCrashes = 1
  MaxStale = 1
  MaxRestarts = 0
INVARIANTS TypeOK NoContainerOutlivesJob
PROPERTIES TerminalSticky SucceedsOnce
CHECK_DEADLOCK FALSE
