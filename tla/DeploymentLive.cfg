SPECIFICATION Spec
CONSTANTS
  None = None
  n1 = n1
  n2 = n2
  n3 = n3
  n4 = n4
  Names <- MCThree
  Replicas <- MCLiveReplicas
  TemplateMode = "Enforce"
  MaxUid = 1
  MaxTime = 0
  MaxEdits = 1
  MaxKidEdits = 1
  MaxFaults = 0
  MaxStale = 1
PROPERTIES Converges AvailableSettles
CHECK_DEADLOCK FALSE
