SPECIFICATION Spec
CONSTANTS
  None = None
  n1 = n1
  n2 = n2
  n3 = n3
  n4 = n4
  Names <- MCThree
  Replicas = {1}
  TemplateMode = ""
  MaxUid = 1
  MaxTime = 0
  MaxEdits = 0
  MaxKidEdits = 0
  MaxFaults = 0
  MaxStale = 0
PROPERTIES ReplicasRun
CHECK_DEADLOCK FALSE
