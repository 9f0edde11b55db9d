SPECIFICATION Spec
CONSTANTS
  None = None
  n1 = n1
  n2 = n2
  n3 = n3
  n4 = n4
  Names <- MCFour
  Replicas <- MCAnyReplicas
  TemplateMode = ""
  MaxUid = 2
  MaxTime = 1
  MaxEdits = 1
  MaxKidEdits = 0
  MaxFaults = 1
  MaxStale = 1
SYMMETRY NameSymmetry
INVARIANTS TypeOK OvershootBounded
PROPERTIES TakesOnlyItsOwn KeepsOldest
CHECK_DEADLOCK FALSE
