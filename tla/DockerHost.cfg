SPECIFICATION Spec
CONSTANTS
  None = None
  h1 = h1
  web = web
  webToo = webToo
  db = db
  o1 = o1
  o2 = o2
  Hosts = {h1}
  Names <- MCNames
  Objects = {o1, o2}
  Cfgs = {1, 2}
  ObjectName <- MCObjectName
  Start <- MCStart
  Drafts <- MCDrafts
  Troubles = {"fault", "crash", "stale", "outside", "rename", "edit", "hand", "host", "reach"}
  MaxTrouble = 2
INVARIANTS TypeOK ClaimedOnce
PROPERTIES EditsKept AdoptsAtLast WritersAgree
CHECK_DEADLOCK FALSE
