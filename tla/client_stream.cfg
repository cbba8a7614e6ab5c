SPECIFICATION FairSpec
CONSTANTS
  one = one
  two = two
  Workspaces = {one, two}
  None = None
  Modes = {"relay", "direct"}
  MaxVersion = 2
  MaxTrouble = 1
  MaxTasks = 1
INVARIANTS
  TypeOK
  DirectRunIsOfSelected
PROPERTIES
  NoSessionGoesBack
  SessionsConverge
CHECK_DEADLOCK FALSE
