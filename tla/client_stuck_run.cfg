SPECIFICATION Spec
CONSTANTS
  one = one
  two = two
  Workspaces = {one, two}
  None = None
  Modes = {"direct"}
  MaxVersion = 2
  MaxTrouble = 0
  MaxTasks = 1
INVARIANT RunEndIsShown
CHECK_DEADLOCK FALSE
