SPECIFICATION Spec
CONSTANTS
  TaskType = "countdown"
  FaultDrill = TRUE
  NumTurns = 2
  MaxAttempts = 2
  MaxRuns = 4
  MaxDeliver = 3
  Participants <- TwoAgents
  lead = lead
  reviewer = reviewer
  stop1 = stop1
  stop2 = stop2
  int1 = int1
  int2 = int2
  Coordinator = coordinator
  Stoppers = {}
  Interrupters = {int1}
  StopTries = 2
  InterruptTries = 2
  MaxCrashes = 1
  MaxFaults = 1
  MaxExpiries = 0
INVARIANTS
  WorkIsPending
PROPERTIES
  LedgerSpec
CHECK_DEADLOCK FALSE
