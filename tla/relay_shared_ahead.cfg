SPECIFICATION Spec
CONSTANTS
  TaskType = "checkpoint-workflow"
  FaultDrill = FALSE
  NumTurns = 2
  MaxAttempts = 2
  MaxRuns = 4
  MaxDeliver = 4
  Participants <- TwoAgents
  lead = lead
  reviewer = reviewer
  stop1 = stop1
  stop2 = stop2
  int1 = int1
  int2 = int2
  Coordinator = coordinator
  Stoppers = {}
  Interrupters = {}
  StopTries = 2
  InterruptTries = 2
  MaxCrashes = 1
  MaxFaults = 0
  MaxExpiries = 0
INVARIANTS
  SharedIsLastAccepted
CHECK_DEADLOCK FALSE
