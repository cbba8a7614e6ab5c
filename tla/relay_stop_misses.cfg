SPECIFICATION Spec
CONSTANTS
  TaskType = "checkpoint-workflow"
  FaultDrill = FALSE
  NumTurns = 1
  MaxAttempts = 2
  MaxRuns = 2
  MaxDeliver = 5
  Participants <- TwoAgents
  lead = lead
  reviewer = reviewer
  stop1 = stop1
  stop2 = stop2
  int1 = int1
  int2 = int2
  Coordinator = coordinator
  Stoppers = {stop1}
  Interrupters = {int1}
  StopTries = 2
  InterruptTries = 2
  MaxCrashes = 0
  MaxFaults = 0
  MaxExpiries = 0
INVARIANTS
  StopReachesRun
CHECK_DEADLOCK FALSE
