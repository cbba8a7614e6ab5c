SPECIFICATION Spec
CONSTANTS
  TaskType = "checkpoint-workflow"
  FaultDrill = FALSE
  NumTurns = 1
  MaxAttempts = 2
  MaxRuns = 2
  MaxDeliver = 3
  Participants <- TwoAgents
  lead = lead
  reviewer = reviewer
  stop1 = stop1
  stop2 = stop2
  int1 = int1
  int2 = int2
  Coordinator = coordinator
  Stoppers = {stop1}
  Interrupters = {}
  StopTries = 2
  InterruptTries = 2
  MaxCrashes = 1
  MaxFaults = 1
  MaxExpiries = 1
INVARIANTS
  AcceptedRunsEarned
  CopiesAreCurrent
PROPERTIES
  LedgerSpec
  EndIsFinal
CHECK_DEADLOCK FALSE
