SPECIFICATION FairSpec
CONSTANTS
  TaskType = "checkpoint-workflow"
  FaultDrill = FALSE
  NumTurns = 2
  MaxAttempts = 2
  MaxRuns = 4
  MaxDeliver = 5
  Participants <- TwoAgents
  lead = lead
  reviewer = reviewer
  stop1 = stop1
  stop2 = stop2
  int1 = int1
  int2 = int2
  Coordinator = coordinator
  Stoppers = {}
  Interrupters = {}
  StopTries = 2
  InterruptTries = 2
  MaxCrashes = 1
  MaxFaults = 0
  MaxExpiries = 1
INVARIANTS
  TypeOK
  AcceptedInOrder
  AttemptBeforeRun
  NoOrderingViolation
  AcceptedWorkIsShared
PROPERTIES
  AcceptedTurnIsNotRerun
  Resolves
CHECK_DEADLOCK FALSE
