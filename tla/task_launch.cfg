SPECIFICATION FairSpec
CONSTANTS
  first = first
  second = second
  Runs = {first, second, 1, 2, 3, 4}
  Requests = {first, second}
  Outputs <- AllOutputs
  MaxAttempts = 2
  MaxTrouble = 1
  NoRun = NoRun
INVARIANTS
  TypeOK
  AcceptedWorkSurvives
  UnwantedWorkStaysOut
  AnswersAreTrue
  
PROPERTIES
  TasksAreSettled
CHECK_DEADLOCK FALSE
