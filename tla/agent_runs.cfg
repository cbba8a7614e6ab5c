SPECIFICATION Spec
CONSTANTS
  run1 = run1
  run2 = run2
  call1 = call1
  call2 = call2
  Runs = {run1, run2}
  Callers = {call1, call2}
  Operations = {"cancel", "stop", "start", "delete"}
  Providers = {"local", "container"}
  NoRun = NoRun
  MaxCrashes = 1
  MaxFaults = 1
SYMMETRY Symmetric
INVARIANTS
  TypeOK
  OneRunUnlessOvertaken
  ContainerKillReachesProcess
  CancelledRunHasEnded
  BusyAgentIsReleased
  NoStaleRequest
PROPERTIES
  RunEndIsFinal
  StoppedUntilStarted
CHECK_DEADLOCK FALSE
