SPECIFICATION Spec
CONSTANTS
  run1 = run1
  run2 = run2
  call1 = call1
  call2 = call2
  Runs = {run1, run2}
  Callers = {call1, call2}
  Operations = {"stop", "start"}
  Providers = {"local"}
  NoRun = NoRun
  MaxCrashes = 0
  MaxFaults = 0
INVARIANTS
  OneRunPerAgent
CHECK_DEADLOCK FALSE
