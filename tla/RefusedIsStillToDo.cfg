CONSTANTS
  N = 2
  MaxSteps = 2
  MaxPolls = 0
  NoRow = NoRow
  NoCheckpoint = NoCheckpoint
  HistoryCap = 0
  TimelineCap = 1
  MaxAttempts = 1
  MaxCommands = 1
  MaxCrashes = 0
  MaxFaults = 0
SPECIFICATION Spec
INVARIANT RefusedIsStillToDo
CHECK_DEADLOCK FALSE
