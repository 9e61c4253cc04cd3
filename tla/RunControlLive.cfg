\* The attempt ends whatever the operators, the gate and the faults do.
CONSTANTS
  N = 2
  MaxSteps = 2
  MaxPolls = 2
  NoRow = NoRow
  NoCheckpoint = NoCheckpoint
  HistoryCap = 0
  TimelineCap = 1
  MaxAttempts = 2
  MaxCommands = 2
  MaxCrashes = 1
  MaxFaults = 1
SPECIFICATION FairSpec
PROPERTIES
  AttemptEnds
CHECK_DEADLOCK FALSE
