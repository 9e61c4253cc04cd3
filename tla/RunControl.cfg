\* Three actions, three attempts of at most two, one crash, two commands, two swallowed
\* failures.  The trails are left out of the row, which nothing here reads: caps 0 and 1.
CONSTANTS
  N = 3
  MaxSteps = 2
  MaxPolls = 1
  NoRow = NoRow
  NoCheckpoint = NoCheckpoint
  HistoryCap = 0
  TimelineCap = 1
  MaxAttempts = 3
  MaxCommands = 2
  MaxCrashes = 1
  MaxFaults = 2
SPECIFICATION Spec
INVARIANTS
  TypeOK
  PauseBites
  NothingLost
  NoNeedlessRepeat
  EndIsSettled
  CompletedMeansExecuted
PROPERTIES
  ImplementsCursor
CHECK_DEADLOCK FALSE
