\* Two runs in one document: the locked read-change-rename is atomic, and it ends
\* although writers crash, fail and never stop asking for the flock.
CONSTANTS
  Writers = {w1, w2}
  Runs = {r1, r2}
  Requests <- MCTwoKinds
  NoRow = NoRow
  NoFile = NoFile
  Free = Free
  MCCompleted = {r1}
  HistoryCap = 2
  TimelineCap = 3
SPECIFICATION FairSpec
PROPERTIES
  ImplementsAtomic
  EveryWriteEnds
