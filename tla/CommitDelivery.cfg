\* Six ways the clone is used: with requirements waived, alone, by callers that name the
\* commit, one file at a time, by others at work, and with HEAD moved before, during and
\* after a commit.
CONSTANTS
  Files = {"src", "doc"}
  Kind <- MCKind
  MaxFiles = 2
  Scenarios <- MCScenarios
SPECIFICATION Spec
INVARIANTS
  TypeOK
  CommitsRestOnValidation
  NeverOnMain
  CommittedContentWasValidated
  RemoteHoldsOwnCommits
PROPERTIES
  MainIsNeverPushed
  FailureLeavesATrace
  PushReportsWhatItPushed
CHECK_DEADLOCK FALSE
