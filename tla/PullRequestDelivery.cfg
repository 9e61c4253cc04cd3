\* Pull requests, CI and repair proposals; a caller may always stop, so no deadlock check.
CONSTANTS
  Words <- MCWords
  Scenarios <- MCScenarios
SPECIFICATION Spec
INVARIANTS
  TypeOK
  OneOpenPullRequest
  PullRequestsRestOnPush
  OnlyOwnChecksAreRead
  PassedMeansConcluded
  ProposalsAnswerFailures
  GraveFailuresStopProposals
  AttemptsStayInBudget
CHECK_DEADLOCK FALSE
