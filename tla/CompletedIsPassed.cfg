\* A failing check as GitHub's API has it: completed, with conclusion failure.
CONSTANTS
  Words <- MCWords
  Scenarios <- MCApi
SPECIFICATION Spec
INVARIANT
  FailingChecksFail
CHECK_DEADLOCK FALSE
