\* The proposal engine in mode blocked.
CONSTANTS
  Words <- MCWords
  Scenarios <- MCBlocked
SPECIFICATION Spec
INVARIANT
  BlockedGeneratesNothing
CHECK_DEADLOCK FALSE
