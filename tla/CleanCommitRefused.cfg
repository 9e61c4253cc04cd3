\* A caller that does everything as documented.
CONSTANTS
  Files = {"src"}
  Kind <- MCKind
  MaxFiles = 2
  Scenarios <- MCPlain
SPECIFICATION Spec
INVARIANT
  CleanCommitMayBePushed
CHECK_DEADLOCK FALSE
