CONSTANTS
  Files = {"src", "doc", "new", "lock"}
  Kind <- MCKind
  Commands = {"pytest", "lint", "deploy", "outside", "push"}
  Traits <- MCTraits
  Tokens = {"a", "b", "c", "d", "t", "e", "no file"}
  Text <- MCText
  ApplyRequests <- MCApply
  Patches <- MCPatches
  ValidationRequests <- MCValidate
  Edits = {"e"}
  MaxText = 3
  CommandLimit = 2
  MaxApplies = 2
  MaxValidations = 1
  MaxEdits = 1
  MaxFaults = 1
SPECIFICATION Spec
INVARIANTS
  TypeOK
  FilesStayInSize
  RefusedFileStopsCommit
  FailureStopsCommit
  NothingIsPassedOver
PROPERTIES
  WrittenIsReported
CHECK_DEADLOCK FALSE
