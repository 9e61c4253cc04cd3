\* One run: its audit trails, under crashes and failed writes.
CONSTANTS
  Writers = {w1, w2}
  Runs = {r1}
  Requests <- MCLives
  NoRow = NoRow
  NoFile = NoFile
  Free = Free
  MCCompleted = {}
  HistoryCap = 2
  TimelineCap = 3
SYMMETRY WriterSymmetry
SPECIFICATION Spec
INVARIANTS
  TypeOK
  AuditTrailsAgree
  SingleStart
