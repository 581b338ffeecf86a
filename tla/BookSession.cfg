SPECIFICATION AuditSpec
CONSTANTS
  Books = {b1, b2}
  NoBook = NoBook
  PageCounts = {0, 3}
  Untracked = Untracked
INVARIANTS
  TypeOK
  SnapshotBelongsToSession
  GlobalIsWhatWasAsked
  OwnViewSurvives
PROPERTIES
  ReopenRestores
SYMMETRY Symmetry
