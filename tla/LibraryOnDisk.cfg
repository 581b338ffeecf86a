SPECIFICATION Spec
CONSTANTS
  Paths = {a, b}
  NoPath = NoPath
  PageCounts = {1, 2}
  Unreadable = {corrupt, newer}
  Absent = Absent
  Torn = Torn
  NoTemp = NoTemp
  MaxFaults = 1
  QuarantineMayFail = FALSE
SYMMETRY Symmetry
INVARIANT BookmarkOnShelf
PROPERTIES
  SaveIsAtomic
  UnreadableKept
  OpenedResumeInBook
  LoadHeals
  RemovalUndone
CHECK_DEADLOCK FALSE
