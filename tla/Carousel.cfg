SPECIFICATION Spec
CONSTANTS
  Books = {1, 2}
  EmptyBooks = {2}
  Queries <- MCQueries
  MaxMoves = 2
INVARIANTS
  CoverOnItsRow
  RowOpensItsBook
  BadgesMatchSelection
  ProjectionIsCurrent
PROPERTIES
  CoversSettle
CHECK_DEADLOCK FALSE
