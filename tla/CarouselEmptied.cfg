SPECIFICATION Spec
CONSTANTS
  Books = {1, 2}
  EmptyBooks = {1}
  Queries <- MCQueries
  MaxMoves = 1
INVARIANT ActiveFilterPreserved
CHECK_DEADLOCK FALSE
