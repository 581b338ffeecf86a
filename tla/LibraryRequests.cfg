SPECIFICATION LiveSpec
CONSTANTS
  Paths = {a, b}
  NoPath = NoPath
  MaxOpens = 2
  BatchSizes = {2}
  MaxAdds = 2
INVARIANT
  WholeBatchApplied
PROPERTIES
  NewestOpenLands
  NewestBatchLands
CHECK_DEADLOCK FALSE
