CONSTANTS
  Books = {"a", "b"}
  Rewritten = {"a"}
  PageCount = 2
  CellStride = 2
  VISIBLE_MARGIN = 0
  INITIAL_VISIBLE_PAGES = 1
  FirstPixels = {0, 2}
  Widths = {0, 2, 3}
  MaxEntries = 0
  ReplaceOpenBooks = FALSE
  MaxStored = 1
  MaxVersion = 2
  MaxEpoch = 2
SPECIFICATION LiveSpec
INVARIANTS CellsShowTheirPage DecodedOnce
PROPERTY RequestedSettles
