SPECIFICATION CacheLiveSpec
CONSTANTS
  SourceLength = 3
  Capacity = 2
  MaxBytes = 3
  Radius = 1
  Sizes = {1, 2, 4}
  Workers = {w1}
  Tasks = {t1, t2}
INVARIANTS
  BudgetsHold
  InFlightExact
PROPERTIES
  InsertedPageSurvives
  MarkersAreCleared
