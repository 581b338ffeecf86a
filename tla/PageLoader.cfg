SPECIFICATION LiveSpec
CONSTANTS
  PageCount = 3
  FailingPages = {1}
  FlakyPages = {2}
  MaxSources = 2
  MaxEpoch = 4
  MaxJobs = 2
  MaxPosted = 3
INVARIANTS
  TypeOK
  DisplayedIsCurrent
  LoadingHasResult
PROPERTIES
  LoadingResolves
