SPECIFICATION Spec
CONSTANTS
  PageCount = 2
  FailingPages = {}
  FlakyPages = {0, 1}
  MaxSources = 1
  MaxEpoch = 3
  MaxJobs = 2
  MaxPosted = 3
INVARIANT LoadingHasResult
