SPECIFICATION Spec
CONSTANTS
  LandsAnywhere = FALSE
  MaxVersion = 2
  Strategies = {"SelfReplace"}
  OverlappingChecks = TRUE
  MaxChecks = 2
INVARIANT OneJobAtATime
