SPECIFICATION Spec
CONSTANTS
  LandsAnywhere = FALSE
  MaxVersion = 2
  Strategies = {"SelfReplace", "ManualInstall", "ExternalInstall"}
  OverlappingChecks = FALSE
  MaxChecks = 2
INVARIANTS
  KeyboardAlive
  InstalledIsWhole
  JobIsVisible
PROPERTIES
  SkippedStaysQuiet
  CommittedDialogResolves
