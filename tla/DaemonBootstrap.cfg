SPECIFICATION BootstrapSpec
CONSTANTS
  Newest = 1
  NoRelease = NoRelease
  MaxJobs = 1
  MaxCrashes = 1
INVARIANTS
  CommittedWasHealthy
  NothingUnrecorded
  ReadyIsInstalled
  RemovedIsGone
CONSTRAINT Focus
