SPECIFICATION FairSpec
CONSTANTS
  Newest = 2
  NoRelease = NoRelease
  MaxJobs = 2
  MaxCrashes = 2
INVARIANTS
  VerdictIsTrue
PROPERTIES
  FinishedIsFinal
  RollbackSticks
  JobsEnd
