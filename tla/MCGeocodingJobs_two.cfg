SPECIFICATION FairSpec
CONSTANTS
  Jobs = {j1, j2}
  Slots = 1
  MaxTotal = 1
  BatchSize = 1
  MaxCrashes = 1
  MaxErrors = 1
  MaxLosses = 1
CHECK_DEADLOCK FALSE
INVARIANTS NoPhantomJobs RunnerAgreesWithRow
PROPERTIES JobsTerminate
