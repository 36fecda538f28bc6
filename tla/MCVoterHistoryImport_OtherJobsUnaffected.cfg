SPECIFICATION Spec
CONSTANTS
  i1 = i1
  i2 = i2
  i3 = i3
  Keys = {k1, k2}
  Imports = {i1, i2, i3}
  FileOf <- TwoFiles
  Cli = {i2}
  ChunkSize = 1
  CommitEvery = 2
  MaxRunning = 2
  MaxFaults = 0
  MaxCrashes = 0
  MaxLosses = 0
SYMMETRY Symmetry
CHECK_DEADLOCK FALSE
PROPERTIES OtherJobsUnaffected
