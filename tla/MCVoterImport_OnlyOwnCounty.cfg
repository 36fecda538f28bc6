SPECIFICATION Spec
CONSTANTS
  x = x
  y = y
  i1 = i1
  i2 = i2
  Voters = {v1, v2}
  Counties = {x, y}
  Imports = {i1, i2}
  CountyOf <- TwoCounties
  Cli = {i2}
  Capped = {i2}
  ChunkSize = 2
  MaxRunning = 2
  MaxFaults = 0
  MaxCrashes = 0
  MaxLosses = 0
CHECK_DEADLOCK FALSE
PROPERTIES OnlyOwnCounty
