SPECIFICATION Spec
CONSTANTS
  Jobs = {j1}
  Slots = 1
  MaxTotal = 2
  BatchSize = 2
  MaxCrashes = 1
  MaxErrors = 0
  MaxLosses = 0
CHECK_DEADLOCK FALSE
PROPERTY
  TerminalIsFinal
