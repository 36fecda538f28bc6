SPECIFICATION Spec
CONSTANTS
  Owners = {s1, s2, c1}
  Cli = {c1}
  Verified = FALSE
  MaxCrashes = 1
  MaxLosses = 0
CHECK_DEADLOCK FALSE
INVARIANTS IndexesHaveRebuilder
