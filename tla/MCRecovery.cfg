SPECIFICATION RecoverySpec
CONSTANTS
  Owners = {o1, o2, o3}
  Cli = {o3}
  Verified = TRUE
  MaxCrashes = 2
  MaxLosses = 1
  ta = ta
  tb = tb
  tc = tc
  td = td
  el1 = el1
  el2 = el2
  rq1 = rq1
  ur1 = ur1
CHECK_DEADLOCK FALSE
INVARIANTS
  IndexesHaveRebuilder
  AutovacuumHasEnabler
PROPERTIES
  TableRecovers
  NoStarvation
  Converges
  CatchesUp
