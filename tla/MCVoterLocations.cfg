SPECIFICATION Spec
CONSTANTS
  Providers = {"census", "nominatim"}
  Manual = {"manual"}
  Confidence <- MCConfidence
  Overrides = {"here", "there"}
  Initials <- NoneOrAll
  Requests <- Everyone
  Txs = {t1, t2, t3}
  MaxActive = 3
SYMMETRY Symmetry
CHECK_DEADLOCK FALSE
INVARIANTS OnePrimary OfficialIsBest OverrideSticks SourceNamesPoint NoLockCycle
