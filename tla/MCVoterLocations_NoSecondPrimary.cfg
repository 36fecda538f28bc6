SPECIFICATION Spec
CONSTANTS
  Providers = {"census", "nominatim"}
  Manual = {"manual"}
  Confidence <- MCConfidence
  Overrides = {"here", "there"}
  Initials <- NoneOrAll
  Requests <- Stores
  Txs = {t1, t2}
  MaxActive = 2
SYMMETRY Symmetry
CHECK_DEADLOCK FALSE
INVARIANTS NoSecondPrimary
