SPECIFICATION AnswersSpec
CONSTANTS
  Jobs = {j1}
  Slots = 1
  MaxTotal = 3
  BatchSize = 2
  MaxCrashes = 2
  MaxErrors = 1
  MaxLosses = 1
  Nil = Nil
  ea = ea
  eb = eb
  b1 = b1
  b2 = b2
  ca = ca
  cb = cb
  Providers = {ca, cb}
  Orders <- TwoOrders
  Enabled = {ca, cb}
  Single = ca
  Answers <- InOrOut
  Requests = {1, 2, 3, 4}
  KindOf <- OneOfEach
  PrimaryOf <- FirstOfTwo
  Household = 2
  Boundaries = {b1, b2}
  TypeOf <- TwoTypes
  PlaceOf <- TwoPlaces
  Combined = combined
  Commands = {ea, eb}
  MaxRuns = 2
  Voters = {ca, cb}
  Runs = {rd}
  Exported = {ea, eb}
  Cli = {eb}
  MaxWrites = 1
  MaxFaults = 1
  Elections = {ea, eb}
  DateOf <- OneDay
  DistrictOf <- OneKnown
  MaxEdits = 2
  Readers = {rd}
  MaxVersion = 2
  Feeds <- TwoFeeds
  UpperOf <- Upper
  NormalOf <- Normal
  Shapes = {b1, b2}
  Records <- SomeNames
CHECK_DEADLOCK FALSE
INVARIANTS
  AtMostOneLateBatch
  CheckpointBehindData
  CompletedIsExact
  PublishedHold
  AnswersHold
PROPERTY
  SettledIsFinal
