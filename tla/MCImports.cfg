SPECIFICATION ImportsSpec
CONSTANTS
  Nil = Nil
  i1 = i1
  i2 = i2
  i3 = i3
  Keys = {k1, k2}
  Imports = {i1, i2, i3}
  FileOf <- TwoFiles
  Cli = {i2}
  ChunkSize = 1
  CommitEvery = 2
  MaxRunning = 2
  MaxFaults = 1
  MaxCrashes = 1
  MaxLosses = 1
  Races = {"g"}
  Forms = {1, 2}
  People = {"p", "q"}
  Loads = {"j1", "j2"}
  Lines <- AllFilings
  Lists <- CandidateFiles
  MaxCorrections = 2
  Ids = {"1", "2"}
  Values = {"b", "c"}
  Directories <- FourStates
  SubBatch = 2
  MaxCommands = 2
  MaxRevisions = 2
  Existing <- Tables
  Known <- TwoKnown
  Listed <- OneListed
  Calendars <- TwoCalendars
  Jobs = {"j1", "j2"}
  Returns <- TwoReturns
  Contests <- FourContests
  Votes <- TwoVotes
  Voters <- TwoVoters
  PscCounties <- NoPsc
  Polls = {"e1", "r1", "r2"}
  Runs = {"k1", "k2"}
  Modes <- TwoModes
  MaxEdits = 1
  ShapeFiles <- Shapefiles
  CountyOptions = {Nil, "x", "y"}
  Surveys = {i1, i2}
  Legacy = {"1"}
  MaxShapes = 4
  Applications <- AllApplications
  BallotFiles <- ThreeBallotFiles
  Intakes = {i1, i2}
  Statement = 2
  MaxBallots = 5
SYMMETRY Symmetry
CHECK_DEADLOCK FALSE
INVARIANTS
  CompletedIsThere
  OnePerFile
  RegistersHold
  ElectionDataHolds
  AgainHolds
PROPERTIES
  RemovedByReplacement
  ReplacesExactly
